----------------------------- MODULE AdminPanel -----------------------------
(***************************************************************************)
(* The admin panel in the Mini App: the password prompt of the settings    *)
(* page, the panel with its views, switches and lock, and the ways on and  *)
(* off it, over the API client and the step-up sessions of the server.     *)
(* Metrics and error feed behave alike and are one view here, "feed".      *)
(***************************************************************************)
EXTENDS ApiClient

VARIABLES
    app,      \* initState of App
    screen,   \* the route; with hasSession lost the panel leaves it at once
    prompt,   \* showAdminPrompt
    dialog,   \* pending of AdminPage: the switch that asks for confirmation
    view,     \* the cached queries: has it data, and its error
    refusal   \* the error of the toggle mutation

pageVars == <<app, screen, prompt, dialog, view, refusal>>
panelVars == <<sessionsVars, clientVars, pageVars>>

Views == {"overview", "feed"}
EmptyViews == [k \in Views |-> [data |-> FALSE, error |-> "none"]]

OnPanel == app = "ready" /\ screen = "panel"

\* statusOf
ErrorOf(status) == CASE status = "ok" -> "none" [] status = "401" -> "401" [] OTHER -> "other"

-----------------------------------------------------------------------------
(* Between the pages.                                                      *)

\* The page on the screen is unmounted: its requests go on without it.
Unmounted(requests) == [k \in Kinds |-> [requests[k] EXCEPT !.mine = FALSE]]

\* The screen becomes s and what belongs to the page before is gone.
Show(s, requests) ==
    /\ screen' = s
    /\ prompt' = FALSE /\ dialog' = FALSE /\ refusal' = "none"
    /\ req' = Unmounted(requests)

Navigate(s) ==
    /\ app = "ready" /\ s # screen
    /\ Show(s, req)
    /\ UNCHANGED <<sessionsVars, access, adminToken, refreshing, refreshes, app, view>>

\* hasSession is gone: AdminPage goes to /settings.  The token stays where it is.
Bounce(requests) == Show("settings", requests)

\* Queries of a page that mounts: an error without data is forgotten.
Refetched == [k \in Views |-> IF view[k].data THEN view[k] ELSE [view[k] EXCEPT !.error = "none"]]

\* The views are fetched; a 401 that one still remembers ends the visit at once.
Visit(requests) ==
    /\ view' = Refetched
    /\ IF Refetched["feed"].error = "401"
       THEN Bounce(requests)
       ELSE /\ screen' = "panel" /\ prompt' = FALSE
            /\ req' = requests
            /\ UNCHANGED <<dialog, refusal>>

\* Wrong form: AdminPage does not look for a token when it mounts.
EnterUnasked(t, requests) == Visit(requests)

\* AdminPage mounts with the token t, or without one.
EnterPanel(t, requests) ==
    \/ t = Nothing /\ Show("settings", req) /\ UNCHANGED view
    \/ t # Nothing /\ Visit(requests)

-----------------------------------------------------------------------------
(* App.                                                                    *)

\* initTelegramApp: "outside" has no initData.  The route is mounted when it is done.
Boot ==
    /\ app = "loading"
    /\ \/ /\ app' = "ready" /\ access' = "good"
          /\ IF screen = "panel" THEN EnterPanel(adminToken, Sent(Views, adminToken))
             ELSE UNCHANGED <<req, screen, prompt, dialog, view, refusal>>
       \/ /\ app' \in {"failed", "outside"}
          /\ UNCHANGED <<access, req, screen, prompt, dialog, view, refusal>>
    /\ UNCHANGED <<sessionsVars, adminToken, refreshing, refreshes>>

RetryBoot ==
    /\ app = "failed"
    /\ app' = "loading"
    /\ UNCHANGED <<sessionsVars, clientVars, screen, prompt, dialog, view, refusal>>

\* A reload forgets everything but the route.
Reload ==
    /\ app # "loading"
    /\ app' = "loading" /\ access' = "none" /\ adminToken' = Nothing
    /\ refreshing' = FALSE /\ refreshes' = 0
    /\ req' = [k \in Kinds |-> NoRequest]
    /\ prompt' = FALSE /\ dialog' = FALSE
    /\ view' = EmptyViews /\ refusal' = "none"
    /\ UNCHANGED <<sessionsVars, screen>>

\* The catch of the interceptor: clearTokens, then reload.
RefreshFails == refreshes > 0 /\ Reload

-----------------------------------------------------------------------------
(* SettingsPage and its password prompt.                                   *)

\* handleAdminOpen
OpenAdmin ==
    /\ app = "ready" /\ screen = "settings" /\ ~prompt
    /\ \/ adminToken # Nothing /\ EnterPanel(adminToken, Sent(Views, adminToken))
       \/ /\ adminToken = Nothing
          /\ prompt' = TRUE
          /\ UNCHANGED <<req, screen, dialog, view, refusal>>
    /\ UNCHANGED <<sessionsVars, access, adminToken, refreshing, refreshes, app>>

\* Escape and the overlay close it while the login is on its way, too.
CancelPrompt ==
    /\ prompt
    /\ prompt' = FALSE
    /\ UNCHANGED <<sessionsVars, clientVars, app, screen, dialog, view, refusal>>

SubmitPassword ==
    /\ prompt /\ req["login"].at = "idle"
    /\ req' = Sent({"login"}, adminToken)
    /\ UNCHANGED <<sessionsVars, access, adminToken, refreshing, refreshes, pageVars>>

Rest(k) == [req EXCEPT ![k] = NoRequest]

\* The answer of a login opens the panel from wherever the operator is by then.
LoginSucceeds ==
    LET t == req["login"].token IN
    /\ req["login"].at = "ok"
    /\ adminToken' = t
    /\ IF OnPanel
       THEN req' = Rest("login") /\ UNCHANGED <<screen, prompt, dialog, view, refusal>>
       ELSE EnterPanel(t, [Sent(Views, t) EXCEPT !["login"] = NoRequest])
    /\ UNCHANGED <<sessionsVars, access, refreshing, refreshes, app>>

\* The prompt stays for another try, unless there is no panel for this account.
LoginFails ==
    /\ Final("login") /\ req["login"].at # "ok"
    /\ req' = Rest("login")
    /\ prompt' = (prompt /\ ~(req["login"].mine /\ req["login"].at = "404"))
    /\ UNCHANGED <<sessionsVars, access, adminToken, refreshing, refreshes,
                   app, screen, dialog, view, refusal>>

\* Any other call of the app: GET /user/me when SettingsPage mounts, and so on.
CallOther ==
    /\ app = "ready" /\ ~OnPanel /\ req["profile"].at = "idle"
    /\ req' = Sent({"profile"}, adminToken)
    /\ UNCHANGED <<sessionsVars, access, adminToken, refreshing, refreshes, pageVars>>

OtherSettles ==
    /\ Final("profile")
    /\ req' = Rest("profile")
    /\ UNCHANGED <<sessionsVars, access, adminToken, refreshing, refreshes, pageVars>>

-----------------------------------------------------------------------------
(* AdminPage.                                                              *)

\* An error leaves the data of before; a 401 of the feed ends the visit.
ViewSettles(k) ==
    LET error == ErrorOf(req[k].at) IN
    /\ Final(k)
    /\ view' = [view EXCEPT ![k].error = error, ![k].data = @ \/ error = "none"]
    /\ IF k = "feed" /\ error = "401" /\ OnPanel
       THEN Bounce(Rest(k))
       ELSE req' = Rest(k) /\ UNCHANGED <<screen, prompt, dialog, refusal>>
    /\ UNCHANGED <<sessionsVars, access, adminToken, refreshing, refreshes, app>>

RetryView(k) ==
    /\ OnPanel /\ view[k].error = "other" /\ req[k].at = "idle"
    /\ req' = Sent({k}, adminToken)
    /\ view' = Refetched
    /\ UNCHANGED <<sessionsVars, access, adminToken, refreshing, refreshes,
                   app, screen, prompt, dialog, refusal>>

\* "The session has ended": the banner leaves the panel when it is dismissed.
DismissEnded ==
    /\ OnPanel /\ "401" \in {view["overview"].error, refusal}
    /\ Bounce(req)
    /\ UNCHANGED <<sessionsVars, access, adminToken, refreshing, refreshes, app, view>>

DismissRefusal ==
    /\ OnPanel /\ refusal = "other"
    /\ refusal' = "none"
    /\ UNCHANGED <<sessionsVars, clientVars, app, screen, prompt, dialog, view>>

SendToggle ==
    /\ req' = Sent({"toggle"}, adminToken)
    /\ refusal' = "none"
    /\ UNCHANGED <<sessionsVars, access, adminToken, refreshing, refreshes,
                   app, screen, prompt, dialog, view>>

Switchable == OnPanel /\ view["overview"].data /\ req["toggle"].at = "idle"

SwitchOn == Switchable /\ ~dialog /\ SendToggle

AskToSwitchOff ==
    /\ Switchable /\ ~dialog
    /\ dialog' = TRUE
    /\ UNCHANGED <<sessionsVars, clientVars, app, screen, prompt, view, refusal>>

ConfirmSwitchOff == Switchable /\ dialog /\ SendToggle

CancelSwitchOff ==
    /\ dialog
    /\ dialog' = FALSE
    /\ UNCHANGED <<sessionsVars, clientVars, app, screen, prompt, view, refusal>>

ToggleSettles ==
    /\ Final("toggle")
    /\ req' = Rest("toggle")
    /\ IF req["toggle"].mine
       THEN dialog' = FALSE /\ refusal' = ErrorOf(req["toggle"].at)
       ELSE UNCHANGED <<dialog, refusal>>
    /\ UNCHANGED <<sessionsVars, access, adminToken, refreshing, refreshes,
                   app, screen, prompt, view>>

\* handleLock
Lock ==
    /\ OnPanel /\ ~dialog /\ req["lock"].at = "idle"
    /\ req' = Sent({"lock"}, adminToken)
    /\ UNCHANGED <<sessionsVars, access, adminToken, refreshing, refreshes, pageVars>>

\* The token is dropped in any case; the panel is left when the server agreed.
LockSettles ==
    /\ Final("lock")
    /\ adminToken' = Nothing
    /\ IF req["lock"].at = "ok" /\ req["lock"].mine
       THEN Show("settings", Rest("lock"))
       ELSE req' = Rest("lock") /\ UNCHANGED <<screen, prompt, dialog, refusal>>
    /\ UNCHANGED <<sessionsVars, access, refreshing, refreshes, app, view>>

-----------------------------------------------------------------------------
PanelInit ==
    /\ SessionsInit /\ ClientInit
    /\ app = "loading" /\ screen \in {"settings", "elsewhere", "panel"}
    /\ prompt = FALSE /\ dialog = FALSE
    /\ view = EmptyViews /\ refusal = "none"

Settle(k) ==
    \/ k \in Views /\ ViewSettles(k)
    \/ k = "login" /\ (LoginSucceeds \/ LoginFails)
    \/ k = "toggle" /\ ToggleSettles
    \/ k = "lock" /\ LockSettles
    \/ k = "profile" /\ OtherSettles

Handle(k) == ((Serve(k) \/ AwaitRefresh(k)) /\ UNCHANGED pageVars) \/ Settle(k)

Refresh == (Refreshed /\ UNCHANGED pageVars) \/ RefreshFails

PanelNext ==
    \/ Boot \/ RetryBoot \/ Reload \/ Refresh
    \/ (AccessExpires \/ SessionEnds) /\ UNCHANGED pageVars
    \/ \E k \in Kinds : Handle(k)
    \/ \E s \in {"settings", "elsewhere"} : Navigate(s)
    \/ OpenAdmin \/ CancelPrompt \/ SubmitPassword \/ CallOther
    \/ \E k \in Views : RetryView(k)
    \/ DismissEnded \/ DismissRefusal
    \/ SwitchOn \/ AskToSwitchOff \/ ConfirmSwitchOff \/ CancelSwitchOff \/ Lock

PanelSpec == PanelInit /\ [][PanelNext]_panelVars

\* The browser ends every request, if only with an error; no user has to help.
FairPanelSpec == PanelSpec /\ WF_panelVars(Handle("login")) /\ WF_panelVars(Refresh)

-----------------------------------------------------------------------------
\* The prompt does not stay busy: a login that is refused, retried after a refresh that
\* others wait for too, or cut off by a reload comes to its end, even where the gate
\* answers 404 for good and the access token expires again and again.
LoginIsAnswered == req["login"].at # "idle" ~> req["login"].at = "idle"

\* "The route is reachable only with a step-up token in memory": reloads, deep links and
\* late answers included, nothing shows the panel without a login of this app run.
PanelNeedsPassword ==
    [][OnPanel' /\ ~OnPanel => adminToken' # Nothing]_panelVars

=============================================================================
