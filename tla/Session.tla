------------------------------- MODULE Session -------------------------------
(***************************************************************************)
(* The browser tabs of one user: frontend/src/services/api.js and          *)
(* AuthContext.jsx, over the token views of the backend.                   *)
(*                                                                         *)
(* All tabs share localStorage.  A pair of tokens is a number, in order of *)
(* issue; 0 is no token.  What a tab does between two awaits is one step.  *)
(***************************************************************************)
EXTENDS Naturals, FiniteSets

CONSTANTS
    Tabs,
    DataCalls, \* the requests a page may have out at once
    MaxCalls,  \* data calls made in all
    MaxFaults, \* answers lost, delayed for ever, or dropped with their page
    MaxLogins, \* logins and logouts
    MaxExpiries

VARIABLES
    store,      \* localStorage: [access, refresh]
    issued,     \* pairs issued by the server
    expired,    \* pairs whose access token has expired
    blacklist,  \* pairs whose refresh token the server refuses
    call,       \* by tab and kind of call: [at, token, retried]
    refreshing, \* by tab, the shared promise: [at, token, new]
    leaving,    \* by tab, apiService.logout()
    user,       \* by tab, the user of AuthContext is set
    forced,     \* an onAuthFailure() was called
    excused,    \* something has happened that may end the session
    count       \* by kind of event, how often it happened

vars == <<store, issued, expired, blacklist, call, refreshing, leaving, user,
          forced, excused, count>>

\* The others, and getCurrentUser() of loadUser().
Calls == DataCalls \cup {"me"}

NoCall    == [at |-> "none", token |-> 0, retried |-> FALSE]
NoRefresh == [at |-> "none", token |-> 0, new |-> 0]
NoLeave   == [at |-> "no", access |-> 0, refresh |-> 0]
NoTokens  == [access |-> 0, refresh |-> 0]

Limit == [call |-> MaxCalls, fault |-> MaxFaults, login |-> MaxLogins, expiry |-> MaxExpiries]

Happens(what) ==
    /\ count[what] < Limit[what]
    /\ count' = [count EXCEPT ![what] = @ + 1]

Accepts(token) == token > 0 /\ token \notin expired

-----------------------------------------------------------------------------
(***************************************************************************)
(* A call: request interceptor, server, response interceptor               *)
(***************************************************************************)
Sent == [at |-> "sent", token |-> store.access, retried |-> FALSE]

\* A component of a page that is signed in fetches data.
Send(t, c) ==
    /\ c \in DataCalls /\ call[t][c] = NoCall /\ user[t]
    /\ Happens("call")
    /\ call' = [call EXCEPT ![t][c] = Sent]
    /\ UNCHANGED <<store, issued, expired, blacklist, refreshing, leaving, user, forced, excused>>

\* The answer to a call that is let in is taken at once: its delay matters to no other.
Succeed(t, c) ==
    /\ call[t][c].at = "sent" /\ Accepts(call[t][c].token)
    /\ call' = [call EXCEPT ![t][c] = NoCall]
    /\ user' = [user EXCEPT ![t] = @ \/ c = "me"]
    /\ UNCHANGED <<store, issued, expired, blacklist, refreshing, leaving, forced, excused, count>>

Unauthorized(t, c) ==
    /\ call[t][c].at = "sent" /\ ~Accepts(call[t][c].token)
    /\ call' = [call EXCEPT ![t][c].at = "401"]
    /\ UNCHANGED <<store, issued, expired, blacklist, refreshing, leaving, user, forced, excused, count>>

\* No answer within 60 s: the interceptor rejects, no token is touched.
TimeOut(t, c) ==
    /\ call[t][c].at \in {"sent", "401"}
    /\ Happens("fault")
    /\ call' = [call EXCEPT ![t][c] = NoCall]
    /\ user' = [user EXCEPT ![t] = @ /\ c # "me"]
    /\ UNCHANGED <<store, issued, expired, blacklist, refreshing, leaving, forced, excused>>

MayRefresh(t, c) == ~call[t][c].retried /\ store.refresh # 0

\* A second 401, or no refresh token: the caller gets the error.
GiveUp(t, c) ==
    /\ call[t][c].at = "401" /\ ~MayRefresh(t, c)
    /\ call' = [call EXCEPT ![t][c] = NoCall]
    /\ user' = [user EXCEPT ![t] = @ /\ c # "me"]
    /\ UNCHANGED <<store, issued, expired, blacklist, refreshing, leaving, forced, excused, count>>

\* Another tab has the same refresh token at the server.
Crosses(t) == \E s \in Tabs \ {t} : refreshing[s].at # "none" /\ refreshing[s].token = store.refresh

\* The first 401 starts the refresh, the others wait for it.
AwaitRefresh(t, c) ==
    /\ call[t][c].at = "401" /\ MayRefresh(t, c)
    /\ call' = [call EXCEPT ![t][c].at = "waiting", ![t][c].retried = TRUE]
    /\ IF refreshing[t].at = "none"
       THEN /\ refreshing' = [refreshing EXCEPT ![t] = [at |-> "sent", token |-> store.refresh, new |-> 0]]
            /\ IF Crosses(t) THEN excused' = TRUE ELSE UNCHANGED excused
       ELSE UNCHANGED <<refreshing, excused>>
    /\ UNCHANGED <<store, issued, expired, blacklist, leaving, user, forced, count>>

-----------------------------------------------------------------------------
(***************************************************************************)
(* The refresh                                                             *)
(***************************************************************************)

\* RefreshView: rotates, and blacklists the token it was sent.
Rotate(t) ==
    /\ refreshing[t].at = "sent" /\ refreshing[t].token \notin blacklist
    /\ issued' = issued + 1
    /\ blacklist' = blacklist \cup {refreshing[t].token}
    /\ refreshing' = [refreshing EXCEPT ![t].at = "granted", ![t].new = issued + 1]
    /\ UNCHANGED <<store, expired, call, leaving, user, forced, excused, count>>

Refuse(t) ==
    /\ refreshing[t].at = "sent" /\ refreshing[t].token \in blacklist
    /\ refreshing' = [refreshing EXCEPT ![t].at = "failed"]
    /\ UNCHANGED <<store, issued, expired, blacklist, call, leaving, user, forced, excused, count>>

\* A network error: the promise rejects, whatever the server has done.
LoseRefresh(t) ==
    /\ refreshing[t].at \in {"sent", "granted"}
    /\ Happens("fault") /\ excused' = TRUE
    /\ refreshing' = [refreshing EXCEPT ![t].at = "failed"]
    /\ UNCHANGED <<store, issued, expired, blacklist, call, leaving, user, forced>>

\* No answer, and the request was made through axios, not api: no time limit.
HangRefresh(t) ==
    /\ refreshing[t].at \in {"sent", "granted"}
    /\ Happens("fault")
    /\ refreshing' = [refreshing EXCEPT ![t].at = "hung"]
    /\ UNCHANGED <<store, issued, expired, blacklist, call, leaving, user, forced, excused>>

Waiting(t) == {c \in Calls : call[t][c].at = "waiting"}

\* The calls are made again; the request interceptor reads the new access token.
SendAgain(t, token) ==
    call' = [call EXCEPT ![t] = [c \in Calls |->
        IF c \in Waiting(t) THEN [call[t][c] EXCEPT !.at = "sent", !.token = token] ELSE call[t][c]]]

\* (mutant) The rotated refresh token is not kept.
RefreshedAccessOnly(t) ==
    /\ refreshing[t].at = "granted"
    /\ store' = [store EXCEPT !.access = refreshing[t].new]
    /\ SendAgain(t, refreshing[t].new)
    /\ refreshing' = [refreshing EXCEPT ![t] = NoRefresh]
    /\ UNCHANGED <<issued, expired, blacklist, leaving, user, forced, excused, count>>

Refreshed(t) ==
    /\ refreshing[t].at = "granted"
    /\ store' = [access |-> refreshing[t].new, refresh |-> refreshing[t].new]
    /\ SendAgain(t, refreshing[t].new)
    /\ refreshing' = [refreshing EXCEPT ![t] = NoRefresh]
    /\ UNCHANGED <<issued, expired, blacklist, leaving, user, forced, excused, count>>

\* (mutant) The calls that wait are not rejected.
RefreshFailsSilently(t) ==
    /\ refreshing[t].at = "failed"
    /\ store' = NoTokens
    /\ user' = [user EXCEPT ![t] = FALSE] /\ forced' = TRUE
    /\ refreshing' = [refreshing EXCEPT ![t] = NoRefresh]
    /\ UNCHANGED <<issued, expired, blacklist, call, leaving, excused, count>>

\* Clears the tokens of every tab, whoever stored them.
RefreshFails(t) ==
    /\ refreshing[t].at = "failed"
    /\ store' = NoTokens
    /\ user' = [user EXCEPT ![t] = FALSE] /\ forced' = TRUE
    /\ call' = [call EXCEPT ![t] = [c \in Calls |-> IF c \in Waiting(t) THEN NoCall ELSE call[t][c]]]
    /\ refreshing' = [refreshing EXCEPT ![t] = NoRefresh]
    /\ UNCHANGED <<issued, expired, blacklist, leaving, excused, count>>

-----------------------------------------------------------------------------
(***************************************************************************)
(* Login, logout, a page loaded anew, time                                 *)
(***************************************************************************)

\* The form is there when there is no user; loadUser() follows.
Login(t) ==
    /\ ~user[t] /\ call[t]["me"] = NoCall /\ leaving[t].at = "no"
    /\ Happens("login")
    /\ issued' = issued + 1
    /\ store' = [access |-> issued + 1, refresh |-> issued + 1]
    /\ call' = [call EXCEPT ![t]["me"] = [at |-> "sent", token |-> issued + 1, retried |-> FALSE]]
    /\ UNCHANGED <<expired, blacklist, refreshing, leaving, user, forced, excused>>

Logout(t) ==
    /\ user[t] /\ leaving[t].at = "no"
    /\ Happens("login") /\ excused' = TRUE
    /\ leaving' = [leaving EXCEPT ![t] =
          [at |-> IF store.refresh = 0 THEN "answered" ELSE "sent",
           access |-> store.access, refresh |-> store.refresh]]
    /\ UNCHANGED <<store, issued, expired, blacklist, call, refreshing, user, forced>>

\* LogoutView: an expired access token gets a 401, which is not refreshed.
ServeLogout(t) ==
    /\ leaving[t].at = "sent"
    /\ blacklist' = IF Accepts(leaving[t].access) THEN blacklist \cup {leaving[t].refresh} ELSE blacklist
    /\ leaving' = [leaving EXCEPT ![t].at = "answered"]
    /\ UNCHANGED <<store, issued, expired, call, refreshing, user, forced, excused, count>>

\* Whatever the answer.
ClearLocally(t) ==
    /\ leaving[t].at = "answered"
    /\ store' = NoTokens
    /\ user' = [user EXCEPT ![t] = FALSE]
    /\ leaving' = [leaving EXCEPT ![t] = NoLeave]
    /\ UNCHANGED <<issued, expired, blacklist, call, refreshing, forced, excused, count>>

\* Answers to the page that was there are lost.
Reload(t) ==
    /\ Happens("fault")
    /\ IF refreshing[t].at # "none" THEN excused' = TRUE ELSE UNCHANGED excused
    /\ user' = [user EXCEPT ![t] = FALSE]
    /\ call' = [call EXCEPT ![t] = [c \in Calls |->
          IF c = "me" /\ store.access # 0 THEN Sent ELSE NoCall]]
    /\ refreshing' = [refreshing EXCEPT ![t] = NoRefresh]
    /\ leaving' = [leaving EXCEPT ![t] = NoLeave]
    /\ UNCHANGED <<store, issued, expired, blacklist, forced>>

\* ACCESS_TOKEN_LIFETIME
Expire ==
    /\ expired # 1..issued /\ Happens("expiry")
    /\ expired' = 1..issued
    /\ UNCHANGED <<store, issued, blacklist, call, refreshing, leaving, user, forced, excused>>

-----------------------------------------------------------------------------
\* A user who signed in some time ago, in all tabs.
Init ==
    /\ store = [access |-> 1, refresh |-> 1] /\ issued = 1 /\ expired = {} /\ blacklist = {}
    /\ call = [t \in Tabs |-> [c \in Calls |-> NoCall]]
    /\ refreshing = [t \in Tabs |-> NoRefresh]
    /\ leaving = [t \in Tabs |-> NoLeave]
    /\ user = [t \in Tabs |-> TRUE]
    /\ forced = FALSE /\ excused = FALSE
    /\ count = [what \in DOMAIN Limit |-> 0]

CallStep(t, c) == Unauthorized(t, c) \/ Succeed(t, c) \/ GiveUp(t, c) \/ AwaitRefresh(t, c)
RefreshStep(t) == Rotate(t) \/ Refuse(t) \/ Refreshed(t) \/ RefreshFails(t)
LogoutStep(t)  == ServeLogout(t) \/ ClearLocally(t)

Next ==
    \/ \E t \in Tabs, c \in Calls : Send(t, c) \/ CallStep(t, c) \/ TimeOut(t, c)
    \/ \E t \in Tabs :
          \/ RefreshStep(t) \/ LoseRefresh(t) \/ HangRefresh(t)
          \/ Login(t) \/ Logout(t) \/ LogoutStep(t) \/ Reload(t)
    \/ Expire

Spec == Init /\ [][Next]_vars

\* The server answers, and a page takes what it is answered.
FairSpec ==
    /\ Spec
    /\ \A t \in Tabs : WF_vars(RefreshStep(t)) /\ WF_vars(LogoutStep(t))
    /\ \A t \in Tabs, c \in Calls : WF_vars(CallStep(t, c))

-----------------------------------------------------------------------------
(***************************************************************************)
(* Properties                                                              *)
(***************************************************************************)

\* However calls, 401s, rotations and expiry interleave, in one tab or several,
\* onAuthFailure() never forces a user out, unless somebody logged out, an answer
\* to a refresh was lost or two tabs refreshed with the same token at once.
SessionKept == forced => excused

\* api.js: a call is answered, rejected or times out, also one that waits for the
\* refresh of another, unless the server never answers that refresh: it is the one
\* request without a time limit, and what waits for it hangs with it.
EveryCallSettles ==
    \A t \in Tabs, c \in Calls :
        call[t][c] # NoCall ~> call[t][c] = NoCall \/ refreshing[t].at = "hung"
=============================================================================
