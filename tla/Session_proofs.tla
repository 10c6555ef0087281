----------------------------- MODULE Session_proofs -----------------------------
(***************************************************************************)
(* SessionKept, for any number of tabs and calls.                          *)
(*                                                                         *)
(* forced is set by a refresh that failed, and one fails, while nothing    *)
(* excuses it, only if the server refuses its token.  So the invariant     *)
(* follows the tokens: the one that a tab has sent is not blacklisted, and *)
(* nobody else can get it blacklisted; the one in the store is             *)
(* blacklisted only while the tab that did it still has the answer to      *)
(* come, which Crosses() notices; and the one that a tab was granted is    *)
(* known to nobody else.                                                   *)
(***************************************************************************)
EXTENDS Session, TLAPS

Tokens == 0..issued

SessionType ==
    /\ issued \in Nat
    /\ store \in [access : Tokens, refresh : Tokens]
    /\ blacklist \subseteq Tokens
    /\ refreshing \in [Tabs -> [at : {"none", "sent", "granted", "failed", "hung"},
                                token : Tokens, new : Tokens]]
    /\ leaving \in [Tabs -> [at : {"no", "sent", "answered"}, access : Tokens, refresh : Tokens]]
    /\ excused \in BOOLEAN

\* A tab has that refresh token at the server, or its answer to come.
Holds(t, token) == refreshing[t].at # "none" /\ refreshing[t].token = token

\* Nothing fails and nobody leaves.
Undisturbed == \A t \in Tabs : refreshing[t].at # "failed" /\ leaving[t].at = "no"

\* What a tab has sent is good, and nobody else's.
SentAreGood ==
    \A t \in Tabs : refreshing[t].at = "sent" =>
        /\ refreshing[t].token \notin blacklist
        /\ \A s \in Tabs \ {t} : ~Holds(s, refreshing[t].token)

\* What is stored is good, but for the time that its successor is on the way.
StoredIsGood ==
    store.refresh \in blacklist => \E t \in Tabs : Holds(t, store.refresh)

\* What a tab was granted is good, and known to nobody else.
GrantedAreNew ==
    \A t \in Tabs : refreshing[t].at = "granted" =>
        /\ refreshing[t].new \notin blacklist
        /\ refreshing[t].new # store.refresh
        /\ \A s \in Tabs : ~Holds(s, refreshing[t].new)
        /\ \A s \in Tabs \ {t} : refreshing[s].at = "granted" => refreshing[s].new # refreshing[t].new

TokensInv == ~excused => Undisturbed /\ SentAreGood /\ StoredIsGood /\ GrantedAreNew

SessionInv == SessionType /\ TokensInv /\ SessionKept

-----------------------------------------------------------------------------
(***************************************************************************)
(* The type                                                                *)
(***************************************************************************)

Refreshes == [at : {"none", "sent", "granted", "failed", "hung"}, token : Tokens, new : Tokens]
Leaves    == [at : {"no", "sent", "answered"}, access : Tokens, refresh : Tokens]

\* A pair is issued to one tab, or none is; nothing refers to a later one.
LEMMA IssueType ==
    ASSUME SessionType, issued' \in Nat, issued <= issued',
           NEW t \in Tabs, NEW r \in Refreshes', NEW l \in Leaves',
           refreshing' = refreshing \/ refreshing' = [refreshing EXCEPT ![t] = r],
           leaving' = leaving \/ leaving' = [leaving EXCEPT ![t] = l],
           store' \in [access : Tokens', refresh : Tokens'],
           blacklist' \subseteq Tokens', excused' \in BOOLEAN
    PROVE  SessionType'
<1>1. Tokens \subseteq Tokens'
  BY DEF Tokens, SessionType
<1>2. Refreshes \subseteq Refreshes' /\ Leaves \subseteq Leaves'
  BY <1>1 DEF Refreshes, Leaves
<1>3. refreshing \in [Tabs -> Refreshes] /\ leaving \in [Tabs -> Leaves]
  BY DEF SessionType, Refreshes, Leaves
<1>4. refreshing' \in [Tabs -> Refreshes']
  BY <1>2, <1>3
<1>5. leaving' \in [Tabs -> Leaves']
  BY <1>2, <1>3
<1> QED
  BY <1>4, <1>5 DEF SessionType, Refreshes, Leaves

\* A step of a tab that issues nothing and stores nothing.
LEMMA QuietType ==
    ASSUME SessionType, UNCHANGED <<issued, store>>, blacklist' \subseteq Tokens,
           NEW t \in Tabs, NEW r \in Refreshes, NEW l \in Leaves,
           refreshing' = refreshing \/ refreshing' = [refreshing EXCEPT ![t] = r],
           leaving' = leaving \/ leaving' = [leaving EXCEPT ![t] = l],
           excused' \in BOOLEAN
    PROVE  SessionType'
<1>1. Tokens' = Tokens
  BY DEF Tokens
<1>2. Refreshes' = Refreshes /\ Leaves' = Leaves
  BY <1>1 DEF Refreshes, Leaves
<1>3. issued' \in Nat /\ issued <= issued' /\ store' \in [access : Tokens', refresh : Tokens']
  BY <1>1 DEF SessionType
<1> QED
  BY <1>1, <1>2, <1>3, IssueType

\* What every tab has, and the empty ones, are of the type.
LEMMA Typed ==
    ASSUME SessionType, NEW t \in Tabs
    PROVE  /\ refreshing[t] \in Refreshes /\ leaving[t] \in Leaves
           /\ NoRefresh \in Refreshes /\ NoLeave \in Leaves
           /\ 0 \in Tokens /\ NoTokens \in [access : Tokens, refresh : Tokens]
<1>1. 0 \in Tokens
  BY DEF Tokens, SessionType
<1> QED
  BY <1>1 DEF SessionType, Refreshes, Leaves, NoRefresh, NoLeave, NoTokens

LEMMA TypeInit == Init => SessionType
<1> SUFFICES ASSUME Init PROVE SessionType
  OBVIOUS
<1>1. issued \in Nat /\ 0 \in Tokens /\ 1 \in Tokens
  BY DEF Init, Tokens
<1> QED
  BY <1>1 DEF Init, SessionType, NoRefresh, NoLeave

LEMMA StepType == SessionType /\ [Next]_vars => SessionType'
<1> SUFFICES ASSUME SessionType, [Next]_vars
             PROVE  SessionType'
  OBVIOUS
<1>0. /\ issued \in Nat /\ store.access \in Tokens /\ store.refresh \in Tokens
      /\ blacklist \subseteq Tokens /\ excused \in BOOLEAN
      /\ store \in [access : Tokens, refresh : Tokens]
  BY DEF SessionType
<1>1. CASE UNCHANGED vars
  BY <1>1 DEF vars, SessionType, Tokens
<1>2. CASE Expire
  BY <1>2 DEF Expire, SessionType, Tokens
<1>3. ASSUME NEW t \in Tabs, NEW c \in Calls, Send(t, c) \/ CallStep(t, c) \/ TimeOut(t, c)
      PROVE  SessionType'
  <2>1. CASE AwaitRefresh(t, c)
    <3> DEFINE r == [at |-> "sent", token |-> store.refresh, new |-> 0]
    <3>1. r \in Refreshes
      BY <1>0, Typed DEF Refreshes
    <3>2. refreshing' = refreshing \/ refreshing' = [refreshing EXCEPT ![t] = r]
      BY <2>1 DEF AwaitRefresh
    <3>3. excused' \in BOOLEAN /\ UNCHANGED <<issued, store, blacklist, leaving>>
      BY <1>0, <2>1 DEF AwaitRefresh
    <3> HIDE DEF r
    <3> QED
      BY <1>0, <3>1, <3>2, <3>3, Typed, QuietType
  <2>2. CASE ~AwaitRefresh(t, c)
    BY <1>3, <2>2 DEF Send, CallStep, TimeOut, Unauthorized, Succeed, GiveUp, SessionType, Tokens
  <2> QED
    BY <2>1, <2>2
<1>4. ASSUME NEW t \in Tabs, Rotate(t)
      PROVE  SessionType'
  <2> DEFINE r == [refreshing[t] EXCEPT !.at = "granted", !.new = issued + 1]
  <2>1. issued' = issued + 1 /\ Tokens' = 0..(issued + 1)
    BY <1>4 DEF Rotate, Tokens
  <2>2. Tokens \subseteq Tokens' /\ issued + 1 \in Tokens' /\ refreshing[t].token \in Tokens
    BY <1>0, <2>1 DEF Tokens, SessionType
  <2>3. refreshing[t] \in Refreshes
    BY Typed
  <2>4. r \in Refreshes'
    BY <2>2, <2>3 DEF Refreshes
  <2>5. leaving[t] \in Leaves'
    BY <2>2, Typed DEF Leaves
  <2>6. /\ refreshing' = [refreshing EXCEPT ![t] = r] /\ UNCHANGED <<leaving, store, excused>>
        /\ blacklist' = blacklist \cup {refreshing[t].token}
    BY <1>4 DEF Rotate
  <2>7. /\ issued' \in Nat /\ issued <= issued' /\ store' \in [access : Tokens', refresh : Tokens']
        /\ blacklist' \subseteq Tokens' /\ excused' \in BOOLEAN
    BY <1>0, <2>1, <2>2, <2>6
  <2> HIDE DEF r
  <2> QED
    BY <2>4, <2>5, <2>6, <2>7, IssueType
<1>5. ASSUME NEW t \in Tabs, Refuse(t) \/ LoseRefresh(t) \/ HangRefresh(t)
      PROVE  SessionType'
  <2>1. PICK at \in {"failed", "hung"} : refreshing' = [refreshing EXCEPT ![t].at = at]
    BY <1>5 DEF Refuse, LoseRefresh, HangRefresh
  <2> DEFINE r == [refreshing[t] EXCEPT !.at = at]
  <2>2. r \in Refreshes
    BY Typed DEF Refreshes
  <2>3. refreshing' = [refreshing EXCEPT ![t] = r]
    BY <2>1
  <2>4. excused' \in BOOLEAN /\ UNCHANGED <<issued, store, blacklist, leaving>>
    BY <1>0, <1>5 DEF Refuse, LoseRefresh, HangRefresh
  <2> HIDE DEF r
  <2> QED
    BY <1>0, <2>2, <2>3, <2>4, Typed, QuietType
<1>6. ASSUME NEW t \in Tabs, Refreshed(t) \/ RefreshFails(t)
      PROVE  SessionType'
  <2>1. refreshing[t].new \in Tokens
    BY Typed DEF Refreshes
  <2>2. /\ store' = [access |-> refreshing[t].new, refresh |-> refreshing[t].new] \/ store' = NoTokens
        /\ refreshing' = [refreshing EXCEPT ![t] = NoRefresh]
        /\ UNCHANGED <<issued, blacklist, leaving, excused>>
    BY <1>6 DEF Refreshed, RefreshFails
  <2>3. store' \in [access : Tokens, refresh : Tokens]
    BY <2>1, <2>2, Typed
  <2>4. Tokens' = Tokens /\ Refreshes' = Refreshes /\ Leaves' = Leaves
    BY <2>2 DEF Tokens, Refreshes, Leaves
  <2>5. issued' \in Nat /\ issued <= issued' /\ blacklist' \subseteq Tokens' /\ excused' \in BOOLEAN
    BY <1>0, <2>2, <2>4
  <2> QED
    BY <2>2, <2>3, <2>4, <2>5, Typed, IssueType
<1>7. ASSUME NEW t \in Tabs, Login(t)
      PROVE  SessionType'
  <2>1. issued' = issued + 1 /\ Tokens' = 0..(issued + 1)
    BY <1>7 DEF Login, Tokens
  <2>2. Tokens \subseteq Tokens' /\ issued + 1 \in Tokens'
    BY <1>0, <2>1 DEF Tokens
  <2>3. refreshing[t] \in Refreshes' /\ leaving[t] \in Leaves'
    BY <2>2, Typed DEF Refreshes, Leaves
  <2>4. /\ UNCHANGED <<refreshing, leaving, blacklist, excused>>
        /\ store' = [access |-> issued + 1, refresh |-> issued + 1]
    BY <1>7 DEF Login
  <2>5. /\ issued' \in Nat /\ issued <= issued' /\ store' \in [access : Tokens', refresh : Tokens']
        /\ blacklist' \subseteq Tokens' /\ excused' \in BOOLEAN
    BY <1>0, <2>1, <2>2, <2>4
  <2> QED
    BY <2>3, <2>4, <2>5, IssueType
<1>8. ASSUME NEW t \in Tabs, Logout(t)
      PROVE  SessionType'
  <2> DEFINE l == [at |-> IF store.refresh = 0 THEN "answered" ELSE "sent",
                   access |-> store.access, refresh |-> store.refresh]
  <2>1. l \in Leaves
    BY <1>0 DEF Leaves
  <2>2. /\ leaving' = [leaving EXCEPT ![t] = l] /\ excused' \in BOOLEAN
        /\ UNCHANGED <<issued, store, blacklist, refreshing>>
    BY <1>8 DEF Logout
  <2> HIDE DEF l
  <2> QED
    BY <1>0, <2>1, <2>2, Typed, QuietType
<1>9. ASSUME NEW t \in Tabs, LogoutStep(t)
      PROVE  SessionType'
  <2>1. leaving[t] \in Leaves /\ leaving[t].refresh \in Tokens
    BY Typed DEF Leaves
  <2>2. CASE ServeLogout(t)
    <3> DEFINE l == [leaving[t] EXCEPT !.at = "answered"]
    <3>1. l \in Leaves
      BY <2>1 DEF Leaves
    <3>2. leaving' = [leaving EXCEPT ![t] = l] /\ UNCHANGED <<issued, store, refreshing, excused>>
      BY <2>2 DEF ServeLogout
    <3>3. blacklist' \subseteq Tokens
      BY <1>0, <2>1, <2>2 DEF ServeLogout
    <3> HIDE DEF l
    <3> QED
      BY <1>0, <3>1, <3>2, <3>3, Typed, QuietType
  <2>3. CASE ClearLocally(t)
    <3>1. /\ store' = NoTokens /\ leaving' = [leaving EXCEPT ![t] = NoLeave]
          /\ UNCHANGED <<issued, blacklist, refreshing, excused>>
      BY <2>3 DEF ClearLocally
    <3>2. Tokens' = Tokens /\ Refreshes' = Refreshes /\ Leaves' = Leaves
      BY <3>1 DEF Tokens, Refreshes, Leaves
    <3>3. /\ issued' \in Nat /\ issued <= issued' /\ blacklist' \subseteq Tokens'
          /\ excused' \in BOOLEAN /\ store' \in [access : Tokens', refresh : Tokens']
      BY <1>0, <3>1, <3>2, Typed
    <3> QED
      BY <3>1, <3>2, <3>3, Typed, IssueType
  <2> QED
    BY <1>9, <2>2, <2>3 DEF LogoutStep
<1>10. ASSUME NEW t \in Tabs, Reload(t)
       PROVE  SessionType'
  <2>1. /\ refreshing' = [refreshing EXCEPT ![t] = NoRefresh]
        /\ leaving' = [leaving EXCEPT ![t] = NoLeave]
        /\ UNCHANGED <<issued, store, blacklist>> /\ excused' \in BOOLEAN
    BY <1>0, <1>10 DEF Reload
  <2> QED
    BY <1>0, <2>1, Typed, QuietType
<1> QED
  BY <1>1, <1>2, <1>3, <1>4, <1>5, <1>6, <1>7, <1>8, <1>9, <1>10 DEF Next, RefreshStep

-----------------------------------------------------------------------------
(***************************************************************************)
(* The tokens                                                              *)
(***************************************************************************)

\* A disturbance is excused, and an excuse stays.
LEMMA ExcuseStays == [Next]_vars /\ excused => excused'
BY DEF Next, vars, Send, CallStep, TimeOut, Unauthorized, Succeed, GiveUp, AwaitRefresh,
       RefreshStep, Rotate, Refuse, Refreshed, RefreshFails, LoseRefresh, HangRefresh,
       Login, Logout, LogoutStep, ServeLogout, ClearLocally, Reload, Expire

\* Only a refresh that has failed forces a user out.
LEMMA ForcedByFailure ==
    ASSUME [Next]_vars, ~forced, forced'
    PROVE  \E t \in Tabs : refreshing[t].at = "failed"
BY DEF Next, vars, Send, CallStep, TimeOut, Unauthorized, Succeed, GiveUp, AwaitRefresh,
       RefreshStep, Rotate, Refuse, Refreshed, RefreshFails, LoseRefresh, HangRefresh,
       Login, Logout, LogoutStep, ServeLogout, ClearLocally, Reload, Expire

\* The tokens of the tabs that take no part are what they were.
LEMMA Beside ==
    ASSUME SessionType, NEW t \in Tabs, NEW r, refreshing' = [refreshing EXCEPT ![t] = r],
           NEW s \in Tabs \ {t}
    PROVE  /\ refreshing'[s] = refreshing[s] /\ refreshing'[t] = r
           /\ \A token : Holds(s, token)' <=> Holds(s, token)
BY DEF SessionType, Holds

LEMMA AwaitTokens ==
    ASSUME SessionType, TokensInv, NEW t \in Tabs, NEW c \in Calls, AwaitRefresh(t, c), ~excused'
    PROVE  TokensInv'
<1>1. ~excused /\ UNCHANGED <<store, blacklist, leaving>>
  BY DEF AwaitRefresh, SessionType
<1>2. Undisturbed /\ SentAreGood /\ StoredIsGood /\ GrantedAreNew
  BY <1>1 DEF TokensInv
<1>3. CASE refreshing[t].at # "none"
  <2>1. UNCHANGED refreshing
    BY <1>3 DEF AwaitRefresh
  <2> QED
    BY <1>1, <1>2, <2>1 DEF TokensInv, Undisturbed, SentAreGood, StoredIsGood, GrantedAreNew, Holds
<1>4. CASE refreshing[t].at = "none"
  <2> DEFINE r == [at |-> "sent", token |-> store.refresh, new |-> 0]
  <2>1. refreshing' = [refreshing EXCEPT ![t] = r] /\ ~Crosses(t)
    BY <1>4 DEF AwaitRefresh
  <2>2. \A s \in Tabs : ~Holds(s, store.refresh)
    BY <1>4, <2>1 DEF Crosses, Holds
  <2>3. store.refresh \notin blacklist
    BY <1>2, <2>2 DEF StoredIsGood
  <2>4. /\ refreshing'[t].at = "sent" /\ refreshing'[t].token = store.refresh
        /\ \A token : Holds(t, token)' <=> token = store.refresh
    BY <2>1 DEF SessionType, Holds
  <2>5. \A s \in Tabs \ {t} : /\ refreshing'[s] = refreshing[s]
                              /\ \A token : Holds(s, token)' <=> Holds(s, token)
    BY <2>1, Beside
  <2>6. Undisturbed'
    BY <1>1, <1>2, <2>4, <2>5 DEF Undisturbed
  <2>7. SentAreGood'
    <3> SUFFICES ASSUME NEW s \in Tabs, refreshing'[s].at = "sent"
                 PROVE  /\ refreshing'[s].token \notin blacklist'
                        /\ \A u \in Tabs \ {s} : ~Holds(u, refreshing[s].token)'
      BY DEF SentAreGood
    <3>1. CASE s = t
      BY <1>1, <2>2, <2>3, <2>4, <2>5, <3>1
    <3>2. CASE s # t
      <4>1. refreshing[s].at = "sent" /\ Holds(s, refreshing[s].token)
        BY <2>5, <3>2 DEF Holds
      <4>2. refreshing[s].token # store.refresh
        BY <2>2, <4>1
      <4> QED
        BY <1>1, <1>2, <2>4, <2>5, <3>2, <4>1, <4>2 DEF SentAreGood
    <3> QED
      BY <3>1, <3>2
  <2>8. StoredIsGood'
    BY <1>1, <2>3 DEF StoredIsGood
  <2>9. GrantedAreNew'
    <3> SUFFICES ASSUME NEW s \in Tabs, refreshing'[s].at = "granted"
                 PROVE  /\ refreshing'[s].new \notin blacklist'
                        /\ refreshing'[s].new # store'.refresh
                        /\ \A u \in Tabs : ~Holds(u, refreshing[s].new)'
                        /\ \A u \in Tabs \ {s} : refreshing'[u].at = "granted"
                                                  => refreshing'[u].new # refreshing'[s].new
      BY DEF GrantedAreNew
    <3>1. s # t /\ refreshing[s].at = "granted" /\ refreshing'[s] = refreshing[s]
      BY <2>4, <2>5
    <3> QED
      BY <1>1, <1>2, <2>4, <2>5, <3>1 DEF GrantedAreNew
  <2> QED
    BY <2>6, <2>7, <2>8, <2>9 DEF TokensInv
<1> QED
  BY <1>3, <1>4

LEMMA RotateTokens ==
    ASSUME SessionType, TokensInv, NEW t \in Tabs, Rotate(t), ~excused'
    PROVE  TokensInv'
<1> DEFINE token == refreshing[t].token
           r     == [refreshing[t] EXCEPT !.at = "granted", !.new = issued + 1]
<1>1. /\ refreshing' = [refreshing EXCEPT ![t] = r] /\ blacklist' = blacklist \cup {token}
      /\ UNCHANGED <<store, leaving, excused>> /\ refreshing[t].at = "sent"
  BY DEF Rotate
<1>2. Undisturbed /\ SentAreGood /\ StoredIsGood /\ GrantedAreNew
  BY <1>1 DEF TokensInv
<1>3. /\ refreshing'[t].at = "granted" /\ refreshing'[t].new = issued + 1
      /\ refreshing'[t].token = token /\ Holds(t, token)'
      /\ \A k : Holds(t, k)' <=> Holds(t, k)
  BY <1>1 DEF SessionType, Holds
<1>4. \A s \in Tabs \ {t} : /\ refreshing'[s] = refreshing[s]
                            /\ \A k : Holds(s, k)' <=> Holds(s, k)
  BY <1>1, Beside
<1>5. issued + 1 \notin blacklist' /\ issued + 1 # store.refresh
  <2>1. issued + 1 \notin Tokens
    BY DEF SessionType, Tokens
  <2> QED
    BY <1>1, <2>1 DEF SessionType
<1>6. \A s \in Tabs : ~Holds(s, issued + 1) /\ refreshing[s].new # issued + 1
  <2>1. issued + 1 \notin Tokens
    BY DEF SessionType, Tokens
  <2> QED
    BY <2>1 DEF SessionType, Holds
<1>7. \A s \in Tabs \ {t} : ~Holds(s, token)
  BY <1>1, <1>2 DEF SentAreGood
<1> HIDE DEF r
<1>8. Undisturbed'
  BY <1>1, <1>2, <1>3, <1>4 DEF Undisturbed
<1>9. SentAreGood'
  <2> SUFFICES ASSUME NEW s \in Tabs, refreshing'[s].at = "sent"
               PROVE  /\ refreshing'[s].token \notin blacklist'
                      /\ \A u \in Tabs \ {s} : ~Holds(u, refreshing[s].token)'
    BY DEF SentAreGood
  <2>1. s # t /\ refreshing'[s] = refreshing[s] /\ refreshing[s].at = "sent"
    BY <1>3, <1>4
  <2>2. refreshing[s].token # token
    BY <1>7, <2>1 DEF Holds
  <2> HIDE DEF token
  <2> QED
    BY <1>1, <1>2, <1>3, <1>4, <2>1, <2>2 DEF SentAreGood
<1>10. StoredIsGood'
  BY <1>1, <1>2, <1>3, <1>4 DEF StoredIsGood
<1>11. GrantedAreNew'
  <2> SUFFICES ASSUME NEW s \in Tabs, refreshing'[s].at = "granted"
               PROVE  /\ refreshing'[s].new \notin blacklist'
                      /\ refreshing'[s].new # store'.refresh
                      /\ \A u \in Tabs : ~Holds(u, refreshing[s].new)'
                      /\ \A u \in Tabs \ {s} : refreshing'[u].at = "granted"
                                                => refreshing'[u].new # refreshing'[s].new
    BY DEF GrantedAreNew
  <2>1. CASE s = t
    BY <1>1, <1>3, <1>4, <1>5, <1>6, <2>1
  <2>2. CASE s # t
    <3>1. refreshing'[s] = refreshing[s] /\ refreshing[s].at = "granted"
      BY <1>4, <2>2
    <3>2. Holds(t, token)
      BY <1>3
    <3>3. refreshing[s].new # token
      BY <1>2, <3>1, <3>2 DEF GrantedAreNew
    <3> HIDE DEF token
    <3> QED
      BY <1>1, <1>2, <1>3, <1>4, <1>6, <2>2, <3>1, <3>3 DEF GrantedAreNew
  <2> QED
    BY <2>1, <2>2
<1> QED
  BY <1>8, <1>9, <1>10, <1>11 DEF TokensInv

\* What was granted goes into the store.
LEMMA RefreshedTokens ==
    ASSUME SessionType, TokensInv, NEW t \in Tabs, Refreshed(t), ~excused'
    PROVE  TokensInv'
<1>1. /\ refreshing' = [refreshing EXCEPT ![t] = NoRefresh] /\ refreshing[t].at = "granted"
      /\ UNCHANGED <<blacklist, leaving, excused>> /\ store'.refresh = refreshing[t].new
  BY DEF Refreshed
<1>2. Undisturbed /\ SentAreGood /\ StoredIsGood /\ GrantedAreNew
  BY <1>1 DEF TokensInv
<1>3. refreshing'[t].at = "none" /\ \A token : ~Holds(t, token)'
  BY <1>1 DEF SessionType, Holds, NoRefresh
<1>4. \A s \in Tabs \ {t} : /\ refreshing'[s] = refreshing[s]
                            /\ \A token : Holds(s, token)' <=> Holds(s, token)
  BY <1>1, Beside
<1>5. Undisturbed'
  BY <1>1, <1>2, <1>3, <1>4 DEF Undisturbed
<1>6. SentAreGood'
  BY <1>1, <1>2, <1>3, <1>4 DEF SentAreGood
<1>7. StoredIsGood'
  BY <1>1, <1>2 DEF StoredIsGood, GrantedAreNew
<1>8. GrantedAreNew'
  BY <1>1, <1>2, <1>3, <1>4 DEF GrantedAreNew
<1> QED
  BY <1>5, <1>6, <1>7, <1>8 DEF TokensInv

\* A new login knows nothing of the old tokens.
LEMMA LoginTokens ==
    ASSUME SessionType, TokensInv, NEW t \in Tabs, Login(t), ~excused'
    PROVE  TokensInv'
<1>1. UNCHANGED <<refreshing, blacklist, leaving, excused>> /\ store'.refresh = issued + 1
  BY DEF Login
<1>2. Undisturbed /\ SentAreGood /\ StoredIsGood /\ GrantedAreNew
  BY <1>1 DEF TokensInv
<1>3. issued + 1 \notin Tokens
  BY DEF SessionType, Tokens
<1>4. issued + 1 \notin blacklist /\ \A s \in Tabs : refreshing[s].new # issued + 1
  BY <1>3 DEF SessionType
<1>5. StoredIsGood'
  BY <1>1, <1>4 DEF StoredIsGood
<1>6. Undisturbed' /\ SentAreGood' /\ GrantedAreNew'
  BY <1>1, <1>2, <1>4 DEF Undisturbed, SentAreGood, GrantedAreNew, Holds
<1> QED
  BY <1>5, <1>6 DEF TokensInv

\* A refresh that will never be answered, or one that is dropped before it began.
LEMMA DroppedTokens ==
    ASSUME SessionType, TokensInv, NEW t \in Tabs, HangRefresh(t) \/ Reload(t), ~excused'
    PROVE  TokensInv'
<1>1. PICK r : /\ refreshing' = [refreshing EXCEPT ![t] = r] /\ r.at \in {"none", "hung"}
               /\ r.at = "none" <=> refreshing[t].at = "none"
               /\ r.at = "hung" => r.token = refreshing[t].token
  <2>1. CASE HangRefresh(t)
    <3> DEFINE r == [refreshing[t] EXCEPT !.at = "hung"]
    <3>1. refreshing' = [refreshing EXCEPT ![t] = r] /\ refreshing[t].at # "none"
      BY <2>1 DEF HangRefresh
    <3>2. r.at = "hung" /\ r.token = refreshing[t].token
      BY DEF SessionType
    <3> HIDE DEF r
    <3> QED
      BY <3>1, <3>2
  <2>2. CASE Reload(t)
    <3>1. refreshing' = [refreshing EXCEPT ![t] = NoRefresh] /\ refreshing[t].at = "none"
      BY <2>2 DEF Reload
    <3>2. NoRefresh.at = "none"
      BY DEF NoRefresh
    <3> QED
      BY <3>1, <3>2
  <2> QED
    BY <2>1, <2>2
<1>2. /\ ~excused /\ UNCHANGED <<store, blacklist>>
      /\ leaving' = leaving \/ leaving' = [leaving EXCEPT ![t] = NoLeave]
  BY DEF HangRefresh, Reload, SessionType
<1>3. Undisturbed /\ SentAreGood /\ StoredIsGood /\ GrantedAreNew
  BY <1>2 DEF TokensInv
<1>4. /\ refreshing'[t].at \in {"none", "hung"}
      /\ \A token : Holds(t, token)' <=> Holds(t, token)
  BY <1>1 DEF SessionType, Holds
<1>5. \A s \in Tabs \ {t} : /\ refreshing'[s] = refreshing[s]
                            /\ \A token : Holds(s, token)' <=> Holds(s, token)
  BY <1>1, Beside
<1>6. Undisturbed'
  BY <1>2, <1>3, <1>4, <1>5 DEF Undisturbed, NoLeave, SessionType
<1>7. SentAreGood'
  BY <1>2, <1>3, <1>4, <1>5 DEF SentAreGood
<1>8. StoredIsGood'
  BY <1>2, <1>3, <1>4, <1>5 DEF StoredIsGood
<1>9. GrantedAreNew'
  BY <1>2, <1>3, <1>4, <1>5 DEF GrantedAreNew
<1> QED
  BY <1>6, <1>7, <1>8, <1>9 DEF TokensInv

LEMMA StepTokens == SessionType /\ TokensInv /\ [Next]_vars => TokensInv'
<1> SUFFICES ASSUME SessionType, TokensInv, [Next]_vars, ~excused'
             PROVE  TokensInv'
  BY DEF TokensInv
<1>1. ~excused
  BY ExcuseStays
<1>2. Undisturbed /\ SentAreGood /\ StoredIsGood /\ GrantedAreNew
  BY <1>1 DEF TokensInv
<1>3. CASE UNCHANGED <<store, blacklist, refreshing, leaving>>
  BY <1>2, <1>3 DEF TokensInv, Undisturbed, SentAreGood, StoredIsGood, GrantedAreNew, Holds
<1>4. CASE UNCHANGED vars \/ Expire
  BY <1>3, <1>4 DEF vars, Expire
<1>5. ASSUME NEW t \in Tabs, NEW c \in Calls, Send(t, c) \/ CallStep(t, c) \/ TimeOut(t, c)
      PROVE  TokensInv'
  <2>1. CASE AwaitRefresh(t, c)
    BY <2>1, AwaitTokens
  <2>2. CASE ~AwaitRefresh(t, c)
    BY <1>3, <1>5, <2>2 DEF Send, CallStep, TimeOut, Unauthorized, Succeed, GiveUp
  <2> QED
    BY <2>1, <2>2
<1>6. ASSUME NEW t \in Tabs, RefreshStep(t)
      PROVE  TokensInv'
  <2>1. CASE Rotate(t)
    BY <2>1, RotateTokens
  <2>2. CASE Refreshed(t)
    BY <2>2, RefreshedTokens
  <2>3. CASE Refuse(t) \* the token that a tab has sent is good
    BY <1>2, <2>3 DEF Refuse, SentAreGood
  <2>4. CASE RefreshFails(t)
    BY <1>2, <2>4 DEF RefreshFails, Undisturbed
  <2> QED
    BY <1>6, <2>1, <2>2, <2>3, <2>4 DEF RefreshStep
<1>7. ASSUME NEW t \in Tabs, HangRefresh(t) \/ Reload(t)
      PROVE  TokensInv'
  BY <1>7, DroppedTokens
<1>8. ASSUME NEW t \in Tabs, LoseRefresh(t) \/ Logout(t)
      PROVE  FALSE
  BY <1>8 DEF LoseRefresh, Logout
<1>9. ASSUME NEW t \in Tabs, LogoutStep(t)
      PROVE  FALSE
  BY <1>2, <1>9 DEF LogoutStep, ServeLogout, ClearLocally, Undisturbed
<1>10. ASSUME NEW t \in Tabs, Login(t)
       PROVE  TokensInv'
  BY <1>10, LoginTokens
<1> QED
  BY <1>4, <1>5, <1>6, <1>7, <1>8, <1>9, <1>10 DEF Next

LEMMA InitTokens == Init => TokensInv
BY DEF Init, TokensInv, Undisturbed, SentAreGood, StoredIsGood, GrantedAreNew, NoRefresh, NoLeave

\* Each of the three is inductive, given the ones before it.
LEMMA SessionCorrect == Spec => []SessionInv
<1>1. Init => SessionInv
  BY TypeInit, InitTokens DEF Init, SessionInv, SessionKept
<1>2. SessionInv /\ [Next]_vars => SessionInv'
  <2> SUFFICES ASSUME SessionInv, [Next]_vars
               PROVE  SessionInv'
    OBVIOUS
  <2>1. SessionType' /\ TokensInv'
    BY StepType, StepTokens DEF SessionInv
  <2>2. SessionKept'
    <3>1. CASE excused
      BY <3>1, ExcuseStays DEF SessionKept
    <3>2. CASE ~excused
      <4>1. ~forced /\ \A t \in Tabs : refreshing[t].at # "failed"
        BY <3>2 DEF SessionInv, SessionKept, TokensInv, Undisturbed
      <4> QED
        BY <4>1, ForcedByFailure DEF SessionKept
    <3> QED
      BY <3>1, <3>2
  <2> QED
    BY <2>1, <2>2 DEF SessionInv
<1> QED
  BY <1>1, <1>2, PTL DEF Spec

\* onAuthFailure() forces no user out of their session but for the reasons that
\* excuse it, for any number of tabs, calls, logins, expiries and faults.
THEOREM SessionTheorem == Spec => []SessionKept
<1>1. SessionInv => SessionKept
  BY DEF SessionInv
<1> QED
  BY <1>1, SessionCorrect, PTL
=============================================================================
