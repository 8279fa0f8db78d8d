----------------------------- MODULE WebSession -----------------------------
(***************************************************************************)
(* The web client of one user, in one or more tabs, against Sessions:      *)
(* services/api.ts attaches the access token a tab keeps in memory, and on *)
(* a 401 has it renewed through the cookie of the browser, once for all    *)
(* requests that wait; hooks/useAuth.ts opens and ends the session.        *)
(*                                                                         *)
(* What a page has asked for is given up when the page is loaded anew: the *)
(* server finishes what it has begun, and the browser drops the answer     *)
(* with its cookie.  Each tab has two calls of /auth/refresh, that of its  *)
(* page and one of a page it has left.                                     *)
(*                                                                         *)
(* load says which tabs and request slots are used, what the user asks     *)
(* for, and what may happen at once:                                       *)
(*   "ending"  a login, a logout or a change of password while a refresh   *)
(*             or other requests are under way                             *)
(*   "reload"  a page is loaded anew while it waits for answers            *)
(*   "loss"    the connection of a refresh breaks: the page gets an error, *)
(*             or, as axios.post is called without a time-out, nothing     *)
(***************************************************************************)
EXTENDS Sessions

CONSTANTS
    Tabs,        \* the tabs of the web client that are open
    Browsers,
    BrowserOf,   \* [Tabs -> Browsers]: the tabs of a browser share its cookie
    Requests,    \* the requests one tab may have in flight
    First,       \* the one its initialisation uses, if it is free
    Loads

Kinds    == {"call", "logout", "password"}
Overlaps == {"ending", "reload", "loss"}

ASSUME WebSessionAssumption ==
    /\ Calls = Tabs \X {"page", "left"}
    /\ BrowserOf \in [Tabs -> Browsers]
    /\ First \in Requests
    /\ Loads \subseteq [tabs: SUBSET Tabs, reqs: SUBSET Requests, kinds: SUBSET Kinds,
                        overlap: SUBSET Overlaps]

VARIABLES
    load,
    cookie,      \* [Browsers -> Token], the HttpOnly cookie
    token,       \* [Tabs -> Token], accessToken of the store
    signedIn,    \* the tabs with isAuthenticated
    atLogin,     \* the tabs at /login
    logins,      \* [Tabs -> Token], the tokens of a login on their way back
    refreshing,  \* the tabs with isRefreshing
    unseen,      \* the refresh tokens of answers that no page has received
    reqs         \* [Tabs -> [Requests -> Request]]

clientVars == <<cookie, token, signedIn, atLogin, logins, refreshing, unseen, reqs>>
vars       == <<load, serverVars, clientVars>>

\* "renewing" is the request that asked for the refresh, "queued" one in
\* pendingQueue; "passed" and "forgotten" are stages of a logout on the server.
Stages == {"idle", "sent", "passed", "forgotten", "ok", "denied", "renewing", "queued"}

\* "orphan" is a logout whose page is gone.
Request == [st: Stages, kind: {"call", "me", "logout", "password", "orphan"},
            retried: BOOLEAN, token: Token]
NoRequest == [st |-> "idle", kind |-> "call", retried |-> FALSE, token |-> NoToken]

EndsSessions(req) == req.kind \in {"logout", "password", "orphan"}

\* The refresh of the page a tab shows, and that of a page it has left.
Page(t) == <<t, "page">>
Left(t) == <<t, "left">>

Quiet(t) == \A r \in Requests : reqs[t][r].st = "idle" \/ reqs[t][r].kind = "orphan"

\* The button of the login form is off: isLoading.
Loading(t) == \E r \in Requests : reqs[t][r].st # "idle" /\ reqs[t][r].kind \in {"me", "logout"}

EndingInFlight ==
    \E t \in Tabs, r \in Requests : reqs[t][r].st \in {"passed", "forgotten"}

MayOverlap(what) == what \in load.overlap

(***************************************************************************)
(* Requests                                                                *)
(***************************************************************************)

NewRequest(t, kind) == [st |-> "sent", kind |-> kind, retried |-> FALSE, token |-> token[t]]

Send(t, r, kind) ==
    /\ t \in signedIn
    /\ reqs[t][r].st = "idle"
    /\ reqs' = [reqs EXCEPT ![t][r] = NewRequest(t, kind)]
    /\ UNCHANGED <<serverVars, cookie, token, signedIn, atLogin, logins, refreshing, unseen>>

\* What the server has begun goes on when the page is left.
AfterLeaving(t) ==
    [r \in Requests |->
        IF EndsSessions(reqs[t][r]) /\ reqs[t][r].st \in {"sent", "passed", "forgotten"}
        THEN [reqs[t][r] EXCEPT !.kind = "orphan"]
        ELSE NoRequest]

\* A page load: initialize() asks for /auth/me, without a token.  Bound: the
\* requests of pages that were left take up slots, and leave one free.
LoadPage(t) ==
    LET left == AfterLeaving(t)
        slot == IF left[First].st = "idle" THEN First
                ELSE CHOOSE r \in load.reqs : left[r].st = "idle"
    IN  /\ \E r \in load.reqs : left[r].st = "idle"
        /\ token' = [token EXCEPT ![t] = NoToken]
        /\ signedIn' = signedIn \ {t}
        /\ refreshing' = refreshing \ {t}
        /\ reqs' = [reqs EXCEPT ![t] =
               [left EXCEPT ![slot] =
                   [st |-> "sent", kind |-> "me", retried |-> FALSE, token |-> NoToken]]]

\* The token of an answer that is on its way, if there is one.
Issued(c) == IF RefreshAt(c, "issued") THEN {refreshes[c].issued} ELSE {}

\* The refresh of the page is nobody's any more: the server goes on with it.
\* Bound: one such refresh for each tab.
GiveUpRefresh(t, after) ==
    IF refreshes[Page(t)].stage \in {"sent", "checked", "deleted"}
    THEN /\ RefreshAt(Left(t), "none")
         /\ refreshes' = [refreshes EXCEPT ![Left(t)] = refreshes[Page(t)], ![Page(t)] = after]
    ELSE refreshes' = [refreshes EXCEPT ![Page(t)] = after]

\* The page is loaded anew, whatever it was waiting for.
Open(t) ==
    /\ MayOverlap("reload") \/ (Quiet(t) /\ RefreshAt(Page(t), "none") /\ logins[t] = NoToken)
    /\ LoadPage(t)
    /\ GiveUpRefresh(t, NoRefresh)
    /\ logins' = [logins EXCEPT ![t] = NoToken]
    /\ unseen' = unseen \union Issued(Page(t)) \union ({logins[t]} \ {NoToken})
    /\ UNCHANGED <<now, redisVars, cookie, atLogin>>

Answer(t, r, st) == reqs' = [reqs EXCEPT ![t][r].st = st]

\* requireAuth, and for all but a logout the whole answer.
Authenticate(t, r) ==
    /\ reqs[t][r].st = "sent"
    /\ IF ~Accepts(reqs[t][r].token) THEN Answer(t, r, "denied")
       ELSE IF EndsSessions(reqs[t][r])
            THEN /\ MayOverlap("ending") \/ ~AnyRefreshAt({"checked", "deleted"})
                 /\ Answer(t, r, "passed")
            ELSE Answer(t, r, "ok")
    /\ UNCHANGED <<serverVars, cookie, token, signedIn, atLogin, logins, refreshing, unseen>>

Forget(t, r) ==
    /\ reqs[t][r].st = "passed"
    /\ ForgetRefreshToken
    /\ Answer(t, r, "forgotten")
    /\ UNCHANGED <<cookie, token, signedIn, atLogin, logins, refreshing, unseen>>

Blacklist(t, r) ==
    /\ reqs[t][r].st = "forgotten"
    /\ BlacklistTokens
    /\ Answer(t, r, "ok")
    /\ UNCHANGED <<cookie, token, signedIn, atLogin, logins, refreshing, unseen>>

ClearAuth(t) ==
    /\ token' = [token EXCEPT ![t] = NoToken]
    /\ signedIn' = signedIn \ {t}

\* The answer 200; a change of password leaves cookie and store as they are.
ReceiveOk(t, r) ==
    /\ reqs[t][r].st = "ok"
    /\ reqs' = [reqs EXCEPT ![t][r] = NoRequest]
    /\ CASE reqs[t][r].kind = "me" ->
              /\ signedIn' = signedIn \union {t}
              /\ atLogin' = atLogin \ {t}
              /\ UNCHANGED <<cookie, token>>
         [] reqs[t][r].kind = "logout" ->
              /\ cookie' = [cookie EXCEPT ![BrowserOf[t]] = NoToken]
              /\ ClearAuth(t)
              /\ atLogin' = atLogin \union {t}
         [] OTHER -> UNCHANGED <<cookie, token, signedIn, atLogin>>
    /\ UNCHANGED <<serverVars, logins, refreshing, unseen>>

\* Wrong on purpose: an answer to a request that waited is not retried.
RetryLost(req, new) == [req EXCEPT !.st = "queued"]

\* A request sent again with the new token; one from the queue may ask for
\* another refresh, the one that asked for this may not.
Retry(req, new) == [req EXCEPT !.st = "sent", !.token = new]

\* The response interceptor on a 401: fail, wait, or ask for a refresh; nobody
\* hears that of an orphan.
ReceiveDenied(t, r) ==
    /\ reqs[t][r].st = "denied"
    /\ IF reqs[t][r].retried \/ reqs[t][r].kind = "orphan"
       THEN /\ reqs' = [reqs EXCEPT ![t][r] = NoRequest]
            /\ IF reqs[t][r].kind \in {"me", "logout"} THEN ClearAuth(t)
               ELSE UNCHANGED <<token, signedIn>>
            /\ UNCHANGED <<refreshing, refreshes>>
       ELSE IF t \in refreshing
       THEN /\ Answer(t, r, "queued")
            /\ UNCHANGED <<token, signedIn, refreshing, refreshes>>
       ELSE /\ reqs' = [reqs EXCEPT ![t][r].st = "renewing", ![t][r].retried = TRUE]
            /\ refreshing' = refreshing \union {t}
            /\ SendRefresh(Page(t), cookie[BrowserOf[t]])
            /\ UNCHANGED <<token, signedIn>>
    /\ atLogin' = IF reqs'[t][r].st = "idle" /\ reqs[t][r].kind \in {"me", "logout"}
                  THEN atLogin \union {t} ELSE atLogin
    /\ UNCHANGED <<now, redisVars, cookie, logins, unseen>>

(***************************************************************************)
(* The refresh, as the tab sees it                                         *)
(***************************************************************************)

\* The new cookie and token; flushQueue sends everything that waited.
ReceiveRefresh(t) ==
    LET new == refreshes[Page(t)].issued
    IN  /\ RefreshAt(Page(t), "issued")
        /\ cookie' = [cookie EXCEPT ![BrowserOf[t]] = new]
        /\ token' = [token EXCEPT ![t] = new]
        /\ reqs' = [reqs EXCEPT ![t] = [r \in Requests |->
               CASE @[r].st = "queued" -> Retry(@[r], new)
                 [] @[r].st = "renewing" -> [@[r] EXCEPT !.st = "sent", !.token = new]
                 [] OTHER -> @[r]]]
        /\ refreshing' = refreshing \ {t}
        /\ refreshes' = [refreshes EXCEPT ![Page(t)] = NoRefresh]
        /\ UNCHANGED <<now, redisVars, signedIn, atLogin, logins, unseen>>

\* The queue fails, and the page is replaced by /login unless it is that page.
ReceiveRefusal(t) ==
    /\ RefreshAt(Page(t), "refused")
    /\ refreshes' = [refreshes EXCEPT ![Page(t)] = NoRefresh]
    /\ IF t \in atLogin
       THEN /\ ClearAuth(t)
            /\ refreshing' = refreshing \ {t}
            /\ reqs' = [reqs EXCEPT ![t] = [r \in Requests |->
                   IF @[r].st \in {"queued", "renewing"} THEN NoRequest ELSE @[r]]]
       ELSE LoadPage(t)
    /\ atLogin' = atLogin \union {t}
    /\ UNCHANGED <<now, redisVars, cookie, logins, unseen>>

\* The browser drops the answer to a page that is gone, and its cookie.
DropAnswer(t) ==
    /\ refreshes[Left(t)].stage \in {"issued", "refused"}
    /\ refreshes' = [refreshes EXCEPT ![Left(t)] = NoRefresh]
    /\ unseen' = unseen \union Issued(Left(t))
    /\ UNCHANGED <<now, redisVars, cookie, token, signedIn, atLogin, logins, refreshing, reqs>>

\* The connection breaks.  The page sees an error or waits for ever; the server
\* goes on with the request, or has ended with it.
LoseRefresh(t) ==
    \E stage \in {"refused", "hung"} :
        LET lost == [refreshes[Page(t)] EXCEPT !.stage = stage, !.issued = NoToken]
        IN  /\ refreshes[Page(t)].stage \in {"sent", "checked", "deleted", "issued"}
            /\ \/ GiveUpRefresh(t, lost)
               \/ refreshes' = [refreshes EXCEPT ![Page(t)] = lost]
            /\ unseen' = unseen \union Issued(Page(t))
            /\ UNCHANGED <<now, redisVars, cookie, token, signedIn, atLogin, logins, refreshing, reqs>>

(***************************************************************************)
(* signIn                                                                  *)
(***************************************************************************)

SignIn(t) ==
    /\ t \in atLogin \ signedIn
    /\ ~Loading(t) /\ logins[t] = NoToken
    /\ MayOverlap("ending") \/ (Quiet(t) /\ ~EndingInFlight)
    /\ Login
    /\ logins' = [logins EXCEPT ![t] = now]
    /\ UNCHANGED <<cookie, token, signedIn, atLogin, refreshing, unseen, reqs>>

ReceiveLogin(t) ==
    /\ logins[t] # NoToken
    /\ cookie' = [cookie EXCEPT ![BrowserOf[t]] = logins[t]]
    /\ token' = [token EXCEPT ![t] = logins[t]]
    /\ signedIn' = signedIn \union {t}
    /\ atLogin' = atLogin \ {t}
    /\ logins' = [logins EXCEPT ![t] = NoToken]
    /\ UNCHANGED <<serverVars, refreshing, unseen, reqs>>

(***************************************************************************)
(* The whole                                                               *)
(***************************************************************************)

Init ==
    /\ load \in Loads
    /\ SessionsInit
    /\ cookie = [b \in Browsers |-> NoToken]
    /\ token = [t \in Tabs |-> NoToken]
    /\ signedIn = {} /\ refreshing = {} /\ unseen = {}
    /\ atLogin = Tabs
    /\ logins = [t \in Tabs |-> NoToken]
    /\ reqs = [t \in Tabs |-> [r \in Requests |-> NoRequest]]

RequestStep(t, r) ==
    \/ Authenticate(t, r)
    \/ Forget(t, r)
    \/ Blacklist(t, r)
    \/ ReceiveOk(t, r)
    \/ ReceiveDenied(t, r)

\* The server works on a refresh, whoever waits for it.
RotateStep(c) ==
    /\ \/ CheckRefresh(c) /\ (MayOverlap("ending") \/ ~EndingInFlight)
       \/ DeleteOld(c)
       \/ StoreNew(c)
    /\ UNCHANGED clientVars

RefreshStep(t) ==
    \/ RotateStep(Page(t)) \/ RotateStep(Left(t))
    \/ ReceiveRefresh(t)
    \/ ReceiveRefusal(t)
    \/ DropAnswer(t)

\* The user leaves the last second of the model to what is on its way.
UserStep(t) ==
    /\ now < MaxSecond
    /\ \/ \E r \in load.reqs, kind \in load.kinds : Send(t, r, kind)
       \/ Open(t)
       \/ SignIn(t)

Next ==
    /\ UNCHANGED load
    /\ \/ \E t \in load.tabs :
             \/ \E r \in load.reqs : RequestStep(t, r)
             \/ RefreshStep(t)
             \/ UserStep(t)
             \/ ReceiveLogin(t)
             \/ MayOverlap("loss") /\ LoseRefresh(t)
       \/ Tick /\ UNCHANGED clientVars

\* The server handles what it has received, an answer that is not lost arrives,
\* the browser runs its handlers and time goes on; nothing makes the user act,
\* and nothing ends a refresh that hangs.
Spec ==
    /\ Init /\ [][Next]_vars
    /\ WF_vars(UNCHANGED load /\ Tick /\ UNCHANGED clientVars)
    /\ \A t \in Tabs :
          /\ WF_vars(UNCHANGED load /\ t \in load.tabs /\ RefreshStep(t))
          /\ \A r \in Requests : WF_vars(UNCHANGED load /\ t \in load.tabs /\ r \in load.reqs /\ RequestStep(t, r))

WebSessionTypeOK ==
    /\ load \in Loads
    /\ SessionsTypeOK
    /\ cookie \in [Browsers -> Token]
    /\ token \in [Tabs -> Token]
    /\ signedIn \subseteq Tabs /\ atLogin \subseteq Tabs /\ refreshing \subseteq Tabs
    /\ unseen \subseteq Token
    /\ logins \in [Tabs -> Token]
    /\ reqs \in [Tabs -> [Requests -> Request]]

(***************************************************************************)
(* What must hold                                                          *)
(***************************************************************************)

\* After a logout or a change of password no session is left, on any device, and
\* no access token is taken any more, until the next login: unless a refresh or a
\* login was under way at the time, or the tokens are configured to outlive an
\* entry of the blacklist.
SessionsEnd ==
    ended /\ ~MayOverlap("ending") =>
        /\ stored = NoToken
        /\ AccessLife <= BlacklistLife => \A t \in Tabs : ~Accepts(token[t])

\* A browser with one tab is signed out by rotation in one case only: the refresh
\* token that Redis has is the one of its cookie, whenever nothing is on its way,
\* or else one whose answer was lost, or dropped with the page that waited for it.
OneTabKeepsSession ==
    \A t \in Tabs :
        /\ load.tabs = {t} /\ ~MayOverlap("ending")
        /\ ~AnyRefreshAt({"issued"}) /\ logins[t] = NoToken
        /\ \A r \in Requests : ~EndsSessions(reqs[t][r])
        /\ stored # NoToken
        => stored \in {cookie[BrowserOf[t]]} \union unseen

\* Every request a page has sent is answered, failed or dropped with the page,
\* or waits for a refresh of its page that hangs: none stays in the queue when
\* the refresh is over, and none is sent to be forgotten.
RequestsAnswered ==
    \A t \in Tabs, r \in Requests :
        reqs[t][r].st # "idle" ~> reqs[t][r].st = "idle" \/ RefreshAt(Page(t), "hung")

=============================================================================
