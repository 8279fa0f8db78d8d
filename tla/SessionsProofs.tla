--------------------------- MODULE SessionsProofs ---------------------------
(***************************************************************************)
(* What holds of WebSession for every number of tabs, browsers and         *)
(* requests, all lives of tokens and of the blacklist's entries, and every *)
(* load: WebSessionTypeOK, that no session outlives a logout               *)
(* (SessionsEnd), and that one tab on its own keeps its session, but for   *)
(* answers that are lost (OneTabKeepsSession).                             *)
(***************************************************************************)
EXTENDS WebSession, TLAPS

(***************************************************************************)
(* Type correctness                                                        *)
(***************************************************************************)

LEMMA NothingTyped == NoToken \in Token /\ NoRefresh \in Refresh /\ NoRequest \in Request
BY SessionsAssumption DEF NoToken, Token, NoRefresh, Refresh, NoRequest, Request, Stages

LEMMA InitTyped == Init => WebSessionTypeOK
<1> SUFFICES ASSUME Init PROVE WebSessionTypeOK
    OBVIOUS
<1>1. SessionsTypeOK
    <2>1. 1 \in 1..MaxSecond /\ 0 \in 0..(MaxSecond + BlacklistLife)
        BY SessionsAssumption
    <2> QED
        BY <2>1, NothingTyped DEF Init, SessionsInit, SessionsTypeOK
<1> QED
    BY <1>1, NothingTyped DEF Init, WebSessionTypeOK

LEMMA CallsOfTabs ==
    ASSUME NEW t \in Tabs
    PROVE  /\ Page(t) \in Calls /\ Left(t) \in Calls /\ Page(t) # Left(t)
           /\ \A u \in Tabs : u # t => {Page(u), Left(u)} \intersect {Page(t), Left(t)} = {}
BY WebSessionAssumption DEF Page, Left

\* A new request of a tab, and what is left of its requests when it leaves a page.
LEMMA RequestsTyped ==
    ASSUME WebSessionTypeOK, NEW t \in Tabs
    PROVE  /\ \A kind \in {"call", "me", "logout", "password"} : NewRequest(t, kind) \in Request
           /\ AfterLeaving(t) \in [Requests -> Request]
<1>1. token[t] \in Token /\ reqs[t] \in [Requests -> Request]
    BY DEF WebSessionTypeOK
<1>2. \A r \in Requests : [reqs[t][r] EXCEPT !.kind = "orphan"] \in Request
    BY <1>1 DEF Request
<1> QED
    BY <1>1, <1>2, NothingTyped DEF NewRequest, AfterLeaving, Request, Stages

LEMMA LoadPageTyped ==
    ASSUME WebSessionTypeOK, NEW t \in Tabs, LoadPage(t)
    PROVE  /\ token' \in [Tabs -> Token]
           /\ signedIn' \subseteq Tabs /\ refreshing' \subseteq Tabs
           /\ reqs' \in [Tabs -> [Requests -> Request]]
<1>1. [st |-> "sent", kind |-> "me", retried |-> FALSE, token |-> NoToken] \in Request
    BY NothingTyped DEF Request, Stages
<1>2. AfterLeaving(t) \in [Requests -> Request]
    BY RequestsTyped
<1> QED
    BY <1>1, <1>2, NothingTyped DEF LoadPage, WebSessionTypeOK

\* What becomes of the refreshes of a tab when its page gives one up, or it ends.
LEMMA RefreshGivenUp ==
    ASSUME WebSessionTypeOK, NEW t \in Tabs, NEW after \in Refresh,
           GiveUpRefresh(t, after) \/ refreshes' = [refreshes EXCEPT ![Page(t)] = after]
    PROVE  /\ refreshes' \in [Calls -> Refresh]
           /\ refreshes'[Page(t)] = after
           /\ \A c \in Calls \ {Page(t), Left(t)} : refreshes'[c] = refreshes[c]
           /\ \/ refreshes'[Left(t)] = refreshes[Left(t)]
              \/ /\ refreshes[Left(t)].stage = "none"
                 /\ refreshes[Page(t)].stage \in {"sent", "checked", "deleted"}
                 /\ refreshes'[Left(t)] = refreshes[Page(t)]
<1>1. refreshes \in [Calls -> Refresh] /\ refreshes[Page(t)] \in Refresh
    BY CallsOfTabs DEF WebSessionTypeOK, SessionsTypeOK
<1>2. CASE refreshes' = [refreshes EXCEPT ![Page(t)] = after]
    BY <1>1, <1>2, CallsOfTabs
<1>3. CASE /\ refreshes[Page(t)].stage \in {"sent", "checked", "deleted"}
           /\ RefreshAt(Left(t), "none")
           /\ refreshes' = [refreshes EXCEPT ![Left(t)] = refreshes[Page(t)], ![Page(t)] = after]
    BY <1>1, <1>3, CallsOfTabs DEF RefreshAt
<1> QED
    BY <1>2, <1>3 DEF GiveUpRefresh

\* What the page is left with when the connection breaks.
LEMMA LostTyped ==
    ASSUME WebSessionTypeOK, NEW t \in Tabs, LoseRefresh(t)
    PROVE  /\ refreshes[Page(t)].stage \in {"sent", "checked", "deleted", "issued"}
           /\ unseen' = unseen \union Issued(Page(t))
           /\ UNCHANGED <<now, redisVars, cookie, token, signedIn, atLogin, logins, refreshing, reqs>>
           /\ \E lost \in Refresh :
                 /\ lost.stage \in {"refused", "hung"} /\ lost.issued = NoToken
                 /\ \/ GiveUpRefresh(t, lost)
                    \/ refreshes' = [refreshes EXCEPT ![Page(t)] = lost]
<1>1. refreshes[Page(t)] \in Refresh
    BY CallsOfTabs DEF WebSessionTypeOK, SessionsTypeOK
<1>2. PICK stage \in {"refused", "hung"} :
          LET lost == [refreshes[Page(t)] EXCEPT !.stage = stage, !.issued = NoToken]
          IN  /\ refreshes[Page(t)].stage \in {"sent", "checked", "deleted", "issued"}
              /\ \/ GiveUpRefresh(t, lost)
                 \/ refreshes' = [refreshes EXCEPT ![Page(t)] = lost]
              /\ unseen' = unseen \union Issued(Page(t))
              /\ UNCHANGED <<now, redisVars, cookie, token, signedIn, atLogin, logins, refreshing, reqs>>
    BY DEF LoseRefresh
<1> DEFINE lost == [refreshes[Page(t)] EXCEPT !.stage = stage, !.issued = NoToken]
<1>3. lost \in Refresh /\ lost.stage = stage /\ lost.issued = NoToken
    BY <1>1, NothingTyped DEF Refresh
<1>4. \/ GiveUpRefresh(t, lost)
      \/ refreshes' = [refreshes EXCEPT ![Page(t)] = lost]
    BY <1>2
<1> HIDE DEF lost
<1> QED
    BY <1>2, <1>3, <1>4

LEMMA IssuedTyped ==
    ASSUME WebSessionTypeOK, NEW c \in Calls
    PROVE  Issued(c) \subseteq Token
BY DEF Issued, WebSessionTypeOK, SessionsTypeOK, Refresh

LEMMA AnswerTyped ==
    ASSUME WebSessionTypeOK, NEW t \in Tabs, NEW r \in Requests, NEW st \in Stages,
           Answer(t, r, st)
    PROVE  reqs' \in [Tabs -> [Requests -> Request]]
<1>1. reqs[t][r] \in Request
    BY DEF WebSessionTypeOK
<1>2. [reqs[t][r] EXCEPT !.st = st] \in Request
    BY <1>1 DEF Request
<1> QED
    BY <1>2 DEF Answer, WebSessionTypeOK

\* The requests of a tab that gets an answer to its logout, its call, its renewal.
LEMMA RequestStepTyped ==
    ASSUME WebSessionTypeOK, NEW t \in Tabs, NEW r \in Requests, RequestStep(t, r), UNCHANGED load
    PROVE  WebSessionTypeOK'
<1> USE DEF serverVars, redisVars, clientVars
<1>0. {"sent", "passed", "forgotten", "ok", "denied", "queued", "renewing"} \subseteq Stages
    BY DEF Stages
<1>1. CASE Authenticate(t, r)
    <2>1. reqs' \in [Tabs -> [Requests -> Request]]
        BY <1>0, <1>1, AnswerTyped DEF Authenticate
    <2> QED
        BY <1>1, <2>1 DEF Authenticate, WebSessionTypeOK, SessionsTypeOK
<1>2. CASE Forget(t, r)
    <2>1. reqs' \in [Tabs -> [Requests -> Request]]
        BY <1>0, <1>2, AnswerTyped DEF Forget
    <2> QED
        BY <1>2, <2>1, NothingTyped DEF Forget, ForgetRefreshToken, WebSessionTypeOK, SessionsTypeOK
<1>3. CASE Blacklist(t, r)
    <2>1. reqs' \in [Tabs -> [Requests -> Request]]
        BY <1>0, <1>3, AnswerTyped DEF Blacklist
    <2>2. now \in Token /\ now + BlacklistLife \in 0..(MaxSecond + BlacklistLife)
        BY SessionsAssumption DEF WebSessionTypeOK, SessionsTypeOK, Token
    <2> QED
        BY <1>3, <2>1, <2>2 DEF Blacklist, BlacklistTokens, WebSessionTypeOK, SessionsTypeOK
<1>4. CASE ReceiveOk(t, r)
    <2>1. reqs' \in [Tabs -> [Requests -> Request]]
        BY <1>4, NothingTyped DEF ReceiveOk, WebSessionTypeOK
    <2>2. cookie' \in [Browsers -> Token] /\ token' \in [Tabs -> Token]
          /\ signedIn' \subseteq Tabs /\ atLogin' \subseteq Tabs
        BY <1>4, NothingTyped DEF ReceiveOk, ClearAuth, WebSessionTypeOK
    <2> QED
        BY <1>4, <2>1, <2>2 DEF ReceiveOk, WebSessionTypeOK, SessionsTypeOK
<1>5. CASE ReceiveDenied(t, r)
    <2>1. reqs[t][r] \in Request /\ reqs[t] \in [Requests -> Request]
        BY DEF WebSessionTypeOK
    <2>2. cookie[BrowserOf[t]] \in Token
        BY WebSessionAssumption DEF WebSessionTypeOK
    <2>3. reqs' \in [Tabs -> [Requests -> Request]]
        <3>1. CASE reqs[t][r].retried \/ reqs[t][r].kind = "orphan"
            <4>1. reqs' = [reqs EXCEPT ![t] = [reqs[t] EXCEPT ![r] = NoRequest]]
                BY <1>5, <2>1, <3>1 DEF ReceiveDenied, WebSessionTypeOK
            <4> QED
                BY <2>1, <4>1, NothingTyped DEF WebSessionTypeOK
        <3>2. CASE ~(reqs[t][r].retried \/ reqs[t][r].kind = "orphan") /\ t \in refreshing
            BY <1>0, <1>5, <3>2, AnswerTyped DEF ReceiveDenied
        <3>3. CASE ~(reqs[t][r].retried \/ reqs[t][r].kind = "orphan") /\ t \notin refreshing
            <4>1. [reqs[t][r] EXCEPT !.st = "renewing", !.retried = TRUE] \in Request
                BY <1>0, <2>1 DEF Request
            <4>2. reqs' = [reqs EXCEPT ![t] = [reqs[t] EXCEPT ![r] =
                              [reqs[t][r] EXCEPT !.st = "renewing", !.retried = TRUE]]]
                BY <1>5, <2>1, <3>3 DEF ReceiveDenied, WebSessionTypeOK
            <4> QED
                BY <2>1, <4>1, <4>2 DEF WebSessionTypeOK
        <3> QED
            BY <3>1, <3>2, <3>3
    <2>4. refreshes' \in [Calls -> Refresh]
        <3>1. [stage |-> "sent", presented |-> cookie[BrowserOf[t]], issued |-> NoToken] \in Refresh
            BY <2>2, NothingTyped DEF Refresh
        <3>2. refreshes \in [Calls -> Refresh]
            BY DEF WebSessionTypeOK, SessionsTypeOK
        <3>3. UNCHANGED refreshes \/ SendRefresh(Page(t), cookie[BrowserOf[t]])
            BY <1>5 DEF ReceiveDenied
        <3> QED
            BY <3>1, <3>2, <3>3 DEF SendRefresh
    <2>5. token' \in [Tabs -> Token] /\ signedIn' \subseteq Tabs /\ refreshing' \subseteq Tabs
          /\ atLogin' \subseteq Tabs
        BY <1>5, NothingTyped DEF ReceiveDenied, ClearAuth, WebSessionTypeOK
    <2> QED
        BY <1>5, <2>3, <2>4, <2>5 DEF ReceiveDenied, WebSessionTypeOK, SessionsTypeOK
<1> QED
    BY <1>1, <1>2, <1>3, <1>4, <1>5 DEF RequestStep

LEMMA RotateStepTyped ==
    ASSUME WebSessionTypeOK, NEW c \in Calls, UNCHANGED load, RotateStep(c)
    PROVE  WebSessionTypeOK'
<1> USE DEF redisVars, clientVars
<1>0. refreshes[c] \in Refresh /\ now \in Token
    BY DEF WebSessionTypeOK, SessionsTypeOK, Token
<1>1. CASE CheckRefresh(c) /\ UNCHANGED clientVars
    BY <1>0, <1>1 DEF CheckRefresh, Refresh, WebSessionTypeOK, SessionsTypeOK
<1>2. CASE DeleteOld(c) /\ UNCHANGED clientVars
    BY <1>0, <1>2, NothingTyped DEF DeleteOld, Refresh, WebSessionTypeOK, SessionsTypeOK
<1>3. CASE StoreNew(c) /\ UNCHANGED clientVars
    BY <1>0, <1>3 DEF StoreNew, StoreNow, Refresh, WebSessionTypeOK, SessionsTypeOK
<1> QED
    BY <1>1, <1>2, <1>3 DEF RotateStep

LEMMA RefreshStepTyped ==
    ASSUME WebSessionTypeOK, NEW t \in Tabs, UNCHANGED load, RefreshStep(t) \/ LoseRefresh(t)
    PROVE  WebSessionTypeOK'
<1> USE DEF redisVars
<1>0. refreshes[Page(t)] \in Refresh
    BY CallsOfTabs DEF WebSessionTypeOK, SessionsTypeOK
<1>1. CASE RotateStep(Page(t)) \/ RotateStep(Left(t))
    BY <1>1, CallsOfTabs, RotateStepTyped
<1>4. CASE LoseRefresh(t)
    <2>1. refreshes' \in [Calls -> Refresh]
        BY <1>4, LostTyped, RefreshGivenUp
    <2>2. unseen' \subseteq Token
        BY <1>4, LostTyped, CallsOfTabs, IssuedTyped DEF WebSessionTypeOK
    <2> QED
        BY <1>4, <2>1, <2>2, LostTyped DEF WebSessionTypeOK, SessionsTypeOK
<1>2. CASE DropAnswer(t)
    <2>1. unseen' \subseteq Token
        BY <1>2, CallsOfTabs, IssuedTyped DEF DropAnswer, WebSessionTypeOK
    <2>2. refreshes' \in [Calls -> Refresh]
        BY <1>2, NothingTyped DEF DropAnswer, WebSessionTypeOK, SessionsTypeOK
    <2> QED
        BY <1>2, <2>1, <2>2 DEF DropAnswer, WebSessionTypeOK, SessionsTypeOK
<1>5. CASE ReceiveRefresh(t)
    <2> DEFINE new == refreshes[Page(t)].issued
    <2>1. new \in Token
        BY <1>0 DEF Refresh
    <2>2. \A req \in Request : /\ Retry(req, new) \in Request
                               /\ [req EXCEPT !.st = "sent", !.token = new] \in Request
        BY <2>1 DEF Retry, Request, Stages
    <2>3. reqs[t] \in [Requests -> Request]
        BY DEF WebSessionTypeOK
    <2>4. [r \in Requests |->
              CASE reqs[t][r].st = "queued" -> Retry(reqs[t][r], new)
                [] reqs[t][r].st = "renewing" -> [reqs[t][r] EXCEPT !.st = "sent", !.token = new]
                [] OTHER -> reqs[t][r]] \in [Requests -> Request]
        BY <2>2, <2>3
    <2>5. reqs' \in [Tabs -> [Requests -> Request]]
        BY <1>5, <2>4 DEF ReceiveRefresh, WebSessionTypeOK
    <2>6. BrowserOf[t] \in Browsers
        BY WebSessionAssumption
    <2> QED
        BY <1>5, <2>1, <2>5, <2>6, NothingTyped DEF ReceiveRefresh, WebSessionTypeOK, SessionsTypeOK
<1>6. CASE ReceiveRefusal(t)
    <2>1. reqs[t] \in [Requests -> Request]
        BY DEF WebSessionTypeOK
    <2>2. reqs' \in [Tabs -> [Requests -> Request]] /\ token' \in [Tabs -> Token]
          /\ signedIn' \subseteq Tabs /\ refreshing' \subseteq Tabs
        <3>1. CASE t \in atLogin
            <4>1. reqs' = [reqs EXCEPT ![t] = [r \in Requests |->
                      IF reqs[t][r].st \in {"queued", "renewing"} THEN NoRequest ELSE reqs[t][r]]]
                BY <1>6, <3>1 DEF ReceiveRefusal, WebSessionTypeOK
            <4>2. [r \in Requests |->
                      IF reqs[t][r].st \in {"queued", "renewing"} THEN NoRequest ELSE reqs[t][r]]
                  \in [Requests -> Request]
                BY <2>1, NothingTyped
            <4>3. reqs' \in [Tabs -> [Requests -> Request]]
                BY <4>1, <4>2 DEF WebSessionTypeOK
            <4> QED
                BY <1>6, <3>1, <4>3, NothingTyped DEF ReceiveRefusal, ClearAuth, WebSessionTypeOK
        <3>2. CASE t \notin atLogin
            BY <1>6, <3>2, LoadPageTyped DEF ReceiveRefusal
        <3> QED
            BY <3>1, <3>2
    <2>3. refreshes' \in [Calls -> Refresh] /\ atLogin' \subseteq Tabs
        BY <1>6, NothingTyped DEF ReceiveRefusal, WebSessionTypeOK, SessionsTypeOK
    <2> QED
        BY <1>6, <2>2, <2>3 DEF ReceiveRefusal, WebSessionTypeOK, SessionsTypeOK
<1> QED
    BY <1>1, <1>2, <1>4, <1>5, <1>6 DEF RefreshStep

LEMMA UserStepTyped ==
    ASSUME WebSessionTypeOK, NEW t \in Tabs, UNCHANGED load, UserStep(t) \/ ReceiveLogin(t)
    PROVE  WebSessionTypeOK'
<1> USE DEF serverVars, redisVars, clientVars
<1>1. ASSUME NEW r \in load.reqs, NEW kind \in {"call", "logout", "password"}, Send(t, r, kind)
      PROVE  WebSessionTypeOK'
    <2>1. NewRequest(t, kind) \in Request
        BY RequestsTyped
    <2> QED
        BY <1>1, <2>1 DEF Send, WebSessionTypeOK, SessionsTypeOK
<1>2. CASE Open(t)
    <2>1. refreshes' \in [Calls -> Refresh]
        BY <1>2, NothingTyped, RefreshGivenUp DEF Open
    <2>2. unseen' \subseteq Token /\ logins' \in [Tabs -> Token]
        BY <1>2, NothingTyped, CallsOfTabs, IssuedTyped DEF Open, WebSessionTypeOK
    <2> QED
        BY <1>2, <2>1, <2>2, LoadPageTyped DEF Open, WebSessionTypeOK, SessionsTypeOK
<1>3. CASE SignIn(t)
    <2>1. now \in Token
        BY DEF WebSessionTypeOK, SessionsTypeOK, Token
    <2> QED
        BY <1>3, <2>1 DEF SignIn, Login, WebSessionTypeOK, SessionsTypeOK
<1>4. CASE ReceiveLogin(t)
    <2>1. BrowserOf[t] \in Browsers /\ logins[t] \in Token
        BY WebSessionAssumption DEF WebSessionTypeOK
    <2> QED
        BY <1>4, <2>1, NothingTyped DEF ReceiveLogin, WebSessionTypeOK, SessionsTypeOK
<1>5. load.kinds \subseteq {"call", "logout", "password"}
    BY WebSessionAssumption DEF WebSessionTypeOK, Kinds
<1> QED
    BY <1>1, <1>2, <1>3, <1>4, <1>5 DEF UserStep

LEMMA TickTyped ==
    ASSUME WebSessionTypeOK, Tick, UNCHANGED <<load, clientVars>>
    PROVE  WebSessionTypeOK'
BY SessionsAssumption DEF Tick, WebSessionTypeOK, SessionsTypeOK, redisVars, clientVars

LEMMA NextTyped == WebSessionTypeOK /\ [Next]_vars => WebSessionTypeOK'
<1> SUFFICES ASSUME WebSessionTypeOK, [Next]_vars PROVE WebSessionTypeOK'
    OBVIOUS
<1>1. load.tabs \subseteq Tabs /\ load.reqs \subseteq Requests
    BY WebSessionAssumption DEF WebSessionTypeOK
<1>2. CASE UNCHANGED vars
    BY <1>2 DEF vars, serverVars, redisVars, clientVars, WebSessionTypeOK, SessionsTypeOK
<1>3. CASE Next
    BY <1>1, <1>3, RequestStepTyped, RefreshStepTyped, UserStepTyped, TickTyped DEF Next
<1> QED
    BY <1>2, <1>3

\* Sessions, pages and requests are well formed at all times, whatever the load:
\* in particular Redis only ever holds a token that has been signed.
THEOREM SessionsTypeCorrect == Spec => []WebSessionTypeOK
<1>1. Init => WebSessionTypeOK
    BY InitTyped
<1>2. WebSessionTypeOK /\ [Next]_vars => WebSessionTypeOK'
    BY NextTyped
<1> QED
    BY <1>1, <1>2, PTL DEF Spec
(***************************************************************************)
(* The end of all sessions                                                 *)
(***************************************************************************)

\* No refresh is past its check and before its new token.
NoRotation == \A c \in Calls : refreshes[c].stage \notin {"checked", "deleted"}

\* The tokens that pages have or will be given were signed by that second.
TokensUntil(second) ==
    /\ \A t \in Tabs : token[t] <= second /\ logins[t] <= second
    /\ \A c \in Calls : refreshes[c].issued <= second

\* A logout has deleted the refresh token and not yet revoked the access tokens.
Forgotten == \E t \in Tabs, r \in Requests : reqs[t][r].st = "forgotten"

\* Between its two commands a logout is alone with an empty Redis; after them
\* every token there is, or is on its way, is one that it has revoked.
EndInv ==
    /\ TokensUntil(now)
    /\ ~MayOverlap("ending") =>
           /\ EndingInFlight => NoRotation
           /\ Forgotten => stored = NoToken
           /\ ended => /\ stored = NoToken
                       /\ NoRotation
                       /\ TokensUntil(revokedAt)
                       /\ revokedUntil = revokedAt + BlacklistLife

\* A step of the client begins no logout on the server and takes none further.
Kept ==
    \A t \in Tabs, r \in Requests :
        reqs'[t][r].st \in {"passed", "forgotten"} => reqs[t][r].st = reqs'[t][r].st

LEMMA KeptEndings == Kept => (EndingInFlight' => EndingInFlight) /\ (Forgotten' => Forgotten)
BY DEF Kept, EndingInFlight, Forgotten

LEMMA AnswerStages ==
    ASSUME WebSessionTypeOK, NEW t \in Tabs, NEW r \in Requests, NEW st, Answer(t, r, st)
    PROVE  \A u \in Tabs, q \in Requests :
               reqs'[u][q].st = IF u = t /\ q = r THEN st ELSE reqs[u][q].st
<1>1. reqs[t] \in [Requests -> Request] /\ reqs[t][r] \in Request
    BY DEF WebSessionTypeOK
<1> QED
    BY <1>1 DEF Answer, WebSessionTypeOK, Request

LEMMA LoadPageKept ==
    ASSUME WebSessionTypeOK, NEW t \in Tabs, LoadPage(t)
    PROVE  Kept
<1>1. reqs[t] \in [Requests -> Request]
    BY DEF WebSessionTypeOK
<1>2. \A r \in Requests : AfterLeaving(t)[r].st \in {"passed", "forgotten"} =>
          AfterLeaving(t)[r].st = reqs[t][r].st
    BY <1>1 DEF AfterLeaving, NoRequest, Request
<1>3. AfterLeaving(t) \in [Requests -> Request]
    BY RequestsTyped
<1> QED
    BY <1>2, <1>3 DEF LoadPage, Kept, WebSessionTypeOK

LEMMA InitEnds == Init => EndInv
BY DEF Init, SessionsInit, EndInv, TokensUntil, EndingInFlight, Forgotten, NoRotation, NoToken,
       NoRefresh, NoRequest

LEMMA RequestStepEnds ==
    ASSUME WebSessionTypeOK, EndInv, NEW t \in Tabs, NEW r \in Requests, RequestStep(t, r),
           UNCHANGED load
    PROVE  EndInv'
<1> USE DEF serverVars, redisVars
<1>0. MayOverlap("ending")' = MayOverlap("ending")
    BY DEF MayOverlap
<1>1. CASE Authenticate(t, r)
    <2>1. \/ \E st \in {"denied", "ok"} : Answer(t, r, st)
          \/ Answer(t, r, "passed") /\ (MayOverlap("ending") \/ ~AnyRefreshAt({"checked", "deleted"}))
        BY <1>1 DEF Authenticate
    <2>2. CASE \E st \in {"denied", "ok"} : Answer(t, r, st)
        <3>1. Kept
            BY <2>2, AnswerStages DEF Kept
        <3> QED
            BY <1>0, <1>1, <3>1, KeptEndings DEF Authenticate, EndInv, TokensUntil, NoRotation
    <2>3. CASE Answer(t, r, "passed") /\ (MayOverlap("ending") \/ ~AnyRefreshAt({"checked", "deleted"}))
        <3>1. Forgotten' => Forgotten
            BY <2>3, AnswerStages DEF Forgotten
        <3>2. MayOverlap("ending") \/ NoRotation
            BY <2>3 DEF AnyRefreshAt, NoRotation
        <3> QED
            BY <1>0, <1>1, <3>1, <3>2 DEF Authenticate, EndInv, TokensUntil, NoRotation
    <2> QED
        BY <2>1, <2>2, <2>3
<1>2. CASE Forget(t, r)
    <2>1. EndingInFlight
        BY <1>2 DEF Forget, EndingInFlight
    <2> QED
        BY <1>0, <1>2, <2>1 DEF Forget, ForgetRefreshToken, EndInv, TokensUntil, NoRotation
<1>3. CASE Blacklist(t, r)
    <2>1. EndingInFlight /\ Forgotten
        BY <1>3 DEF Blacklist, EndingInFlight, Forgotten
    <2>2. Kept
        BY <1>3, AnswerStages DEF Blacklist, Kept
    <2> QED
        BY <1>0, <1>3, <2>1, <2>2, KeptEndings
        DEF Blacklist, BlacklistTokens, EndInv, TokensUntil, NoRotation
<1>4. CASE ReceiveOk(t, r)
    <2>1. Kept
        BY <1>4 DEF ReceiveOk, Kept, NoRequest, WebSessionTypeOK
    <2>2. \A u \in Tabs : token'[u] = token[u] \/ token'[u] = NoToken
        BY <1>4 DEF ReceiveOk, ClearAuth, WebSessionTypeOK
    <2>3. now \in Nat /\ revokedAt \in Nat
        BY DEF WebSessionTypeOK, SessionsTypeOK, Token
    <2> QED
        BY <1>0, <1>4, <2>1, <2>2, <2>3, KeptEndings
        DEF ReceiveOk, EndInv, TokensUntil, NoRotation, NoToken
<1>5. CASE ReceiveDenied(t, r)
    <2>1. Kept
        <3>1. reqs[t] \in [Requests -> Request] /\ reqs[t][r] \in Request
            BY DEF WebSessionTypeOK
        <3>2. CASE reqs' = [reqs EXCEPT ![t][r] = NoRequest]
            BY <3>1, <3>2 DEF Kept, NoRequest, WebSessionTypeOK
        <3>3. CASE Answer(t, r, "queued")
            BY <3>3, AnswerStages DEF Kept
        <3>4. CASE reqs' = [reqs EXCEPT ![t][r].st = "renewing", ![t][r].retried = TRUE]
            BY <3>1, <3>4 DEF Kept, Request, WebSessionTypeOK
        <3> QED
            BY <1>5, <3>2, <3>3, <3>4 DEF ReceiveDenied
    <2>2. \A u \in Tabs : token'[u] = token[u] \/ token'[u] = NoToken
        BY <1>5 DEF ReceiveDenied, ClearAuth, WebSessionTypeOK
    <2>3. \A c \in Calls : \/ refreshes'[c] = refreshes[c]
                           \/ refreshes'[c].stage = "sent" /\ refreshes'[c].issued = NoToken
        BY <1>5 DEF ReceiveDenied, SendRefresh, WebSessionTypeOK, SessionsTypeOK
    <2>4. now \in Nat /\ revokedAt \in Nat
        BY DEF WebSessionTypeOK, SessionsTypeOK, Token
    <2> QED
        BY <1>0, <1>5, <2>1, <2>2, <2>3, <2>4, KeptEndings
        DEF ReceiveDenied, EndInv, TokensUntil, NoRotation, NoToken
<1> QED
    BY <1>1, <1>2, <1>3, <1>4, <1>5 DEF RequestStep

\* Calls that ended, or were given up, issue nothing and rotate nothing.
LEMMA OtherRefreshes ==
    ASSUME WebSessionTypeOK,
           \A c \in Calls :
              \/ refreshes'[c] = refreshes[c]
              \/ refreshes'[c].issued = NoToken /\ refreshes'[c].stage \notin {"checked", "deleted"}
              \/ \E e \in Calls : refreshes'[c] = refreshes[e]
    PROVE  /\ NoRotation => NoRotation'
           /\ \A second \in Nat : (\A c \in Calls : refreshes[c].issued <= second) =>
                 \A c \in Calls : refreshes'[c].issued <= second
BY DEF NoRotation, NoToken

LEMMA GivenUpEnds ==
    ASSUME WebSessionTypeOK, NEW t \in Tabs, NEW after \in Refresh,
           after.issued = NoToken, after.stage \in {"none", "refused", "hung"},
           GiveUpRefresh(t, after) \/ refreshes' = [refreshes EXCEPT ![Page(t)] = after]
    PROVE  /\ NoRotation => NoRotation'
           /\ \A second \in Nat : (\A c \in Calls : refreshes[c].issued <= second) =>
                 \A c \in Calls : refreshes'[c].issued <= second
<1>1. \A c \in Calls :
         \/ refreshes'[c] = refreshes[c]
         \/ refreshes'[c].issued = NoToken /\ refreshes'[c].stage \notin {"checked", "deleted"}
         \/ \E e \in Calls : refreshes'[c] = refreshes[e]
    BY RefreshGivenUp, CallsOfTabs
<1> QED
    BY <1>1, OtherRefreshes

LEMMA RotateStepEnds ==
    ASSUME WebSessionTypeOK, EndInv, NEW c \in Calls, UNCHANGED load, RotateStep(c)
    PROVE  EndInv'
<1> USE DEF redisVars, clientVars
<1>0. MayOverlap("ending")' = MayOverlap("ending")
    BY DEF MayOverlap
<1>1. /\ now \in Nat /\ revokedAt \in Nat
      /\ \A e \in Calls : refreshes[e] \in Refresh
      /\ DOMAIN refreshes = Calls
    BY DEF WebSessionTypeOK, SessionsTypeOK, Token
<1>2. CASE CheckRefresh(c) /\ (MayOverlap("ending") \/ ~EndingInFlight) /\ UNCHANGED clientVars
    <2>1. (EndingInFlight' <=> EndingInFlight) /\ (Forgotten' <=> Forgotten)
        BY <1>2 DEF EndingInFlight, Forgotten
    <2>2. stored = NoToken => refreshes' = [refreshes EXCEPT ![c].stage = "refused"]
        BY <1>2 DEF CheckRefresh
    <2>3. \A e \in Calls : refreshes'[e].issued = refreshes[e].issued
        BY <1>1, <1>2 DEF CheckRefresh, Refresh
    <2>4. stored = NoToken /\ NoRotation => NoRotation'
        BY <1>1, <2>2 DEF NoRotation, Refresh
    <2> QED
        BY <1>0, <1>2, <2>1, <2>3, <2>4 DEF CheckRefresh, EndInv, TokensUntil
<1>3. CASE DeleteOld(c) /\ UNCHANGED clientVars
    <2>1. (EndingInFlight' <=> EndingInFlight) /\ (Forgotten' <=> Forgotten)
        BY <1>3 DEF EndingInFlight, Forgotten
    <2>2. \A e \in Calls : refreshes'[e].issued = refreshes[e].issued
        BY <1>1, <1>3 DEF DeleteOld, Refresh
    <2>3. ~NoRotation
        BY <1>3 DEF DeleteOld, NoRotation, RefreshAt
    <2> QED
        BY <1>0, <1>3, <2>1, <2>2, <2>3 DEF DeleteOld, EndInv, TokensUntil
<1>4. CASE StoreNew(c) /\ UNCHANGED clientVars
    <2>1. (EndingInFlight' <=> EndingInFlight) /\ (Forgotten' => EndingInFlight)
        BY <1>4 DEF EndingInFlight, Forgotten
    <2>2. \A e \in Calls : refreshes'[e].issued = refreshes[e].issued \/ refreshes'[e].issued = now
        BY <1>1, <1>4 DEF StoreNew, Refresh
    <2>3. ~NoRotation
        BY <1>4 DEF StoreNew, NoRotation, RefreshAt
    <2> QED
        BY <1>0, <1>1, <1>4, <2>1, <2>2, <2>3 DEF StoreNew, EndInv, TokensUntil
<1> QED
    BY <1>2, <1>3, <1>4 DEF RotateStep

LEMMA RefreshStepEnds ==
    ASSUME WebSessionTypeOK, EndInv, NEW t \in Tabs, UNCHANGED load,
           RefreshStep(t) \/ LoseRefresh(t)
    PROVE  EndInv'
<1> USE DEF redisVars
<1>0. MayOverlap("ending")' = MayOverlap("ending")
    BY DEF MayOverlap
<1>1. /\ now \in Nat /\ revokedAt \in Nat
      /\ \A c \in Calls : refreshes[c] \in Refresh
      /\ DOMAIN refreshes = Calls /\ DOMAIN token = Tabs
    BY DEF WebSessionTypeOK, SessionsTypeOK, Token
<1>2. CASE RotateStep(Page(t)) \/ RotateStep(Left(t))
    BY <1>2, CallsOfTabs, RotateStepEnds
<1>5. CASE LoseRefresh(t)
    <2>1. PICK lost \in Refresh :
              /\ lost.stage \in {"refused", "hung"} /\ lost.issued = NoToken
              /\ \/ GiveUpRefresh(t, lost)
                 \/ refreshes' = [refreshes EXCEPT ![Page(t)] = lost]
        BY <1>5, LostTyped
    <2>2. /\ NoRotation => NoRotation'
          /\ \A second \in Nat : (\A c \in Calls : refreshes[c].issued <= second) =>
                 \A c \in Calls : refreshes'[c].issued <= second
        BY <2>1, GivenUpEnds
    <2>3. UNCHANGED <<now, redisVars, token, logins, reqs>>
        BY <1>5, LostTyped
    <2>4. (EndingInFlight' <=> EndingInFlight) /\ (Forgotten' <=> Forgotten)
        BY <2>3 DEF EndingInFlight, Forgotten
    <2>5. \A second \in Nat : TokensUntil(second) =>
              /\ \A u \in Tabs : token'[u] <= second /\ logins'[u] <= second
              /\ \A c \in Calls : refreshes'[c].issued <= second
        BY <2>2, <2>3 DEF TokensUntil
    <2> QED
        BY <1>0, <1>1, <2>2, <2>3, <2>4, <2>5 DEF EndInv, TokensUntil
<1>8. CASE DropAnswer(t)
    <2>1. (EndingInFlight' <=> EndingInFlight) /\ (Forgotten' <=> Forgotten)
        BY <1>8 DEF DropAnswer, EndingInFlight, Forgotten
    <2>2. \A c \in Calls : refreshes'[c] = refreshes[c] \/ refreshes'[c] = NoRefresh
        BY <1>1, <1>8 DEF DropAnswer
    <2>3. NoRotation => NoRotation'
        BY <2>2 DEF NoRotation, NoRefresh
    <2>4. \A second \in Nat : TokensUntil(second) => \A c \in Calls : refreshes'[c].issued <= second
        BY <2>2 DEF TokensUntil, NoRefresh, NoToken
    <2> QED
        BY <1>0, <1>1, <1>8, <2>1, <2>3, <2>4 DEF DropAnswer, EndInv, TokensUntil
<1>6. CASE ReceiveRefresh(t)
    <2>1. Kept
        <3> DEFINE new == refreshes[Page(t)].issued
        <3>1. reqs \in [Tabs -> [Requests -> Request]]
            BY DEF WebSessionTypeOK
        <3>2. \A u \in Tabs, r \in Requests :
                  reqs'[u][r] = IF u # t THEN reqs[u][r]
                                ELSE CASE reqs[t][r].st = "queued" -> Retry(reqs[t][r], new)
                                       [] reqs[t][r].st = "renewing" ->
                                              [reqs[t][r] EXCEPT !.st = "sent", !.token = new]
                                       [] OTHER -> reqs[t][r]
            BY <1>6, <3>1 DEF ReceiveRefresh
        <3>3. \A req \in Request : /\ Retry(req, new).st = "sent"
                                   /\ [req EXCEPT !.st = "sent", !.token = new].st = "sent"
            BY DEF Retry, Request
        <3>4. ASSUME NEW u \in Tabs, NEW r \in Requests
              PROVE  reqs'[u][r] = reqs[u][r] \/ reqs'[u][r].st = "sent"
            <4>1. CASE u # t
                BY <3>2, <4>1
            <4>2. CASE u = t
                <5>1. reqs[t][r] \in Request
                    BY <3>1
                <5> HIDE DEF new
                <5> QED
                    BY <3>2, <3>3, <4>2, <5>1
            <4> QED
                BY <4>1, <4>2
        <3> QED
            BY <3>4 DEF Kept
    <2>2. \A u \in Tabs : token'[u] = token[u] \/ (u = t /\ token'[u] = refreshes[Page(t)].issued)
        BY <1>1, <1>6 DEF ReceiveRefresh
    <2>3. \A c \in Calls : refreshes'[c] = refreshes[c] \/ refreshes'[c] = NoRefresh
        BY <1>1, <1>6 DEF ReceiveRefresh
    <2>4. NoRotation => NoRotation'
        BY <2>3 DEF NoRotation, NoRefresh
    <2>5. \A second \in Nat : TokensUntil(second) =>
              /\ \A u \in Tabs : token'[u] <= second
              /\ \A c \in Calls : refreshes'[c].issued <= second
        BY <2>2, <2>3, CallsOfTabs DEF TokensUntil, NoRefresh, NoToken
    <2> QED
        BY <1>0, <1>1, <1>6, <2>1, <2>4, <2>5, KeptEndings DEF ReceiveRefresh, EndInv, TokensUntil
<1>7. CASE ReceiveRefusal(t)
    <2>1. Kept
        <3>1. CASE t \in atLogin
            BY <1>7, <3>1 DEF ReceiveRefusal, Kept, NoRequest, WebSessionTypeOK
        <3>2. CASE t \notin atLogin
            BY <1>7, <3>2, LoadPageKept DEF ReceiveRefusal
        <3> QED
            BY <3>1, <3>2
    <2>2. \A u \in Tabs : token'[u] = token[u] \/ token'[u] = NoToken
        BY <1>1, <1>7 DEF ReceiveRefusal, ClearAuth, LoadPage
    <2>3. \A c \in Calls : refreshes'[c] = refreshes[c] \/ refreshes'[c] = NoRefresh
        BY <1>1, <1>7 DEF ReceiveRefusal
    <2>4. NoRotation => NoRotation'
        BY <2>3 DEF NoRotation, NoRefresh
    <2>5. \A second \in Nat : TokensUntil(second) =>
              /\ \A u \in Tabs : token'[u] <= second
              /\ \A c \in Calls : refreshes'[c].issued <= second
        BY <2>2, <2>3, CallsOfTabs DEF TokensUntil, NoRefresh, NoToken
    <2> QED
        BY <1>0, <1>1, <1>7, <2>1, <2>4, <2>5, KeptEndings DEF ReceiveRefusal, EndInv, TokensUntil
<1> QED
    BY <1>2, <1>5, <1>6, <1>7, <1>8 DEF RefreshStep

LEMMA UserStepEnds ==
    ASSUME WebSessionTypeOK, EndInv, NEW t \in Tabs, UNCHANGED load, load.reqs \subseteq Requests,
           UserStep(t) \/ ReceiveLogin(t)
    PROVE  EndInv'
<1> USE DEF serverVars, redisVars
<1>0. MayOverlap("ending")' = MayOverlap("ending")
    BY DEF MayOverlap
<1>1. /\ now \in Nat /\ revokedAt \in Nat
      /\ DOMAIN logins = Tabs /\ DOMAIN token = Tabs
    BY DEF WebSessionTypeOK, SessionsTypeOK, Token
<1>2. ASSUME NEW r \in load.reqs, NEW kind \in {"call", "logout", "password"}, Send(t, r, kind)
      PROVE  EndInv'
    <2>1. Kept
        BY <1>2 DEF Send, Kept, NewRequest, WebSessionTypeOK
    <2> QED
        BY <1>0, <1>2, <2>1, KeptEndings DEF Send, EndInv, TokensUntil, NoRotation
<1>3. CASE Open(t)
    <2>1. Kept
        BY <1>3, LoadPageKept DEF Open
    <2>2. \A u \in Tabs : /\ token'[u] = token[u] \/ token'[u] = NoToken
                          /\ logins'[u] = logins[u] \/ logins'[u] = NoToken
        BY <1>1, <1>3 DEF Open, LoadPage
    <2>3. /\ NoRotation => NoRotation'
          /\ \A second \in Nat : (\A c \in Calls : refreshes[c].issued <= second) =>
                 \A c \in Calls : refreshes'[c].issued <= second
        BY <1>3, NothingTyped, GivenUpEnds DEF Open, NoRefresh
    <2>4. \A second \in Nat : TokensUntil(second) =>
              /\ \A u \in Tabs : token'[u] <= second /\ logins'[u] <= second
              /\ \A c \in Calls : refreshes'[c].issued <= second
        BY <2>2, <2>3 DEF TokensUntil, NoToken
    <2> QED
        BY <1>0, <1>1, <1>3, <2>1, <2>3, <2>4, KeptEndings
        DEF Open, EndInv, TokensUntil
<1>4. CASE SignIn(t)
    <2>1. MayOverlap("ending") \/ ~EndingInFlight
        BY <1>4 DEF SignIn
    <2>2. (EndingInFlight' <=> EndingInFlight) /\ (Forgotten' => EndingInFlight)
        BY <1>4 DEF SignIn, EndingInFlight, Forgotten
    <2> QED
        BY <1>0, <1>1, <1>4, <2>1, <2>2
        DEF SignIn, Login, EndInv, TokensUntil
<1>5. CASE ReceiveLogin(t)
    <2>1. Kept
        BY <1>5 DEF ReceiveLogin, Kept
    <2>2. \A u \in Tabs : /\ token'[u] = token[u] \/ token'[u] = logins[u]
                          /\ logins'[u] = logins[u] \/ logins'[u] = NoToken
        BY <1>1, <1>5 DEF ReceiveLogin
    <2>3. \A second \in Nat : TokensUntil(second) =>
              \A u \in Tabs : token'[u] <= second /\ logins'[u] <= second
        BY <2>2 DEF TokensUntil, NoToken
    <2> QED
        BY <1>0, <1>1, <1>5, <2>1, <2>3, KeptEndings
        DEF ReceiveLogin, EndInv, TokensUntil, NoRotation
<1>6. load.kinds \subseteq {"call", "logout", "password"}
    BY WebSessionAssumption DEF WebSessionTypeOK, Kinds
<1> QED
    BY <1>2, <1>3, <1>4, <1>5, <1>6 DEF UserStep

LEMMA TickEnds ==
    ASSUME WebSessionTypeOK, EndInv, Tick, UNCHANGED <<load, clientVars>>
    PROVE  EndInv'
<1>1. /\ now \in Nat /\ now' = now + 1
      /\ \A t \in Tabs : token[t] \in Nat /\ logins[t] \in Nat
      /\ \A c \in Calls : refreshes[c].issued \in Nat
    BY DEF Tick, WebSessionTypeOK, SessionsTypeOK, Token, Refresh
<1>2. UNCHANGED <<load, redisVars, refreshes, clientVars>>
    BY DEF Tick
<1>3. TokensUntil(now)'
    BY <1>1, <1>2 DEF EndInv, TokensUntil, clientVars
<1> QED
    BY <1>2, <1>3 DEF EndInv, MayOverlap, EndingInFlight, Forgotten, NoRotation,
                      TokensUntil, redisVars, clientVars

LEMMA NextEnds == WebSessionTypeOK /\ EndInv /\ [Next]_vars => EndInv'
<1> SUFFICES ASSUME WebSessionTypeOK, EndInv, [Next]_vars PROVE EndInv'
    OBVIOUS
<1>1. load.tabs \subseteq Tabs /\ load.reqs \subseteq Requests
    BY WebSessionAssumption DEF WebSessionTypeOK
<1>2. CASE UNCHANGED vars
    BY <1>2 DEF vars, serverVars, redisVars, clientVars, EndInv, MayOverlap, EndingInFlight,
                Forgotten, NoRotation, RefreshAt, TokensUntil
<1>3. CASE Next
    BY <1>1, <1>3, RequestStepEnds, RefreshStepEnds, UserStepEnds, TickEnds DEF Next
<1> QED
    BY <1>2, <1>3

\* A token that was signed by the second of the logout is either past its life
\* or on the blacklist.
LEMMA RevokedTokens ==
    ASSUME WebSessionTypeOK, EndInv
    PROVE  SessionsEnd
<1> SUFFICES ASSUME ended, ~MayOverlap("ending")
             PROVE  /\ stored = NoToken
                    /\ AccessLife <= BlacklistLife => \A t \in Tabs : ~Accepts(token[t])
    BY DEF SessionsEnd
<1>1. stored = NoToken /\ TokensUntil(revokedAt) /\ revokedUntil = revokedAt + BlacklistLife
    BY DEF EndInv
<1>2. ASSUME AccessLife <= BlacklistLife PROVE \A t \in Tabs : ~Accepts(token[t])
    <2> SUFFICES ASSUME NEW t \in Tabs, Accepts(token[t]) PROVE FALSE
        OBVIOUS
    <2>1. /\ token[t] \in Nat /\ revokedAt \in Nat /\ now \in Nat
          /\ AccessLife \in Nat /\ BlacklistLife \in Nat
        BY SessionsAssumption DEF WebSessionTypeOK, SessionsTypeOK, Token
    <2>2. token[t] <= revokedAt /\ now < token[t] + AccessLife
        BY <1>1 DEF TokensUntil, Accepts
    <2> QED
        BY <1>1, <1>2, <2>1, <2>2 DEF Accepts, Revoked
<1> QED
    BY <1>1, <1>2

\* After a logout or a change of password, with no refresh or login under way at
\* the time, no device of the user has a session: for any number of tabs,
\* browsers and requests, and any life of the access tokens that is not longer
\* than that of an entry of the blacklist.
THEOREM LogoutEndsSessions == Spec => []SessionsEnd
<1>1. Init => WebSessionTypeOK /\ EndInv
    BY InitTyped, InitEnds
<1>2. WebSessionTypeOK /\ EndInv /\ [Next]_vars => (WebSessionTypeOK /\ EndInv)'
    BY NextTyped, NextEnds
<1>3. WebSessionTypeOK /\ EndInv => SessionsEnd
    BY RevokedTokens
<1> QED
    BY <1>1, <1>2, <1>3, PTL DEF Spec

(***************************************************************************)
(* One tab on its own                                                      *)
(***************************************************************************)

\* A request of the page waits for its refresh.
Waits(t) == \E r \in Requests : reqs[t][r].st = "renewing" /\ reqs[t][r].kind # "orphan"

\* A logout or a change of password that the server has done, and the page does
\* not know of yet.
Answered(req) == req.st = "ok" /\ req.kind \in {"logout", "password"}

AnswerLost(t) == {NoToken, refreshes[Left(t)].issued} \union unseen

\* What Redis has, if anything, is what the refresh or the login of the page
\* brings back, or else the cookie; or an answer that the page does not see.
InRedis(t) ==
    /\ RefreshAt(Page(t), "issued") =>
          stored \in AnswerLost(t) \union {refreshes[Page(t)].issued}
    /\ logins[t] # NoToken => stored \in AnswerLost(t) \union {logins[t]}
    /\ ~RefreshAt(Page(t), "issued") /\ logins[t] = NoToken =>
          stored \in AnswerLost(t) \union {cookie[BrowserOf[t]]}

\* A refresh of the page is one that a request waits for, and no login is under
\* way then; a login is alone but for what earlier pages have left.
OneTab(t) ==
    /\ \/ RefreshAt(Page(t), "none")
       \/ Waits(t) /\ t \in refreshing /\ logins[t] = NoToken
    /\ logins[t] # NoToken => Quiet(t) /\ t \notin signedIn
    /\ \A r \in Requests : Answered(reqs[t][r]) => stored = NoToken /\ NoRotation
    /\ \A c \in {Page(t), Left(t)} : ~RefreshAt(c, "issued") => refreshes[c].issued = NoToken
    /\ InRedis(t)

Alone(t) == load.tabs = {t} /\ ~MayOverlap("ending")

OneTabInv == \A t \in Tabs : Alone(t) => OneTab(t)

LEMMA AnswerFields ==
    ASSUME WebSessionTypeOK, NEW t \in Tabs, NEW r \in Requests, NEW st, Answer(t, r, st)
    PROVE  \A q \in Requests : /\ reqs'[t][q].st = IF q = r THEN st ELSE reqs[t][q].st
                               /\ reqs'[t][q].kind = reqs[t][q].kind
<1>1. reqs[t] \in [Requests -> Request] /\ reqs[t][r] \in Request
    BY DEF WebSessionTypeOK
<1> QED
    BY <1>1 DEF Answer, WebSessionTypeOK, Request

\* A step of one request that waits for no refresh leaves those that do, and
\* makes no page busy.
LEMMA OneRequest ==
    ASSUME NEW t \in Tabs, NEW r \in Requests,
           reqs[t][r].st \notin {"renewing", "idle"},
           \A q \in Requests : \/ reqs'[t][q].kind = reqs[t][q].kind
                               \/ q = r /\ reqs'[t][q].st = "idle",
           \A q \in Requests \ {r} : reqs'[t][q].st = reqs[t][q].st
    PROVE  (Waits(t) => Waits(t)') /\ (Quiet(t) => Quiet(t)')
BY DEF Waits, Quiet

\* A page that was just loaded has been told nothing.
LEMMA LoadPageAnswers ==
    ASSUME WebSessionTypeOK, NEW t \in Tabs, LoadPage(t)
    PROVE  \A r \in Requests : ~Answered(reqs'[t][r])
<1>1. AfterLeaving(t) \in [Requests -> Request] /\ reqs[t] \in [Requests -> Request]
    BY RequestsTyped DEF WebSessionTypeOK
<1>2. \A r \in Requests : AfterLeaving(t)[r].st # "ok"
    BY <1>1 DEF AfterLeaving, NoRequest, Request
<1>3. PICK slot : reqs' = [reqs EXCEPT ![t] = [AfterLeaving(t) EXCEPT ![slot] =
                      [st |-> "sent", kind |-> "me", retried |-> FALSE, token |-> NoToken]]]
    BY DEF LoadPage
<1> QED
    BY <1>1, <1>2, <1>3 DEF Answered, WebSessionTypeOK

LEMMA RequestStepOneTab ==
    ASSUME WebSessionTypeOK, EndInv, NEW t \in Tabs, NEW r \in Requests, Alone(t), OneTab(t),
           RequestStep(t, r)
    PROVE  OneTab(t)'
<1>0. /\ ~MayOverlap("ending")
      /\ reqs[t] \in [Requests -> Request] /\ reqs[t][r] \in Request
      /\ BrowserOf[t] \in Browsers /\ cookie \in [Browsers -> Token]
    BY WebSessionAssumption DEF Alone, WebSessionTypeOK
<1>1. UNCHANGED <<logins, unseen>>
    BY DEF RequestStep, Authenticate, Forget, Blacklist, ReceiveOk, ReceiveDenied
<1>2. CASE Authenticate(t, r)
    <2>1. PICK st \in {"denied", "ok", "passed"} :
              Answer(t, r, st) /\ (st = "ok" => ~EndsSessions(reqs[t][r]))
        BY <1>2 DEF Authenticate
    <2>2. UNCHANGED <<refreshes, stored, cookie, refreshing, signedIn>> /\ reqs[t][r].st = "sent"
        BY <1>2 DEF Authenticate, serverVars, redisVars
    <2>3. (Waits(t) => Waits(t)') /\ (Quiet(t) => Quiet(t)')
        BY <2>1, <2>2, AnswerFields, OneRequest
    <2>4. \A q \in Requests : Answered(reqs'[t][q]) => Answered(reqs[t][q])
        BY <2>1, AnswerFields DEF Answered, EndsSessions
    <2> QED
        BY <1>1, <2>2, <2>3, <2>4 DEF OneTab, InRedis, AnswerLost, RefreshAt, NoRotation
<1>3. CASE Forget(t, r)
    <2>1. /\ Answer(t, r, "forgotten") /\ stored' = NoToken /\ reqs[t][r].st = "passed"
          /\ UNCHANGED <<refreshes, cookie, refreshing, signedIn>>
        BY <1>3 DEF Forget, ForgetRefreshToken
    <2>2. (Waits(t) => Waits(t)') /\ (Quiet(t) => Quiet(t)')
        BY <2>1, AnswerFields, OneRequest
    <2>3. \A q \in Requests : Answered(reqs'[t][q]) => Answered(reqs[t][q])
        BY <2>1, AnswerFields DEF Answered
    <2> QED
        BY <1>1, <2>1, <2>2, <2>3 DEF OneTab, InRedis, AnswerLost, RefreshAt, NoRotation
<1>4. CASE Blacklist(t, r)
    <2>1. /\ Answer(t, r, "ok") /\ reqs[t][r].st = "forgotten"
          /\ UNCHANGED <<stored, refreshes, cookie, refreshing, signedIn>>
        BY <1>4 DEF Blacklist, BlacklistTokens
    <2>2. (Waits(t) => Waits(t)') /\ (Quiet(t) => Quiet(t)')
        BY <2>1, AnswerFields, OneRequest
    <2>3. stored = NoToken /\ NoRotation
        BY <1>0, <2>1 DEF EndInv, EndingInFlight, Forgotten
    <2> QED
        BY <1>1, <2>1, <2>2, <2>3 DEF OneTab, InRedis, AnswerLost, RefreshAt, NoRotation
<1>5. CASE ReceiveOk(t, r)
    <2>1. /\ reqs[t][r].st = "ok" /\ reqs' = [reqs EXCEPT ![t][r] = NoRequest]
          /\ UNCHANGED <<stored, refreshes, refreshing>>
        BY <1>5 DEF ReceiveOk, serverVars, redisVars
    <2>2. \A q \in Requests : reqs'[t][q] = IF q = r THEN NoRequest ELSE reqs[t][q]
        BY <1>0, <2>1 DEF WebSessionTypeOK
    <2>3. (Waits(t) => Waits(t)') /\ (Quiet(t) => Quiet(t)')
        BY <2>1, <2>2, OneRequest DEF NoRequest
    <2>4. \A q \in Requests : Answered(reqs'[t][q]) => Answered(reqs[t][q])
        BY <2>2 DEF Answered, NoRequest
    <2>5. cookie'[BrowserOf[t]] = cookie[BrowserOf[t]] \/ stored = NoToken
        <3>1. CASE reqs[t][r].kind = "logout"
            BY <2>1, <3>1 DEF OneTab, Answered
        <3>2. CASE reqs[t][r].kind # "logout"
            BY <1>5, <3>2 DEF ReceiveOk
        <3> QED
            BY <3>1, <3>2
    <2>6. logins[t] # NoToken => t \notin signedIn'
        <3>1. CASE reqs[t][r].kind = "me"
            BY <2>1, <3>1 DEF OneTab, Quiet
        <3>2. CASE reqs[t][r].kind # "me"
            BY <1>5, <3>2 DEF ReceiveOk, ClearAuth, OneTab
        <3> QED
            BY <3>1, <3>2
    <2> QED
        BY <1>1, <2>1, <2>3, <2>4, <2>5, <2>6 DEF OneTab, InRedis, AnswerLost, RefreshAt, NoRotation
<1>6. CASE ReceiveDenied(t, r)
    <2>0. reqs[t][r].st = "denied" /\ UNCHANGED <<stored, cookie>> /\ signedIn' \subseteq signedIn
        BY <1>6 DEF ReceiveDenied, redisVars, ClearAuth
    <2>1. CASE /\ reqs' = [reqs EXCEPT ![t][r] = NoRequest] \/ Answer(t, r, "queued")
               /\ UNCHANGED <<refreshing, refreshes>>
        <3>1. /\ \A q \in Requests \ {r} : reqs'[t][q].st = reqs[t][q].st
                                           /\ reqs'[t][q].kind = reqs[t][q].kind
              /\ \/ reqs'[t][r].st = "idle"
                 \/ reqs'[t][r].st = "queued" /\ reqs'[t][r].kind = reqs[t][r].kind
            <4>1. CASE reqs' = [reqs EXCEPT ![t][r] = NoRequest]
                BY <1>0, <4>1 DEF NoRequest, WebSessionTypeOK
            <4>2. CASE Answer(t, r, "queued")
                BY <4>2, AnswerFields
            <4> QED
                BY <2>1, <4>1, <4>2
        <3>2. \A q \in Requests : Answered(reqs'[t][q]) => Answered(reqs[t][q])
            BY <3>1 DEF Answered
        <3>3. (Waits(t) => Waits(t)') /\ (Quiet(t) => Quiet(t)')
            BY <2>0, <3>1, OneRequest
        <3> QED
            BY <1>1, <2>0, <2>1, <3>2, <3>3 DEF OneTab, InRedis, AnswerLost, RefreshAt, NoRotation
    <2>2. CASE /\ t \notin refreshing /\ refreshing' = refreshing \union {t}
               /\ reqs[t][r].kind # "orphan"
               /\ reqs' = [reqs EXCEPT ![t][r].st = "renewing", ![t][r].retried = TRUE]
               /\ SendRefresh(Page(t), cookie[BrowserOf[t]])
        <3>1. \A q \in Requests : reqs'[t][q] = IF q = r THEN [reqs[t][r] EXCEPT !.st = "renewing", !.retried = TRUE]
                                                ELSE reqs[t][q]
            BY <1>0, <2>2 DEF WebSessionTypeOK
        <3>2. reqs'[t][r].st = "renewing" /\ reqs'[t][r].kind # "orphan"
            <4>1. \A req \in Request : /\ [req EXCEPT !.st = "renewing", !.retried = TRUE].st = "renewing"
                                      /\ [req EXCEPT !.st = "renewing", !.retried = TRUE].kind = req.kind
                BY DEF Request
            <4>2. reqs'[t][r] = [reqs[t][r] EXCEPT !.st = "renewing", !.retried = TRUE]
                BY <1>0, <3>1
            <4> QED
                BY <1>0, <2>2, <4>1, <4>2
        <3>3. Waits(t)' /\ \A q \in Requests : Answered(reqs'[t][q]) => Answered(reqs[t][q])
            BY <3>1, <3>2 DEF Waits, Answered
        <3>4. RefreshAt(Page(t), "none") /\ logins[t] = NoToken
            BY <2>0, <2>2 DEF OneTab, Quiet
        <3>5. /\ refreshes'[Page(t)].stage = "sent" /\ refreshes'[Page(t)].issued = NoToken
              /\ \A c \in Calls : c # Page(t) => refreshes'[c] = refreshes[c]
            BY <2>2, CallsOfTabs DEF SendRefresh, WebSessionTypeOK, SessionsTypeOK
        <3>6. NoRotation => NoRotation'
            BY <3>5 DEF NoRotation
        <3>7. refreshes'[Left(t)] = refreshes[Left(t)]
            BY <3>5, CallsOfTabs
        <3> QED
            BY <1>1, <2>0, <2>2, <3>3, <3>4, <3>5, <3>6, <3>7
            DEF OneTab, InRedis, AnswerLost, RefreshAt
    <2> QED
        BY <1>6, <2>1, <2>2 DEF ReceiveDenied
<1> QED
    BY <1>2, <1>3, <1>4, <1>5, <1>6 DEF RequestStep

\* The server rotates, for the page or for one that was left.
LEMMA RotateStepOneTab ==
    ASSUME WebSessionTypeOK, NEW t \in Tabs, OneTab(t), NEW c \in {Page(t), Left(t)}, RotateStep(c)
    PROVE  OneTab(t)'
<1>0. /\ c \in Calls /\ Page(t) \in Calls /\ Left(t) \in Calls /\ Page(t) # Left(t)
      /\ refreshes \in [Calls -> Refresh]
    BY CallsOfTabs DEF WebSessionTypeOK, SessionsTypeOK
<1>1. UNCHANGED <<cookie, logins, refreshing, unseen, reqs, signedIn>>
    BY DEF RotateStep, clientVars
<1>2. UNCHANGED <<Waits(t), Quiet(t)>>
    BY <1>1 DEF Waits, Quiet
<1>3. RefreshAt(c, "none") => FALSE
    BY DEF RotateStep, CheckRefresh, DeleteOld, StoreNew, RefreshAt
<1>4. CASE CheckRefresh(c)
    <2>1. stored' = stored /\ RefreshAt(c, "sent")
        BY <1>4 DEF CheckRefresh, redisVars
    <2>2. PICK stage \in {"checked", "refused"} :
              /\ refreshes' = [refreshes EXCEPT ![c].stage = stage]
              /\ stored = NoToken => stage = "refused"
        BY <1>4 DEF CheckRefresh
    <2>3. \A e \in Calls : /\ refreshes'[e].issued = refreshes[e].issued
                           /\ refreshes'[e].stage = IF e = c THEN stage ELSE refreshes[e].stage
        BY <1>0, <2>2 DEF Refresh
    <2>4. stored = NoToken /\ NoRotation => NoRotation'
        BY <2>2, <2>3 DEF NoRotation
    <2> QED
        BY <1>0, <1>1, <1>2, <2>1, <2>3, <2>4 DEF OneTab, InRedis, AnswerLost, RefreshAt
<1>5. CASE DeleteOld(c)
    <2>1. stored' = NoToken /\ RefreshAt(c, "checked") /\ ~NoRotation
        BY <1>0, <1>5 DEF DeleteOld, NoRotation, RefreshAt
    <2>2. \A e \in Calls : /\ refreshes'[e].issued = refreshes[e].issued
                           /\ refreshes'[e].stage = IF e = c THEN "deleted" ELSE refreshes[e].stage
        BY <1>0, <1>5 DEF DeleteOld, Refresh
    <2> QED
        BY <1>0, <1>1, <1>2, <2>1, <2>2 DEF OneTab, InRedis, AnswerLost, RefreshAt
<1>6. CASE StoreNew(c)
    <2>1. stored' = now /\ RefreshAt(c, "deleted") /\ ~NoRotation
        BY <1>0, <1>6 DEF StoreNew, StoreNow, NoRotation, RefreshAt
    <2>2. \A e \in Calls : /\ refreshes'[e].issued = IF e = c THEN now ELSE refreshes[e].issued
                           /\ refreshes'[e].stage = IF e = c THEN "issued" ELSE refreshes[e].stage
        BY <1>0, <1>6 DEF StoreNew, Refresh
    <2>3. \A r \in Requests : ~Answered(reqs'[t][r])
        BY <1>1, <2>1 DEF OneTab
    <2>4. CASE c = Page(t)
        <3>1. logins'[t] = NoToken
            BY <1>1, <1>3, <2>4 DEF OneTab
        <3> QED
            BY <1>0, <1>1, <1>2, <2>1, <2>2, <2>3, <2>4, <3>1 DEF OneTab, InRedis, AnswerLost, RefreshAt
    <2>5. CASE c = Left(t)
        BY <1>0, <1>1, <1>2, <2>1, <2>2, <2>3, <2>5 DEF OneTab, InRedis, AnswerLost, RefreshAt
    <2> QED
        BY <2>4, <2>5
<1> QED
    BY <1>4, <1>5, <1>6 DEF RotateStep

LEMMA RefreshStepOneTab ==
    ASSUME WebSessionTypeOK, NEW t \in Tabs, OneTab(t), RefreshStep(t) \/ LoseRefresh(t)
    PROVE  OneTab(t)'
<1>1. /\ refreshes \in [Calls -> Refresh] /\ reqs[t] \in [Requests -> Request]
      /\ BrowserOf[t] \in Browsers /\ cookie \in [Browsers -> Token]
      /\ Page(t) \in Calls /\ Left(t) \in Calls /\ Page(t) # Left(t)
    BY WebSessionAssumption, CallsOfTabs DEF WebSessionTypeOK, SessionsTypeOK
<1>2. CASE RotateStep(Page(t)) \/ RotateStep(Left(t))
    BY <1>2, RotateStepOneTab
<1>3. CASE ReceiveRefresh(t)
    <2>1. UNCHANGED <<stored, logins, unseen, signedIn>> /\ RefreshAt(Page(t), "issued")
        BY <1>3 DEF ReceiveRefresh, redisVars
    <2>2. /\ refreshes' = [refreshes EXCEPT ![Page(t)] = NoRefresh]
          /\ cookie'[BrowserOf[t]] = refreshes[Page(t)].issued
        BY <1>1, <1>3 DEF ReceiveRefresh
    <2>3. /\ refreshes'[Page(t)].stage = "none" /\ refreshes'[Page(t)].issued = NoToken
          /\ refreshes'[Left(t)] = refreshes[Left(t)] /\ (NoRotation => NoRotation')
        BY <1>1, <2>2 DEF NoRefresh, NoRotation
    <2>4. \A r \in Requests : reqs'[t][r] = reqs[t][r] \/ reqs'[t][r].st = "sent"
        <3> SUFFICES ASSUME NEW r \in Requests PROVE reqs'[t][r] = reqs[t][r] \/ reqs'[t][r].st = "sent"
            OBVIOUS
        <3>1. reqs'[t][r] = CASE reqs[t][r].st = "queued" -> Retry(reqs[t][r], refreshes[Page(t)].issued)
                              [] reqs[t][r].st = "renewing" ->
                                     [reqs[t][r] EXCEPT !.st = "sent", !.token = refreshes[Page(t)].issued]
                              [] OTHER -> reqs[t][r]
            BY <1>3 DEF ReceiveRefresh, WebSessionTypeOK
        <3>2. reqs[t][r] \in Request
            BY <1>1
        <3> QED
            BY <3>1, <3>2 DEF Retry, Request
    <2>5. \A r \in Requests : Answered(reqs'[t][r]) => Answered(reqs[t][r])
        BY <2>4 DEF Answered
    <2>6. logins[t] = NoToken
        BY <2>1 DEF OneTab, RefreshAt
    <2> QED
        BY <2>1, <2>2, <2>3, <2>5, <2>6 DEF OneTab, InRedis, AnswerLost, RefreshAt
<1>4. CASE ReceiveRefusal(t)
    <2>1. UNCHANGED <<stored, logins, unseen, cookie>> /\ RefreshAt(Page(t), "refused")
        BY <1>4 DEF ReceiveRefusal, redisVars
    <2>2. /\ refreshes'[Page(t)].stage = "none" /\ refreshes'[Page(t)].issued = NoToken
          /\ refreshes'[Left(t)] = refreshes[Left(t)] /\ (NoRotation => NoRotation')
        BY <1>1, <1>4 DEF ReceiveRefusal, NoRefresh, NoRotation
    <2>3. \A r \in Requests : Answered(reqs'[t][r]) => Answered(reqs[t][r])
        <3>1. CASE t \notin atLogin
            BY <1>4, <3>1, LoadPageAnswers DEF ReceiveRefusal
        <3>2. CASE t \in atLogin
            <4>1. \A r \in Requests : reqs'[t][r] \in {NoRequest, reqs[t][r]}
                BY <1>1, <1>4, <3>2 DEF ReceiveRefusal, WebSessionTypeOK
            <4> QED
                BY <4>1 DEF Answered, NoRequest
        <3> QED
            BY <3>1, <3>2
    <2>4. logins[t] = NoToken
        BY <2>1 DEF OneTab, RefreshAt
    <2> QED
        BY <2>1, <2>2, <2>3, <2>4 DEF OneTab, InRedis, AnswerLost, RefreshAt
<1>5. CASE DropAnswer(t)
    <2>1. /\ UNCHANGED <<stored, cookie, logins, refreshing, reqs, signedIn>>
          /\ unseen' = unseen \union Issued(Left(t))
          /\ refreshes' = [refreshes EXCEPT ![Left(t)] = NoRefresh]
        BY <1>5 DEF DropAnswer, redisVars
    <2>2. /\ refreshes'[Page(t)] = refreshes[Page(t)] /\ (NoRotation => NoRotation')
          /\ refreshes'[Left(t)].issued = NoToken
        BY <1>1, <2>1 DEF NoRefresh, NoRotation
    <2>3. AnswerLost(t) \subseteq AnswerLost(t)'
        BY <2>1 DEF AnswerLost, Issued, OneTab
    <2>4. UNCHANGED <<Waits(t), Quiet(t)>>
        BY <2>1 DEF Waits, Quiet
    <2> QED
        BY <2>1, <2>2, <2>3, <2>4 DEF OneTab, InRedis, RefreshAt
<1>6. CASE LoseRefresh(t)
    <2>1. /\ UNCHANGED <<stored, cookie, logins, refreshing, reqs, signedIn>>
          /\ unseen' = unseen \union Issued(Page(t))
          /\ ~RefreshAt(Page(t), "none")
        BY <1>6, LostTyped DEF redisVars, RefreshAt
    <2>2. PICK lost \in Refresh :
              /\ lost.stage \in {"refused", "hung"} /\ lost.issued = NoToken
              /\ \/ GiveUpRefresh(t, lost)
                 \/ refreshes' = [refreshes EXCEPT ![Page(t)] = lost]
        BY <1>6, LostTyped
    <2>3. refreshes'[Page(t)] = lost /\ (NoRotation => NoRotation')
        BY <2>2, RefreshGivenUp, GivenUpEnds
    <2>4. \/ refreshes'[Left(t)] = refreshes[Left(t)]
          \/ /\ refreshes[Left(t)].issued = NoToken /\ refreshes[Page(t)].issued = NoToken
             /\ refreshes'[Left(t)] = refreshes[Page(t)]
        BY <2>2, RefreshGivenUp DEF OneTab, RefreshAt
    <2>5. /\ AnswerLost(t) \subseteq AnswerLost(t)'
          /\ RefreshAt(Page(t), "issued") => refreshes[Page(t)].issued \in AnswerLost(t)'
        BY <2>1, <2>4 DEF AnswerLost, Issued
    <2>6. UNCHANGED <<Waits(t), Quiet(t)>> /\ logins[t] = NoToken
        BY <2>1 DEF Waits, Quiet, OneTab
    <2>7. ~RefreshAt(Left(t), "issued")' => refreshes'[Left(t)].issued = NoToken
        BY <2>4 DEF OneTab, RefreshAt
    <2> QED
        BY <2>1, <2>2, <2>3, <2>5, <2>6, <2>7 DEF OneTab, InRedis, RefreshAt
<1> QED
    BY <1>2, <1>3, <1>4, <1>5, <1>6 DEF RefreshStep

LEMMA UserStepOneTab ==
    ASSUME WebSessionTypeOK, NEW t \in Tabs, Alone(t), OneTab(t), UserStep(t) \/ ReceiveLogin(t)
    PROVE  OneTab(t)'
<1> USE DEF serverVars, redisVars
<1>1. /\ reqs \in [Tabs -> [Requests -> Request]] /\ reqs[t] \in [Requests -> Request]
      /\ BrowserOf[t] \in Browsers /\ cookie \in [Browsers -> Token] /\ logins \in [Tabs -> Token]
      /\ load.kinds \subseteq {"call", "logout", "password"} /\ load.reqs \subseteq Requests
    BY WebSessionAssumption DEF WebSessionTypeOK, Kinds
<1>2. Quiet(t) => RefreshAt(Page(t), "none") /\ \A r \in Requests : ~Answered(reqs[t][r])
    BY DEF Quiet, OneTab, Waits, Answered
<1>3. ASSUME NEW r \in load.reqs, NEW kind \in {"call", "logout", "password"}, Send(t, r, kind)
      PROVE  OneTab(t)'
    <2>1. /\ UNCHANGED <<stored, refreshes, cookie, logins, refreshing, unseen, signedIn>>
          /\ logins[t] = NoToken /\ reqs[t][r].st = "idle"
        BY <1>3 DEF Send, OneTab
    <2>2. \A q \in Requests : reqs'[t][q] = IF q = r THEN NewRequest(t, kind) ELSE reqs[t][q]
        BY <1>1, <1>3 DEF Send
    <2>3. \A q \in Requests : Answered(reqs'[t][q]) => Answered(reqs[t][q])
        BY <2>2 DEF Answered, NewRequest
    <2>4. Waits(t) => Waits(t)'
        BY <2>1, <2>2 DEF Waits
    <2> QED
        BY <2>1, <2>3, <2>4 DEF OneTab, InRedis, AnswerLost, RefreshAt, NoRotation
<1>4. CASE Open(t)
    <2>1. /\ UNCHANGED <<stored, cookie>> /\ logins'[t] = NoToken
          /\ unseen' = unseen \union Issued(Page(t)) \union ({logins[t]} \ {NoToken})
        BY <1>1, <1>4 DEF Open
    <2>2. \A r \in Requests : ~Answered(reqs'[t][r])
        BY <1>4, LoadPageAnswers DEF Open
    <2>3. refreshes'[Page(t)] = NoRefresh
        BY <1>4, NothingTyped, RefreshGivenUp DEF Open
    <2>4. \/ refreshes'[Left(t)] = refreshes[Left(t)]
          \/ /\ refreshes[Left(t)].issued = NoToken /\ refreshes[Page(t)].issued = NoToken
             /\ refreshes'[Left(t)] = refreshes[Page(t)]
        BY <1>4, NothingTyped, RefreshGivenUp DEF Open, OneTab, RefreshAt
    <2>5. /\ AnswerLost(t) \subseteq AnswerLost(t)'
          /\ RefreshAt(Page(t), "issued") => refreshes[Page(t)].issued \in AnswerLost(t)'
          /\ logins[t] \in AnswerLost(t)'
        BY <2>1, <2>4 DEF AnswerLost, Issued
    <2>6. ~RefreshAt(Left(t), "issued")' => refreshes'[Left(t)].issued = NoToken
        BY <2>4 DEF OneTab, RefreshAt
    <2>7. stored \in AnswerLost(t)' \union {cookie[BrowserOf[t]]}
        BY <2>5 DEF OneTab, InRedis
    <2> QED
        BY <2>1, <2>2, <2>3, <2>6, <2>7 DEF OneTab, InRedis, RefreshAt, NoRefresh
<1>5. CASE SignIn(t)
    <2>1. /\ UNCHANGED <<refreshes, cookie, refreshing, reqs, signedIn, unseen>>
          /\ Quiet(t) /\ t \notin signedIn /\ stored' = now
        BY <1>5 DEF SignIn, Login, Alone
    <2>2. logins'[t] = now
        BY <1>1, <1>5 DEF SignIn
    <2>3. now # NoToken
        BY DEF WebSessionTypeOK, SessionsTypeOK, NoToken
    <2>4. Quiet(t)'
        BY <2>1 DEF Quiet
    <2> QED
        BY <1>2, <2>1, <2>2, <2>3, <2>4 DEF OneTab, InRedis, RefreshAt
<1>6. CASE ReceiveLogin(t)
    <2>1. /\ UNCHANGED <<stored, refreshes, refreshing, reqs, unseen>>
          /\ Quiet(t) /\ stored \in AnswerLost(t) \union {logins[t]}
        BY <1>6 DEF ReceiveLogin, OneTab, InRedis
    <2>2. logins'[t] = NoToken /\ cookie'[BrowserOf[t]] = logins[t]
        BY <1>1, <1>6 DEF ReceiveLogin
    <2> QED
        BY <1>2, <2>1, <2>2 DEF OneTab, InRedis, AnswerLost, RefreshAt
<1> QED
    BY <1>1, <1>3, <1>4, <1>5, <1>6 DEF UserStep

LEMMA NextOneTab == WebSessionTypeOK /\ EndInv /\ OneTabInv /\ [Next]_vars => OneTabInv'
<1> SUFFICES ASSUME WebSessionTypeOK, EndInv, OneTabInv, [Next]_vars, NEW t \in Tabs, Alone(t)'
             PROVE  OneTab(t)'
    BY DEF OneTabInv
<1>1. load' = load /\ Alone(t) /\ load.reqs \subseteq Requests
    BY WebSessionAssumption DEF Alone, MayOverlap, Next, vars, WebSessionTypeOK
<1>2. OneTab(t)
    BY <1>1 DEF OneTabInv
<1>3. CASE UNCHANGED <<serverVars, clientVars>> \/ (Tick /\ UNCHANGED clientVars)
    BY <1>2, <1>3 DEF Tick, serverVars, redisVars, clientVars, OneTab, InRedis, AnswerLost, RefreshAt,
                      Quiet, Waits, NoRotation
<1>4. CASE \/ \E r \in load.reqs : RequestStep(t, r)
           \/ RefreshStep(t)
           \/ UserStep(t)
           \/ ReceiveLogin(t)
           \/ LoseRefresh(t)
    BY <1>1, <1>2, <1>4, RequestStepOneTab, RefreshStepOneTab, UserStepOneTab
<1> QED
    BY <1>1, <1>3, <1>4 DEF Next, vars, Alone

LEMMA InitOneTab == Init => OneTabInv
<1> SUFFICES ASSUME Init, NEW t \in Tabs PROVE OneTab(t)
    BY DEF OneTabInv
<1>1. refreshes[Page(t)] = NoRefresh /\ refreshes[Left(t)] = NoRefresh
    BY CallsOfTabs DEF Init, SessionsInit
<1>2. \A r \in Requests : reqs[t][r] = NoRequest
    BY DEF Init
<1> QED
    BY <1>1, <1>2 DEF Init, SessionsInit, OneTab, InRedis, AnswerLost, RefreshAt, NoRefresh,
                      NoRequest, Answered

\* A browser with one tab is signed out by its own rotation only where an answer
\* with a new token is lost, or dropped because the page is loaded anew before it
\* comes: but for these, whenever nothing is on its way, its cookie is the refresh
\* token that Redis has, or Redis has none.  This for any number of requests in
\* flight, and page loads at any time, if no request ends the sessions while
\* another refreshes them.
THEOREM OneTabSession == Spec => []OneTabKeepsSession
<1>1. Init => WebSessionTypeOK /\ EndInv /\ OneTabInv
    BY InitTyped, InitEnds, InitOneTab
<1>2. WebSessionTypeOK /\ EndInv /\ OneTabInv /\ [Next]_vars
      => (WebSessionTypeOK /\ EndInv /\ OneTabInv)'
    BY NextTyped, NextEnds, NextOneTab
<1>3. OneTabInv => OneTabKeepsSession
    <2> SUFFICES ASSUME OneTabInv, NEW t \in Tabs, load.tabs = {t}, ~MayOverlap("ending"),
                        ~AnyRefreshAt({"issued"}), logins[t] = NoToken, stored # NoToken
                 PROVE  stored \in {cookie[BrowserOf[t]]} \union unseen
        BY DEF OneTabKeepsSession
    <2>1. OneTab(t)
        BY DEF OneTabInv, Alone
    <2>2. ~RefreshAt(Page(t), "issued") /\ ~RefreshAt(Left(t), "issued")
        BY CallsOfTabs DEF AnyRefreshAt, RefreshAt
    <2> QED
        BY <2>1, <2>2 DEF OneTab, InRedis, AnswerLost
<1> QED
    BY <1>1, <1>2, <1>3, PTL DEF Spec

=============================================================================
