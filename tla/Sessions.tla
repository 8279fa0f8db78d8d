------------------------------ MODULE Sessions ------------------------------
(***************************************************************************)
(* The sessions of one user as the server keeps them (auth.service.ts,     *)
(* jwt.guard.ts): in Redis the one refresh token that counts, and the      *)
(* second of the last logout, which revokes the access tokens issued until *)
(* then.                                                                   *)
(*                                                                         *)
(* Two tokens of a user signed in one second are the same string, so that  *)
(* a token is the second of its signature; 0 is no token.  Every command   *)
(* to Redis is awaited, and a step.  Redis answers; refresh tokens, which  *)
(* last thirty days, do not expire here.                                   *)
(***************************************************************************)
EXTENDS Integers

CONSTANTS
    Calls,         \* the calls of POST /auth/refresh that may be under way
    AccessLife,    \* JWT_ACCESS_EXPIRES, in seconds (900 by default)
    BlacklistLife, \* the life of an entry of the blacklist (900, in the code)
    MaxSecond      \* bound: the clock stops there

ASSUME SessionsAssumption ==
    /\ AccessLife \in Nat \ {0}
    /\ BlacklistLife \in Nat \ {0}
    /\ MaxSecond \in Nat \ {0}

VARIABLES
    now,         \* the second of the server's clock
    stored,      \* refresh_token:<user> in Redis
    revokedAt,   \* jwt:blacklist:<user> in Redis
    revokedUntil, \* when that key expires
    refreshes,   \* [Calls -> Refresh], each POST /auth/refresh
    ended        \* whether the user has ended all sessions since the last login

redisVars  == <<stored, revokedAt, revokedUntil, ended>>
serverVars == <<now, redisVars, refreshes>>

Token   == 0..MaxSecond
NoToken == 0

\* presented is the cookie of the request, issued the new token of the answer.
\* A call that is refused has an answer, or an error in its place; one that
\* hangs never will.
Refresh == [stage: {"none", "sent", "checked", "deleted", "issued", "refused", "hung"},
            presented: Token, issued: Token]
NoRefresh == [stage |-> "none", presented |-> NoToken, issued |-> NoToken]

\* Wrong on purpose: a token of the second of the logout survives it.
RevokedBefore(token) == now < revokedUntil /\ token < revokedAt

\* The blacklist: tokens up to and including the second of the logout.
Revoked(token) == now < revokedUntil /\ token <= revokedAt

\* requireAuth: signature and expiry, then the blacklist.
Accepts(token) == token # NoToken /\ now < token + AccessLife /\ ~Revoked(token)

\* POST /auth/login and /auth/register: the refresh token replaces that of any
\* other device.
Login ==
    /\ stored' = now
    /\ ended' = FALSE
    /\ UNCHANGED <<now, revokedAt, revokedUntil, refreshes>>

(***************************************************************************)
(* POST /auth/refresh                                                      *)
(***************************************************************************)

RefreshAt(c, stage) == refreshes[c].stage = stage
AnyRefreshAt(stages) == \E c \in Calls : refreshes[c].stage \in stages

SendRefresh(c, cookie) ==
    refreshes' = [refreshes EXCEPT ![c] = [stage |-> "sent", presented |-> cookie,
                                           issued |-> NoToken]]

\* The token of the cookie has to be the one in Redis.
CheckRefresh(c) ==
    LET matches == refreshes[c].presented # NoToken /\ refreshes[c].presented = stored
    IN  /\ RefreshAt(c, "sent")
        /\ refreshes' = [refreshes EXCEPT ![c].stage = IF matches THEN "checked" ELSE "refused"]
        /\ UNCHANGED <<now, redisVars>>

\* Rotation: the old token goes, after the user has been loaded ...
DeleteOld(c) ==
    /\ RefreshAt(c, "checked")
    /\ stored' = NoToken
    /\ refreshes' = [refreshes EXCEPT ![c].stage = "deleted"]
    /\ UNCHANGED <<now, revokedAt, revokedUntil, ended>>

\* Wrong on purpose: the token that was presented is stored again.
StorePresented(c) == stored' = refreshes[c].presented

\* Wrong on purpose: the end of the token's life is kept for its second.
StoreExpiry(c) == stored' = now + AccessLife

StoreNow(c) == stored' = now

\* ... and, signed now, the new ones come.
StoreNew(c) ==
    /\ RefreshAt(c, "deleted")
    /\ StoreNow(c)
    /\ refreshes' = [refreshes EXCEPT ![c].stage = "issued", ![c].issued = now]
    /\ UNCHANGED <<now, revokedAt, revokedUntil, ended>>

(***************************************************************************)
(* POST /auth/logout and /auth/change-password                             *)
(***************************************************************************)

ForgetRefreshToken ==
    /\ stored' = NoToken
    /\ UNCHANGED <<now, revokedAt, revokedUntil, refreshes, ended>>

\* setex, for a time that does not follow the configured life of the tokens.
BlacklistTokens ==
    /\ revokedAt' = now
    /\ revokedUntil' = now + BlacklistLife
    /\ ended' = TRUE
    /\ UNCHANGED <<now, stored, refreshes>>

Tick ==
    /\ now < MaxSecond
    /\ now' = now + 1
    /\ UNCHANGED <<redisVars, refreshes>>

SessionsInit ==
    /\ now = 1
    /\ stored = NoToken
    /\ revokedAt = NoToken /\ revokedUntil = 0
    /\ refreshes = [c \in Calls |-> NoRefresh]
    /\ ended = FALSE

SessionsTypeOK ==
    /\ now \in 1..MaxSecond
    /\ stored \in Token /\ revokedAt \in Token
    /\ revokedUntil \in 0..(MaxSecond + BlacklistLife)
    /\ refreshes \in [Calls -> Refresh]
    /\ ended \in BOOLEAN
=============================================================================
