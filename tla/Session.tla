------------------------------- MODULE Session -------------------------------
(***************************************************************************)
(* Tokens: pkg/jwt/jwt.go, Refresh, Logout and VerifyAccessToken of        *)
(* internal/service/user_service.go, the Auth middleware, and the keys     *)
(* jwt:bl and user:ban of internal/cache/user_cache.go.                    *)
(*                                                                         *)
(* now is the clock.  A Redis key with a TTL is kept as the time at which  *)
(* it is gone.  A request takes one step per round trip; signing and       *)
(* parsing are local.  Token k stands for its JTI.                         *)
(***************************************************************************)
EXTENDS Integers, Sequences, FiniteSets

CONSTANTS
    Users,
    Bannable,       \* the users that may be banned
    Sessions,       \* sequence of the users whose tokens are new at the start
    Handlers,       \* request handlers
    AccessTTL, RefreshTTL,
    MaxTime,        \* bound on the clock
    MaxTokens,      \* bound on the tokens issued
    MaxRequests,    \* bound on the number of requests
    MaxFaults,      \* bound on failing commands and statements
    None

ASSUME SessionAssumption ==
    /\ Bannable \subseteq Users
    /\ Sessions \in Seq(Users)
    /\ 2 * Len(Sessions) <= MaxTokens
    /\ AccessTTL \in Nat /\ RefreshTTL \in Nat
    /\ MaxTime \in Nat /\ MaxTokens \in Nat
    /\ MaxRequests \in Nat /\ MaxFaults \in Nat

Tokens == 1..MaxTokens

VARIABLES
    now,
    token,      \* token[k]: the claims of token k
    issued,     \* number of tokens issued
    blacklist,  \* blacklist[k]: when jwt:bl:k is gone
    banned,     \* users with users.status and user:ban set
    pc,         \* pc[h]: the next step of handler h
    req,        \* req[h]: its request
    started,    \* number of requests begun
    faults,     \* number of failures so far
    loggedOut   \* history: tokens whose Logout has answered with success

tokenVars == <<token, issued, blacklist, banned, loggedOut>>
reqVars == <<pc, req, started>>
sessionVars == <<now, tokenVars, reqVars, faults>>

NoClaims == [user |-> None, exp |-> 0]

\* at is the time a step took from the clock, item what the request is about.
\* History: revoked, the token was logged out when the request began; unsure,
\* the blacklist could not be read or was read after the token had expired;
\* raced, see RateLimit.
NoRequest == [op |-> "none", token |-> 0, user |-> None, at |-> 0, item |-> 0,
              revoked |-> FALSE, unsure |-> FALSE, raced |-> FALSE]

Goto(h, step) == pc' = [pc EXCEPT ![h] = step] /\ UNCHANGED <<req, started>>
Return(h) ==
    /\ pc' = [pc EXCEPT ![h] = "idle"]
    /\ req' = [req EXCEPT ![h] = NoRequest]
    /\ UNCHANGED started

Fault == faults < MaxFaults /\ faults' = faults + 1

\* issue: the claims of a token.
Issue(u, ttl) == [user |-> u, exp |-> now + ttl]

\* issueTokenPair: an access token and a refresh token.
IssuePair(u) ==
    /\ issued + 2 <= MaxTokens
    /\ issued' = issued + 2
    /\ token' = [token EXCEPT ![issued + 1] = Issue(u, AccessTTL),
                              ![issued + 2] = Issue(u, RefreshTTL)]

Access == {k \in 1..issued : k % 2 = 1}
Refreshing == {k \in 1..issued : k % 2 = 0}

\* Parse, on a token the server has signed.
Parse(k) == now < token[k].exp

SessionInit ==
    /\ now = 0
    /\ token = [k \in Tokens |->
                  IF k > 2 * Len(Sessions) THEN NoClaims
                  ELSE [user |-> Sessions[(k + 1) \div 2],
                        exp |-> IF k % 2 = 1 THEN AccessTTL ELSE RefreshTTL]]
    /\ issued = 2 * Len(Sessions)
    /\ blacklist = [k \in Tokens |-> 0]
    /\ banned = {}
    /\ pc = [h \in Handlers |-> "idle"]
    /\ req = [h \in Handlers |-> NoRequest]
    /\ started = 0
    /\ faults = 0
    /\ loggedOut = {}

-----------------------------------------------------------------------------
(* Login, Refresh and bans *)

\* The end of Login, which Account describes.
LogIn(u) ==
    /\ u \notin banned
    /\ IssuePair(u)
    /\ UNCHANGED <<now, blacklist, banned, reqVars, faults, loggedOut>>

BeginRefresh(h, k) ==
    /\ pc[h] = "idle"
    /\ started < MaxRequests
    /\ Parse(k)
    /\ started' = started + 1
    /\ pc' = [pc EXCEPT ![h] = "findUser"]
    /\ req' = [req EXCEPT ![h] = [NoRequest EXCEPT !.op = "refresh", !.token = k]]
    /\ UNCHANGED <<now, tokenVars, faults>>

\* FindByID and IsBanned; the old refresh token stays valid.
RefreshPair(h) ==
    LET u == token[req[h].token].user
    IN  /\ pc[h] = "findUser"
        /\ IF u \in banned
             THEN UNCHANGED <<token, issued>>
             ELSE IssuePair(u)
        /\ Return(h)
        /\ UNCHANGED <<now, blacklist, banned, faults, loggedOut>>

RefreshFails(h) ==
    /\ Fault
    /\ pc[h] = "findUser"
    /\ Return(h)
    /\ UNCHANGED <<now, tokenVars>>

\* Done by an administrator.
Ban(u) ==
    /\ u \in Bannable \ banned
    /\ banned' = banned \cup {u}
    /\ UNCHANGED <<now, token, issued, blacklist, reqVars, faults, loggedOut>>

-----------------------------------------------------------------------------
(* Auth: VerifyAccessToken *)

\* A request with access token k that gets past Parse.
Begin(h, op, k, item) ==
    /\ pc[h] = "idle"
    /\ started < MaxRequests
    /\ Parse(k)
    /\ started' = started + 1
    /\ pc' = [pc EXCEPT ![h] = "blacklist"]
    /\ req' = [req EXCEPT ![h] = [NoRequest EXCEPT !.op = op, !.token = k, !.item = item,
                                                   !.revoked = k \in loggedOut]]
    /\ UNCHANGED <<now, tokenVars, faults>>

Blacklisted(k) == now < blacklist[k]

CheckBlacklist(h) ==
    LET k == req[h].token
    IN  /\ pc[h] = "blacklist"
        /\ IF Blacklisted(k)
             THEN Return(h)
             ELSE /\ pc' = [pc EXCEPT ![h] = "ban"]
                  /\ req' = [req EXCEPT ![h].unsure = ~Parse(k)]
                  /\ UNCHANGED started
        /\ UNCHANGED <<now, tokenVars, faults>>

\* An error lets the request through.
CheckBlacklistFails(h) ==
    /\ Fault
    /\ pc[h] = "blacklist"
    /\ pc' = [pc EXCEPT ![h] = "ban"]
    /\ req' = [req EXCEPT ![h].unsure = TRUE]
    /\ UNCHANGED <<started, now, tokenVars>>

\* c.Set(ctxKeyUserID, uid) and the next handler of the chain.
Authenticated(h) ==
    /\ pc' = [pc EXCEPT ![h] = "authed"]
    /\ req' = [req EXCEPT ![h].user = token[req[h].token].user]
    /\ UNCHANGED started

CheckBan(h) ==
    /\ pc[h] = "ban"
    /\ IF token[req[h].token].user \in banned THEN Return(h) ELSE Authenticated(h)
    /\ UNCHANGED <<now, tokenVars, faults>>

CheckBanFails(h) ==
    /\ Fault
    /\ pc[h] = "ban"
    /\ Authenticated(h)
    /\ UNCHANGED <<now, tokenVars>>

-----------------------------------------------------------------------------
(* Logout *)

\* Variant: the remaining lifetime is rounded down.
RemainingShort(k) == token[k].exp - now - 1

\* The remaining lifetime of the token.
Remaining(k) == token[k].exp - now

\* Logout parses the token once more; an expired one needs no blacklisting.
BeginLogout(h) ==
    LET k == req[h].token
    IN  /\ pc[h] = "authed"
        /\ req[h].op = "logout"
        /\ IF Parse(k)
             THEN /\ pc' = [pc EXCEPT ![h] = "revoke"]
                  /\ req' = [req EXCEPT ![h].at = Remaining(k)]
                  /\ UNCHANGED <<started, loggedOut>>
             ELSE Return(h) /\ loggedOut' = loggedOut \cup {k}
        /\ UNCHANGED <<now, token, issued, blacklist, banned, faults>>

\* SET jwt:bl with the remaining lifetime.
BlacklistJWT(h) ==
    LET k == req[h].token
    IN  /\ pc[h] = "revoke"
        /\ blacklist' = [blacklist EXCEPT ![k] = now + req[h].at]
        /\ loggedOut' = loggedOut \cup {k}
        /\ Return(h)
        /\ UNCHANGED <<now, token, issued, banned, faults>>

BlacklistJWTFails(h) ==
    /\ Fault
    /\ pc[h] = "revoke"
    /\ \/ UNCHANGED blacklist
       \/ blacklist' = [blacklist EXCEPT ![req[h].token] = now + req[h].at]
    /\ Return(h)
    /\ UNCHANGED <<now, token, issued, banned, loggedOut>>

-----------------------------------------------------------------------------

Tick ==
    /\ now < MaxTime
    /\ now' = now + 1
    /\ UNCHANGED <<tokenVars, reqVars, faults>>

SessionStep(h) ==
    \/ \E k \in Refreshing : BeginRefresh(h, k)
    \/ RefreshPair(h)
    \/ RefreshFails(h)
    \/ \E k \in Access : Begin(h, "logout", k, 0)
    \/ CheckBlacklist(h)
    \/ CheckBlacklistFails(h)
    \/ CheckBan(h)
    \/ CheckBanFails(h)
    \/ BeginLogout(h)
    \/ BlacklistJWT(h)
    \/ BlacklistJWTFails(h)

SessionNext ==
    \/ \E u \in Users : LogIn(u) \/ Ban(u)
    \/ \E h \in Handlers : SessionStep(h)
    \/ Tick

-----------------------------------------------------------------------------
(* Properties *)

\* user_service.go:253 and jwt.go:131-132, "to honour logout": a request that
\* begins after Logout has answered does not get past Auth with that token,
\* unless the blacklist could not be read (Auth fails open) or was read so late
\* that the token had expired meanwhile.
LogoutHolds ==
    \A h \in Handlers :
        pc[h] \notin {"idle", "blacklist", "findUser"} /\ req[h].revoked => req[h].unsure

=============================================================================
