---------------------------- MODULE UploadProofs ----------------------------
(***************************************************************************)
(* Proofs about Upload, and with it about Session and RateLimit, which it  *)
(* composes: for any number of users, request handlers, requests, tokens   *)
(* and faults, and any lifetimes, limit and window.                        *)
(***************************************************************************)
EXTENDS Upload, TLAPS, FiniteSetTheorems, SequenceTheorems

Ops == {"none", "refresh", "logout", "presign", "callback"}

Requests == [op : Ops, token : Nat, user : Users \cup {None}, at : Nat, item : Nat,
             revoked : BOOLEAN, unsure : BOOLEAN, raced : BOOLEAN]

Receipts == [user : Users \cup {None}, url : Nonces \cup {0}]

-----------------------------------------------------------------------------
(***************************************************************************)
(* Types and the state of a request.                                       *)
(***************************************************************************)

\* What step and request r of a handler can be, when iss tokens have been issued,
\* ans are the nonces answered and pre URLs are signed.
Fits(step, r, iss, ans, pre) ==
    /\ step \in Steps
    /\ r \in Requests
    /\ step # "idle" => r.token \in 1..iss
    /\ step \notin {"idle", "findUser", "blacklist", "ban"} => r.user \in Users
    /\ r.op = "callback" => r.item \in ans
    /\ step \in {"count", "record", "allowed", "save"} => r.op = "presign"
    /\ step = "save" => r.item \in 1..pre

FitInv ==
    /\ pc \in [Handlers -> Steps]
    /\ req \in [Handlers -> Requests]
    /\ \A h \in Handlers : Fits(pc[h], req[h], issued, answered, presigned)

\* The handlers that may still sign a URL.
Busy == {h \in Handlers : pc[h] \notin {"idle", "save"}}

\* One request signs one URL: there are never more URLs than requests, so every
\* object has its nonce.
BudgetInv ==
    /\ IsFiniteSet(Busy)
    /\ presigned + Cardinality(Busy) <= started

SessionData ==
    /\ now \in 0..MaxTime
    /\ token \in [Tokens -> [user : Users \cup {None}, exp : Nat]]
    /\ issued \in 0..MaxTokens
    /\ \A k \in 1..issued : token[k].user \in Users
    /\ blacklist \in [Tokens -> Nat]
    /\ banned \subseteq Bannable
    /\ started \in 0..MaxRequests
    /\ faults \in 0..MaxFaults
    /\ loggedOut \subseteq 1..issued

LimitData ==
    /\ slots \in [Users -> SUBSET Nat]
    /\ slotsUntil \in [Users -> Nat]
    /\ passed \in [Users -> SUBSET Nat]

UploadData ==
    /\ nonce \in [Nonces -> [user : Users \cup {None}, object : Nonces \cup {0}, until : Nat]]
    /\ signed \in [Nonces -> Nat]
    /\ presigned \in Nat
    /\ answered \subseteq 1..presigned
    /\ taken \subseteq answered
    /\ redeemed \in [Nonces -> Seq(Receipts)]

BaseInv == SessionData /\ LimitData /\ UploadData /\ FitInv /\ BudgetInv

\* A handler goes on to step with request r; the others stay where they are.
Moves(h, step, r) ==
    /\ pc' = [pc EXCEPT ![h] = step]
    /\ req' = [req EXCEPT ![h] = r]

\* What the assumptions say of the constants.
LEMMA SessionConstants ==
    /\ MaxTime \in Nat /\ MaxTokens \in Nat /\ MaxRequests \in Nat /\ MaxFaults \in Nat
    /\ AccessTTL \in Nat /\ RefreshTTL \in Nat /\ PresignTTL \in Nat \ {0}
    /\ Window \in Nat /\ Slack \in Nat /\ Limit \in Nat
    /\ Bannable \subseteq Users
    /\ NoRequest \in Requests
  BY SessionAssumption, RateLimitAssumption, UploadAssumption DEF NoRequest, Requests, Ops

\* The requests a handler begins with.
Begun(op, k, item, rev) ==
    [NoRequest EXCEPT !.op = op, !.token = k, !.item = item, !.revoked = rev]

BegunRefresh(k) == [NoRequest EXCEPT !.op = "refresh", !.token = k]

\* A request as Begin writes it.
LEMMA NewRequest ==
    ASSUME NEW op \in Ops, NEW k \in Nat, NEW item \in Nat, NEW rev \in BOOLEAN
    PROVE  LET r == Begun(op, k, item, rev)
           IN  /\ r \in Requests
               /\ r.op = op /\ r.token = k /\ r.item = item /\ r.revoked = rev
  <1>1. NoRequest \in Requests
    BY SessionConstants
  <1> DEFINE r1 == [NoRequest EXCEPT !.op = op]
  <1> DEFINE r2 == [r1 EXCEPT !.token = k]
  <1> DEFINE r3 == [r2 EXCEPT !.item = item]
  <1>2. r1 \in Requests /\ r1.op = op /\ r1.item = 0 /\ r1.revoked = FALSE
    BY <1>1 DEF Requests, NoRequest
  <1>3. r2 \in Requests /\ r2.op = op /\ r2.token = k /\ r2.item = 0 /\ r2.revoked = FALSE
    <2> HIDE DEF r1
    <2>1. QED
      BY <1>2 DEF Requests
  <1>4. r3 \in Requests /\ r3.op = op /\ r3.token = k /\ r3.item = item
    <2> HIDE DEF r2
    <2>1. QED
      BY <1>3 DEF Requests
  <1>5. QED
    <2>1. Begun(op, k, item, rev) = [r3 EXCEPT !.revoked = rev]
      BY DEF Begun
    <2> HIDE DEF r3
    <2>2. QED
      BY <1>4, <2>1 DEF Requests

\* A request as BeginRefresh writes it.
LEMMA NewRefresh ==
    ASSUME NEW k \in Nat
    PROVE  LET r == BegunRefresh(k)
           IN  r \in Requests /\ r.op = "refresh" /\ r.token = k /\ r.revoked = FALSE
  <1> DEFINE r1 == [NoRequest EXCEPT !.op = "refresh"]
  <1>1. r1 \in Requests /\ r1.op = "refresh" /\ r1.revoked = FALSE
    BY SessionConstants DEF Requests, NoRequest, Ops
  <1>2. BegunRefresh(k) = [r1 EXCEPT !.token = k]
    BY DEF BegunRefresh
  <1> HIDE DEF r1
  <1>3. QED
    BY <1>1, <1>2 DEF Requests

\* How a step of one handler changes the number of those that may still sign.
LEMMA BudgetMoves ==
    ASSUME FitInv, BudgetInv, presigned \in Nat, started \in Nat,
           NEW h \in Handlers, NEW step, NEW r, Moves(h, step, r),
           \/ /\ pc[h] \notin {"idle", "save"} /\ step \notin {"idle", "save"}
              /\ UNCHANGED <<started, presigned>>
           \/ step = "idle" /\ UNCHANGED <<started, presigned>>
           \/ /\ pc[h] = "idle" /\ step \notin {"idle", "save"}
              /\ started' = started + 1 /\ presigned' = presigned
           \/ /\ pc[h] \notin {"idle", "save"} /\ step = "save"
              /\ started' = started /\ presigned' = presigned + 1
    PROVE  BudgetInv'
  <1>1. /\ IsFiniteSet(Busy) /\ Cardinality(Busy) \in Nat
        /\ presigned + Cardinality(Busy) <= started
    BY FS_CardinalityType DEF BudgetInv
  <1>2. /\ pc'[h] = step
        /\ \A g \in Handlers : g # h => pc'[g] = pc[g]
    BY DEF Moves, FitInv
  <1>3. CASE step \in {"idle", "save"}
    <2>1. Busy' = Busy \ {h}
      BY <1>2, <1>3 DEF Busy
    <2>2. /\ IsFiniteSet(Busy') /\ Cardinality(Busy') \in Nat
          /\ Cardinality(Busy') = IF h \in Busy THEN Cardinality(Busy) - 1 ELSE Cardinality(Busy)
      BY <1>1, <2>1, FS_RemoveElement, FS_CardinalityType
    <2>3. step = "save" => h \in Busy
      BY DEF Busy
    <2>4. presigned' + Cardinality(Busy') <= started'
      BY <1>1, <1>3, <2>2, <2>3
    <2>5. QED
      BY <2>2, <2>4 DEF BudgetInv
  <1>4. CASE step \notin {"idle", "save"}
    <2>1. Busy' = Busy \cup {h}
      BY <1>2, <1>4 DEF Busy
    <2>2. /\ IsFiniteSet(Busy') /\ Cardinality(Busy') \in Nat
          /\ Cardinality(Busy') = IF h \in Busy THEN Cardinality(Busy) ELSE Cardinality(Busy) + 1
      BY <1>1, <2>1, FS_AddElement, FS_CardinalityType
    <2>3. pc[h] \notin {"idle", "save"} => h \in Busy
      BY DEF Busy
    <2>4. presigned' + Cardinality(Busy') <= started'
      BY <1>1, <1>4, <2>2, <2>3
    <2>5. QED
      BY <2>2, <2>4 DEF BudgetInv
  <1>5. QED
    BY <1>3, <1>4

\* A move to a fitting request keeps every request fitting: tokens and answers
\* are never taken back.
LEMMA FitMoves ==
    ASSUME FitInv, NEW h \in Handlers, NEW step, NEW r, Moves(h, step, r),
           issued \in Nat, issued' \in Nat, issued <= issued',
           presigned \in Nat, presigned' \in Nat, presigned <= presigned',
           answered \subseteq answered',
           Fits(step, r, issued', answered', presigned')
    PROVE  FitInv'
  <1>1. /\ pc' \in [Handlers -> Steps] /\ req' \in [Handlers -> Requests]
        /\ pc'[h] = step /\ req'[h] = r
        /\ \A g \in Handlers : g # h => pc'[g] = pc[g] /\ req'[g] = req[g]
    BY DEF Moves, FitInv, Fits
  <1>2. 1..issued \subseteq 1..issued' /\ 1..presigned \subseteq 1..presigned'
    OBVIOUS
  <1>3. ASSUME NEW g \in Handlers, g # h
        PROVE  Fits(pc'[g], req'[g], issued', answered', presigned')
    <2>1. Fits(pc[g], req[g], issued, answered, presigned)
      BY DEF FitInv
    <2>2. QED
      BY <1>1, <1>2, <1>3, <2>1 DEF Fits
  <1>4. QED
    BY <1>1, <1>3 DEF FitInv

\* Initially nobody has asked for anything.
LEMMA BaseInit == Init => BaseInv
  <1> SUFFICES ASSUME Init PROVE BaseInv
    OBVIOUS
  <1> USE SessionConstants DEF Init, SessionInit, LimitInit
  <1>1. SessionData
    <2>1. Len(Sessions) \in Nat /\ 2 * Len(Sessions) <= MaxTokens /\ Sessions \in Seq(Users)
      BY SessionAssumption
    <2>2. ASSUME NEW k \in Tokens, ~(k > 2 * Len(Sessions))
          PROVE  Sessions[(k + 1) \div 2] \in Users
      <3>1. (k + 1) \div 2 \in 1..Len(Sessions)
        BY <2>1, <2>2 DEF Tokens
      <3>2. QED
        BY <2>1, <3>1
    <2>3. token \in [Tokens -> [user : Users \cup {None}, exp : Nat]]
      BY <2>1, <2>2 DEF NoClaims, Tokens
    <2>4. issued \in 0..MaxTokens
      BY <2>1
    <2>5. \A k \in 1..issued : token[k].user \in Users
      BY <2>1, <2>2, <2>4 DEF Tokens
    <2>6. QED
      BY <2>3, <2>4, <2>5 DEF SessionData
  <1>2. LimitData
    BY DEF LimitData
  <1>3. UploadData
    BY DEF UploadData, NoNonce
  <1>4. FitInv
    BY DEF FitInv, Fits, Steps, NoRequest
  <1>5. BudgetInv
    <2>1. Busy = {}
      BY DEF Busy
    <2>2. QED
      BY <2>1, FS_EmptySet DEF BudgetInv
  <1>6. QED
    BY <1>1, <1>2, <1>3, <1>4, <1>5 DEF BaseInv

\* Issuing a pair of tokens leaves the tokens already issued alone.
LEMMA PairIssued ==
    ASSUME BaseInv, NEW u \in Users, IssuePair(u)
    PROVE  /\ token' \in [Tokens -> [user : Users \cup {None}, exp : Nat]]
           /\ issued' \in 0..MaxTokens
           /\ issued <= issued'
           /\ \A k \in 1..issued' : token'[k].user \in Users
           /\ \A k \in 1..issued : token'[k] = token[k]
           /\ 1..issued \subseteq 1..issued' /\ 1..issued' \subseteq Tokens
  <1>1. /\ now \in Nat /\ issued \in 0..MaxTokens
        /\ token \in [Tokens -> [user : Users \cup {None}, exp : Nat]]
        /\ \A k \in 1..issued : token[k].user \in Users
    BY SessionConstants DEF BaseInv, SessionData
  <1>2. /\ issued' = issued + 2 /\ issued + 2 <= MaxTokens
        /\ token' = [token EXCEPT ![issued + 1] = Issue(u, AccessTTL),
                                  ![issued + 2] = Issue(u, RefreshTTL)]
    BY DEF IssuePair
  <1>3. Issue(u, AccessTTL) \in [user : Users \cup {None}, exp : Nat]
        /\ Issue(u, RefreshTTL) \in [user : Users \cup {None}, exp : Nat]
        /\ Issue(u, AccessTTL).user = u /\ Issue(u, RefreshTTL).user = u
    BY <1>1, SessionConstants DEF Issue
  <1>4. issued + 1 \in Tokens /\ issued + 2 \in Tokens
    BY <1>1, <1>2, SessionConstants DEF Tokens
  <1>5. \A k \in 1..issued' : k \in 1..issued \/ k = issued + 1 \/ k = issued + 2
    BY <1>1, <1>2
  <1>6. \A k \in 1..issued : k \in Tokens /\ k # issued + 1 /\ k # issued + 2
    BY <1>1, SessionConstants DEF Tokens
  <1>7. token' \in [Tokens -> [user : Users \cup {None}, exp : Nat]]
    BY <1>1, <1>2, <1>3, <1>4
  <1>8. \A k \in 1..issued : token'[k] = token[k]
    BY <1>1, <1>2, <1>6
  <1>9. token'[issued + 1].user = u /\ token'[issued + 2].user = u
    BY <1>1, <1>2, <1>3, <1>4
  <1>10. \A k \in 1..issued' : token'[k].user \in Users
    BY <1>1, <1>5, <1>8, <1>9
  <1>11. /\ issued' \in 0..MaxTokens /\ issued <= issued'
         /\ 1..issued \subseteq 1..issued' /\ 1..issued' \subseteq Tokens
    BY <1>1, <1>2, SessionConstants DEF Tokens
  <1>12. QED
    BY <1>7, <1>8, <1>10, <1>11

\* A step of one handler that signs nothing.
LEMMA BaseMoves ==
    ASSUME BaseInv, NEW h \in Handlers, NEW step, NEW r, Moves(h, step, r),
           SessionData', LimitData', UploadData', issued <= issued',
           answered \subseteq answered', presigned' = presigned,
           Fits(step, r, issued', answered', presigned),
           \/ step = "idle" /\ UNCHANGED started
           \/ pc[h] \notin {"idle", "save"} /\ step # "save" /\ UNCHANGED started
           \/ pc[h] = "idle" /\ step \notin {"idle", "save"} /\ started' = started + 1
    PROVE  BaseInv'
  <1>1. presigned \in Nat /\ started \in Nat /\ issued \in Nat /\ issued' \in Nat
    BY SessionConstants DEF BaseInv, SessionData, UploadData
  <1>2. FitInv'
    BY <1>1, FitMoves DEF BaseInv
  <1>3. BudgetInv'
    BY <1>1, BudgetMoves DEF BaseInv
  <1>4. QED
    BY <1>2, <1>3 DEF BaseInv

\* A handler returns.
LEMMA BaseReturn ==
    ASSUME BaseInv, NEW h \in Handlers, Return(h),
           SessionData', LimitData', UploadData', issued <= issued',
           answered \subseteq answered', presigned' = presigned
    PROVE  BaseInv'
  <1>1. Moves(h, "idle", NoRequest) /\ UNCHANGED started
    BY DEF Return, Moves
  <1>2. Fits("idle", NoRequest, issued', answered', presigned)
    BY SessionConstants DEF Fits, Steps, NoRequest
  <1>3. QED
    BY <1>1, <1>2, BaseMoves

\* A handler begins a request that goes through Auth.
LEMMA BaseBegin ==
    ASSUME BaseInv, NEW h \in Handlers, NEW k \in 1..issued, NEW op \in Ops, NEW item \in Nat,
           op = "callback" => item \in answered,
           Begin(h, op, k, item), UNCHANGED <<limitVars, uploadVars>>
    PROVE  BaseInv'
  <1>1. PICK rev \in BOOLEAN : rev = (k \in loggedOut)
    <2>1. (k \in loggedOut) \in BOOLEAN
      OBVIOUS
    <2>2. QED
      BY <2>1, Zenon
  <1>2. /\ Moves(h, "blacklist", Begun(op, k, item, rev))
        /\ started' = started + 1 /\ pc[h] = "idle"
    BY <1>1 DEF Begin, Moves, Begun
  <1>3. SessionData' /\ issued' = issued /\ issued \in Nat
    BY SessionConstants DEF Begin, BaseInv, SessionData, tokenVars
  <1>4. LimitData' /\ UploadData' /\ UNCHANGED <<answered, presigned>>
    BY DEF BaseInv, LimitData, UploadData, limitVars, uploadVars
  <1>5. Fits("blacklist", Begun(op, k, item, rev), issued', answered', presigned)
    <2>1. k \in Nat
      BY <1>3
    <2>2. QED
      BY <1>3, <1>4, <2>1, NewRequest DEF Fits, Steps
  <1>6. QED
    BY <1>2, <1>3, <1>4, <1>5, BaseMoves

\* The steps of a request in Session, the end of Login, bans and the clock.
LEMMA SessionBase ==
    ASSUME BaseInv, SessionNext, UNCHANGED <<limitVars, uploadVars>>
    PROVE  BaseInv'
  <1> USE SessionConstants
  <1>1. LimitData' /\ UploadData' /\ UNCHANGED <<answered, presigned>>
    BY DEF BaseInv, LimitData, UploadData, limitVars, uploadVars
  <1>2. presigned \in Nat /\ started \in Nat /\ issued \in Nat
    BY DEF BaseInv, SessionData, UploadData
  <1>3. ASSUME NEW u \in Users, LogIn(u) \/ Ban(u)
        PROVE  BaseInv'
    <2>1. SessionData' /\ issued' \in Nat /\ issued <= issued'
      <3>1. CASE LogIn(u)
        <4>1. UNCHANGED <<now, blacklist, banned, started, faults, loggedOut>> /\ IssuePair(u)
          BY <3>1 DEF LogIn, reqVars
        <4>2. QED
          BY <4>1, PairIssued DEF BaseInv, SessionData
      <3>2. CASE Ban(u)
        BY <1>2, <3>2 DEF Ban, BaseInv, SessionData, reqVars
      <3>3. QED
        BY <1>3, <3>1, <3>2
    <2>2. 1..issued \subseteq 1..issued'
      BY <1>2, <2>1
    <2>3. UNCHANGED <<pc, req, started>>
      BY <1>3 DEF LogIn, Ban, reqVars
    <2>4. FitInv'
      BY <1>1, <2>2, <2>3 DEF BaseInv, FitInv, Fits
    <2>5. BudgetInv'
      BY <1>1, <2>3 DEF BaseInv, BudgetInv, Busy
    <2>6. QED
      BY <1>1, <2>1, <2>4, <2>5 DEF BaseInv
  <1>4. CASE Tick
    <2>1. SessionData'
      BY <1>4 DEF Tick, BaseInv, SessionData, tokenVars, reqVars
    <2>2. FitInv' /\ BudgetInv'
      BY <1>1, <1>4 DEF Tick, BaseInv, FitInv, BudgetInv, Busy, tokenVars, reqVars
    <2>3. QED
      BY <1>1, <2>1, <2>2 DEF BaseInv
  <1>5. ASSUME NEW h \in Handlers, SessionStep(h)
        PROVE  BaseInv'
    <2>1. /\ Fits(pc[h], req[h], issued, answered, presigned)
          /\ req[h] \in Requests /\ pc[h] \in Steps
      BY DEF BaseInv, FitInv
    <2>2. ASSUME NEW step, NEW r, Moves(h, step, r), SessionData', issued <= issued',
                 Fits(step, r, issued', answered, presigned),
                 \/ /\ pc[h] \notin {"idle", "save"} /\ step # "save"
                    /\ UNCHANGED started
                 \/ /\ pc[h] = "idle" /\ step \notin {"idle", "save"}
                    /\ started' = started + 1
          PROVE  BaseInv'
      BY <1>1, <2>2, BaseMoves
    <2>3. ASSUME NEW k \in 1..issued, Begin(h, "logout", k, 0)
          PROVE  BaseInv'
      BY <2>3, BaseBegin DEF Ops
    <2>4. ASSUME NEW k \in 1..issued, BeginRefresh(h, k)
          PROVE  BaseInv'
      <3>1. Moves(h, "findUser", BegunRefresh(k)) /\ started' = started + 1 /\ pc[h] = "idle"
        BY <2>4 DEF BeginRefresh, Moves, BegunRefresh
      <3>2. SessionData' /\ issued' = issued
        BY <2>4 DEF BeginRefresh, BaseInv, SessionData, tokenVars
      <3>3. Fits("findUser", BegunRefresh(k), issued', answered, presigned)
        <4>1. k \in Nat
          BY <1>2
        <4>2. QED
          BY <3>2, <4>1, NewRefresh DEF Fits, Steps
      <3>4. QED
        BY <1>2, <2>2, <3>1, <3>2, <3>3
    <2>5. ASSUME Return(h), SessionData', issued <= issued'
          PROVE  BaseInv'
      BY <1>1, <2>5, BaseReturn
    <2>6. CASE RefreshPair(h)
      <3>1. req[h].token \in 1..issued
        BY <2>1, <2>6 DEF RefreshPair, Fits
      <3>2. token[req[h].token].user \in Users
        BY <3>1 DEF BaseInv, SessionData
      <3>3. SessionData' /\ issued <= issued'
        BY <1>2, <2>6, <3>2, PairIssued DEF RefreshPair, Return, BaseInv, SessionData
      <3>4. QED
        BY <2>5, <2>6, <3>3 DEF RefreshPair
    <2>7. CASE RefreshFails(h)
      <3>1. SessionData' /\ issued <= issued'
        BY <1>2, <2>7 DEF RefreshFails, Return, Fault, BaseInv, SessionData, tokenVars
      <3>2. QED
        BY <2>5, <2>7, <3>1 DEF RefreshFails
    <2>8. ASSUME UNCHANGED <<now, tokenVars, started>>, Fault \/ UNCHANGED faults
          PROVE  SessionData' /\ issued <= issued' /\ issued' = issued
      BY <1>2, <2>8 DEF Fault, BaseInv, SessionData, tokenVars
    <2>9. ASSUME pc[h] = "blacklist", UNCHANGED <<now, tokenVars, started>>, Fault \/ UNCHANGED faults,
                 NEW x \in BOOLEAN, Moves(h, "ban", [req[h] EXCEPT !.unsure = x])
          PROVE  BaseInv'
      <3>1. Fits("ban", [req[h] EXCEPT !.unsure = x], issued', answered, presigned)
        BY <2>1, <2>8, <2>9 DEF Fits, Steps, Requests
      <3>2. QED
        BY <2>2, <2>8, <2>9, <3>1
    <2>10. CASE CheckBlacklist(h) \/ CheckBlacklistFails(h)
      <3>1. pc[h] = "blacklist" /\ UNCHANGED <<now, tokenVars, started>> /\ (Fault \/ UNCHANGED faults)
        BY <2>10 DEF CheckBlacklist, CheckBlacklistFails, Return
      <3>2. CASE Return(h)
        BY <2>5, <2>8, <3>1, <3>2
      <3>3. CASE ~Return(h)
        <4>1. PICK x \in BOOLEAN : pc' = [pc EXCEPT ![h] = "ban"] /\ req' = [req EXCEPT ![h].unsure = x]
          BY <2>10, <3>3 DEF CheckBlacklist, CheckBlacklistFails
        <4>2. Moves(h, "ban", [req[h] EXCEPT !.unsure = x])
          BY <4>1 DEF Moves
        <4>3. QED
          BY <2>9, <3>1, <4>2
      <3>4. QED
        BY <3>2, <3>3
    <2>11. CASE CheckBan(h) \/ CheckBanFails(h)
      <3>1. pc[h] = "ban" /\ UNCHANGED <<now, tokenVars, started>> /\ (Fault \/ UNCHANGED faults)
        BY <2>11 DEF CheckBan, CheckBanFails, Return, Authenticated
      <3>2. CASE Return(h)
        BY <2>5, <2>8, <3>1, <3>2
      <3>3. CASE Authenticated(h)
        <4> DEFINE r == [req[h] EXCEPT !.user = token[req[h].token].user]
        <4>1. Moves(h, "authed", r)
          BY <3>3 DEF Authenticated, Moves
        <4>2. token[req[h].token].user \in Users
          BY <2>1, <3>1 DEF Fits, BaseInv, SessionData
        <4>3. Fits("authed", r, issued', answered, presigned)
          BY <2>1, <2>8, <3>1, <4>2 DEF Fits, Steps, Requests
        <4>4. QED
          BY <2>2, <2>8, <3>1, <4>1, <4>3
      <3>4. QED
        BY <2>11, <3>2, <3>3 DEF CheckBan, CheckBanFails
    <2>12. CASE BeginLogout(h)
      <3>1. pc[h] = "authed" /\ req[h].token \in 1..issued /\ req[h].token \in Tokens
        BY <2>1, <2>12 DEF BeginLogout, Fits, BaseInv, SessionData, Tokens
      <3>2. SessionData' /\ issued' = issued /\ issued <= issued'
        BY <1>2, <2>12, <3>1 DEF BeginLogout, Return, BaseInv, SessionData
      <3>3. CASE Return(h)
        BY <2>5, <3>1, <3>2, <3>3
      <3>4. CASE ~Return(h)
        <4> DEFINE r == [req[h] EXCEPT !.at = Remaining(req[h].token)]
        <4>1. /\ Parse(req[h].token) /\ UNCHANGED started
              /\ pc' = [pc EXCEPT ![h] = "revoke"]
              /\ req' = [req EXCEPT ![h].at = Remaining(req[h].token)]
          BY <2>12, <3>4 DEF BeginLogout
        <4>2. Remaining(req[h].token) \in Nat
          BY <3>1, <4>1 DEF Parse, Remaining, BaseInv, SessionData
        <4>3. Moves(h, "revoke", r)
          BY <4>1 DEF Moves
        <4>4. Fits("revoke", r, issued', answered, presigned)
          BY <2>1, <3>1, <3>2, <4>2 DEF Fits, Steps, Requests
        <4>5. QED
          BY <2>2, <3>1, <3>2, <4>1, <4>3, <4>4
      <3>5. QED
        BY <3>3, <3>4
    <2>13. CASE BlacklistJWT(h) \/ BlacklistJWTFails(h)
      <3>1. pc[h] = "revoke" /\ Return(h)
        BY <2>13 DEF BlacklistJWT, BlacklistJWTFails
      <3>2. req[h].token \in 1..issued /\ req[h].at \in Nat
        BY <2>1, <3>1 DEF Fits, Requests
      <3>3. SessionData' /\ issued <= issued'
        <4>1. now + req[h].at \in Nat
          BY <3>2 DEF BaseInv, SessionData
        <4>2. blacklist' \in [Tokens -> Nat] /\ loggedOut' \subseteq 1..issued
          BY <2>13, <3>2, <4>1 DEF BlacklistJWT, BlacklistJWTFails, BaseInv, SessionData
        <4>3. UNCHANGED <<now, token, issued, banned, started>> /\ faults' \in 0..MaxFaults
          BY <2>13 DEF BlacklistJWT, BlacklistJWTFails, Return, Fault, BaseInv, SessionData
        <4>4. QED
          BY <1>2, <4>2, <4>3 DEF BaseInv, SessionData
      <3>4. QED
        BY <2>5, <3>1, <3>3
    <2>14. QED
      BY <1>2, <1>5, <2>3, <2>4, <2>6, <2>7, <2>10, <2>11, <2>12, <2>13
         DEF SessionStep, Access, Refreshing, Ops
  <1>6. QED
    BY <1>3, <1>4, <1>5 DEF SessionNext

\* The steps of a request in the limiter.
LEMMA LimitBase ==
    ASSUME BaseInv, NEW h \in Handlers, LimitStep(h), UNCHANGED uploadVars
    PROVE  BaseInv'
  <1> USE SessionConstants
  <1>1. UploadData' /\ UNCHANGED <<answered, presigned>>
    BY DEF BaseInv, UploadData, uploadVars
  <1>2. /\ UNCHANGED <<now, tokenVars, started>> /\ (Fault \/ UNCHANGED faults)
    BY DEF LimitStep, EnterLimiter, CountWindow, RecordSlot, LimiterFails, Return, Goto
  <1>3. SessionData' /\ issued' = issued /\ issued \in Nat
    BY <1>2 DEF Fault, BaseInv, SessionData, tokenVars
  <1>4. /\ Fits(pc[h], req[h], issued, answered, presigned)
        /\ req[h] \in Requests /\ pc[h] \in {"authed", "count", "record"}
        /\ req[h].user \in Users /\ req[h].at \in Nat
    BY DEF LimitStep, EnterLimiter, CountWindow, RecordSlot, LimiterFails, BaseInv, FitInv, Fits, Requests
  <1>5. ASSUME NEW u \in Users
        PROVE  /\ Slots(u) \subseteq Nat
               /\ now + Window + Slack \in Nat
    BY DEF Slots, BaseInv, LimitData, SessionData
  <1>6. CASE EnterLimiter(h)
    <2>1. LimitData' /\ pc[h] = "authed" /\ req[h].op = "presign" /\ now \in Nat
      <3>1. UNCHANGED limitVars /\ pc[h] = "authed" /\ req[h].op = "presign"
        BY <1>6 DEF EnterLimiter
      <3>2. now \in Nat
        BY DEF BaseInv, SessionData
      <3>3. QED
        BY <3>1, <3>2 DEF BaseInv, LimitData, limitVars
    <2> DEFINE others == InLimiter(req[h].user)
    <2>2. PICK b \in BOOLEAN : b = (others # {})
      <3>1. (others # {}) \in BOOLEAN
        OBVIOUS
      <3>2. QED
        BY <3>1, Zenon
    <2> DEFINE r1 == [req[h] EXCEPT !.at = now]
    <2>3. /\ pc'[h] = "count" /\ req'[h] = [r1 EXCEPT !.raced = b]
          /\ \A g \in Handlers : g # h =>
                /\ pc'[g] = pc[g]
                /\ req'[g] = req[g] \/ req'[g] = [req[g] EXCEPT !.raced = TRUE]
          /\ pc' \in [Handlers -> Steps]
          /\ req' = [g \in Handlers |-> req'[g]]
      BY <1>6, <2>2 DEF EnterLimiter, BaseInv, FitInv, Steps
    <2>4. /\ r1 \in Requests /\ r1.token = req[h].token /\ r1.user = req[h].user
          /\ r1.op = "presign"
      BY <1>4, <2>1 DEF Requests
    <2>5. Fits(pc'[h], req'[h], issued, answered, presigned)
      <3> HIDE DEF r1
      <3>1. /\ [r1 EXCEPT !.raced = b] \in Requests /\ [r1 EXCEPT !.raced = b].op = "presign"
            /\ [r1 EXCEPT !.raced = b].token = r1.token /\ [r1 EXCEPT !.raced = b].user = r1.user
        BY <2>4 DEF Requests
      <3>2. QED
        BY <1>4, <2>1, <2>3, <2>4, <3>1 DEF Fits, Steps
    <2>6. ASSUME NEW g \in Handlers, g # h
          PROVE  Fits(pc'[g], req'[g], issued, answered, presigned)
      <3>1. Fits(pc[g], req[g], issued, answered, presigned) /\ req[g] \in Requests
        BY DEF BaseInv, FitInv
      <3> DEFINE r == [req[g] EXCEPT !.raced = TRUE]
      <3>2. r \in Requests /\ r.op = req[g].op /\ r.token = req[g].token /\ r.user = req[g].user
            /\ r.item = req[g].item
        BY <3>1 DEF Requests
      <3> HIDE DEF r
      <3>3. QED
        BY <2>3, <2>6, <3>1, <3>2 DEF Fits, r
    <2>7. FitInv'
      <3>1. \A g \in Handlers : Fits(pc'[g], req'[g], issued, answered, presigned)
        BY <2>5, <2>6
      <3>2. \A g \in Handlers : req'[g] \in Requests
        BY <3>1 DEF Fits
      <3>3. QED
        BY <1>1, <1>3, <2>3, <3>1, <3>2 DEF FitInv
    <2>8. BudgetInv'
      <3>1. Busy' = Busy
        BY <2>1, <2>3 DEF Busy
      <3>2. QED
        BY <1>1, <1>2, <3>1 DEF BaseInv, BudgetInv
    <2>9. QED
      BY <1>1, <1>3, <2>1, <2>7, <2>8 DEF BaseInv
  <1>7. CASE CountWindow(h)
    <2>1. LimitData'
      BY <1>4, <1>5, <1>7 DEF CountWindow, BaseInv, LimitData
    <2>2. CASE Return(h)
      BY <1>1, <1>3, <2>1, <2>2, BaseReturn
    <2>3. CASE ~Return(h)
      <3>1. PICK b \in BOOLEAN : b = (req[h].raced \/ now > req[h].at + Slack)
        <4>1. (req[h].raced \/ now > req[h].at + Slack) \in BOOLEAN
          OBVIOUS
        <4>2. QED
          BY <4>1, Zenon
      <3>2. Moves(h, "record", [req[h] EXCEPT !.raced = b]) /\ pc[h] = "count"
        BY <1>7, <2>3, <3>1 DEF CountWindow, Moves
      <3>3. Fits("record", [req[h] EXCEPT !.raced = b], issued', answered', presigned)
        BY <1>1, <1>3, <1>4, <3>2 DEF Fits, Steps, Requests
      <3>4. QED
        BY <1>1, <1>2, <1>3, <2>1, <3>2, <3>3, BaseMoves
    <2>4. QED
      BY <2>2, <2>3
  <1>8. CASE RecordSlot(h) \/ LimiterFails(h)
    <2>1. LimitData'
      BY <1>4, <1>5, <1>8 DEF RecordSlot, LimiterFails, Record, BaseInv, LimitData
    <2>2. Moves(h, "allowed", req[h]) /\ pc[h] \in {"count", "record"}
      BY <1>8 DEF RecordSlot, LimiterFails, Goto, Moves, BaseInv, FitInv
    <2>3. Fits("allowed", req[h], issued', answered', presigned)
      BY <1>1, <1>3, <1>4, <2>2 DEF Fits, Steps
    <2>4. QED
      BY <1>1, <1>2, <1>3, <2>1, <2>2, <2>3, BaseMoves
  <1>9. QED
    BY <1>6, <1>7, <1>8 DEF LimitStep

\* Never more URLs than requests.
LEMMA PresignedBound ==
    ASSUME BaseInv
    PROVE  /\ 1..presigned \subseteq Nonces /\ presigned \in 0..MaxRequests
           /\ \A h \in Handlers : pc[h] = "allowed" => presigned + 1 \in Nonces
  <1>1. /\ presigned \in Nat /\ started \in Nat /\ started <= MaxRequests /\ MaxRequests \in Nat
        /\ IsFiniteSet(Busy) /\ Cardinality(Busy) \in Nat
        /\ presigned + Cardinality(Busy) <= started
    BY SessionConstants, FS_CardinalityType DEF BaseInv, SessionData, UploadData, BudgetInv
  <1>2. \A h \in Handlers : pc[h] = "allowed" => Cardinality(Busy) # 0
    BY <1>1, FS_EmptySet DEF Busy
  <1>3. QED
    BY <1>1, <1>2 DEF Nonces

\* The steps of Presign and Callback.
LEMMA UploadBase ==
    ASSUME BaseInv, NEW h \in Handlers, UploadStep(h)
    PROVE  BaseInv'
  <1> USE SessionConstants
  <1>1. /\ UNCHANGED <<now, tokenVars, limitVars, started>> /\ (Fault \/ UNCHANGED faults)
    BY DEF UploadStep, SignUrl, SaveNonce, SaveNonceFails, Callback, CallbackFails, Return
  <1>2. SessionData' /\ LimitData' /\ issued' = issued /\ issued \in Nat /\ issued <= issued'
    BY <1>1 DEF Fault, BaseInv, SessionData, LimitData, tokenVars, limitVars
  <1>3. /\ Fits(pc[h], req[h], issued, answered, presigned)
        /\ req[h] \in Requests /\ req[h].user \in Users /\ pc[h] \in {"allowed", "save", "authed"}
    BY DEF UploadStep, SignUrl, SaveNonce, SaveNonceFails, Callback, CallbackFails,
           BaseInv, FitInv, Fits
  <1>4. /\ nonce \in [Nonces -> [user : Users \cup {None}, object : Nonces \cup {0}, until : Nat]]
        /\ signed \in [Nonces -> Nat] /\ presigned \in Nat
        /\ answered \subseteq 1..presigned /\ taken \subseteq answered
        /\ redeemed \in [Nonces -> Seq(Receipts)]
        /\ now \in Nat /\ now + PresignTTL \in Nat /\ started \in Nat
    BY DEF BaseInv, UploadData, SessionData
  <1>5. CASE SignUrl(h)
    <2>1. pc[h] = "allowed" /\ UNCHANGED <<nonce, answered, taken, redeemed>>
      BY <1>5 DEF SignUrl
    <2>2. CASE Return(h) /\ UNCHANGED <<signed, presigned>>
      <3>1. UploadData'
        BY <2>1, <2>2 DEF BaseInv, UploadData
      <3>2. QED
        BY <1>2, <2>1, <2>2, <3>1, BaseReturn
    <2>3. CASE ~(Return(h) /\ UNCHANGED <<signed, presigned>>)
      <3> DEFINE r == [req[h] EXCEPT !.item = presigned + 1]
      <3>1. /\ presigned' = presigned + 1
            /\ signed' = [signed EXCEPT ![presigned + 1] = now + PresignTTL]
            /\ pc' = [pc EXCEPT ![h] = "save"]
            /\ req' = [req EXCEPT ![h].item = presigned + 1]
        BY <1>5, <2>3 DEF SignUrl
      <3>0. presigned + 1 \in Nat /\ presigned + 1 \in 1..presigned + 1 /\ presigned <= presigned + 1
        BY <1>4
      <3>2. Moves(h, "save", r)
        BY <3>1 DEF Moves
      <3>3. UploadData'
        <4>1. presigned + 1 \in Nonces
          BY <2>1, PresignedBound
        <4>2. signed' \in [Nonces -> Nat]
          BY <1>4, <3>1, <4>1
        <4>3. answered \subseteq 1..presigned + 1
          BY <1>4
        <4>4. QED
          BY <1>4, <2>1, <3>0, <3>1, <4>2, <4>3 DEF UploadData
      <3>4. Fits("save", r, issued', answered', presigned')
        <4>1. /\ r \in Requests /\ r.token = req[h].token /\ r.user = req[h].user
              /\ r.op = req[h].op /\ r.item = presigned + 1
          BY <1>3, <3>0 DEF Requests
        <4> HIDE DEF r
        <4>2. QED
          BY <1>2, <1>3, <2>1, <3>0, <3>1, <4>1 DEF Fits, Steps
      <3>5. FitInv'
        <4> HIDE DEF r
        <4>1. presigned' \in Nat /\ presigned <= presigned' /\ answered \subseteq answered' /\ issued' \in Nat
          BY <1>2, <2>1, <3>0, <3>1
        <4>2. QED
          BY <1>2, <1>4, <3>2, <3>4, <4>1, FitMoves DEF BaseInv
      <3>6. BudgetInv'
        BY <1>1, <1>4, <2>1, <3>1, <3>2, BudgetMoves DEF BaseInv
      <3>7. QED
        BY <1>2, <3>3, <3>5, <3>6 DEF BaseInv
    <2>4. QED
      BY <2>2, <2>3
  <1>6. CASE SaveNonce(h) \/ SaveNonceFails(h)
    <2>1. /\ pc[h] = "save" /\ Return(h) /\ UNCHANGED <<signed, presigned, taken, redeemed>>
          /\ nonce' = [nonce EXCEPT ![req[h].item] = Nonce(h)] \/ UNCHANGED nonce
          /\ answered' = answered \cup {req[h].item} \/ UNCHANGED answered
      BY <1>6 DEF SaveNonce, SaveNonceFails
    <2>2. req[h].item \in 1..presigned /\ req[h].item \in Nonces
      BY <1>3, <2>1, PresignedBound DEF Fits
    <2>3. Nonce(h) \in [user : Users \cup {None}, object : Nonces \cup {0}, until : Nat]
      BY <1>3, <1>4, <2>2 DEF Nonce
    <2>4. UploadData'
      <3>1. nonce' \in [Nonces -> [user : Users \cup {None}, object : Nonces \cup {0}, until : Nat]]
        BY <1>4, <2>1, <2>2, <2>3
      <3>2. answered' \subseteq 1..presigned /\ taken \subseteq answered'
        BY <1>4, <2>1, <2>2
      <3>3. QED
        BY <1>4, <2>1, <3>1, <3>2 DEF UploadData
    <2>5. QED
      BY <1>2, <2>1, <2>4, BaseReturn
  <1>7. CASE Callback(h) \/ CallbackFails(h)
    <2> DEFINE n == req[h].item
    <2>1. /\ pc[h] = "authed" /\ req[h].op = "callback" /\ Return(h)
          /\ UNCHANGED <<signed, presigned, answered>>
          /\ UNCHANGED <<nonce, taken>> \/ TakeNonce(n)
      BY <1>7 DEF Callback, CallbackFails
    <2>2. n \in answered /\ n \in Nonces
      BY <1>3, <1>4, <2>1, PresignedBound DEF Fits
    <2>3. nonce' \in [Nonces -> [user : Users \cup {None}, object : Nonces \cup {0}, until : Nat]]
      <3>1. NoNonce \in [user : Users \cup {None}, object : Nonces \cup {0}, until : Nat]
        BY DEF NoNonce
      <3>2. QED
        BY <1>4, <2>1, <2>2, <3>1 DEF TakeNonce
    <2>4. taken' \subseteq answered
      BY <1>4, <2>1, <2>2 DEF TakeNonce
    <2>5. redeemed' \in [Nonces -> Seq(Receipts)]
      <3>1. [user |-> req[h].user, url |-> nonce[n].object] \in Receipts
        BY <1>3, <1>4, <2>2 DEF Receipts
      <3>2. /\ redeemed[n] \in Seq(Receipts)
            /\ Append(redeemed[n], [user |-> req[h].user, url |-> nonce[n].object]) \in Seq(Receipts)
        BY <1>4, <2>2, <3>1
      <3>3. \/ redeemed' = redeemed
            \/ redeemed' = [redeemed EXCEPT ![n] =
                               Append(redeemed[n], [user |-> req[h].user, url |-> nonce[n].object])]
        BY <1>4, <1>7, <2>2 DEF Callback, CallbackFails
      <3>4. QED
        BY <1>4, <3>2, <3>3
    <2>6. UploadData'
      BY <1>4, <2>1, <2>3, <2>4, <2>5 DEF UploadData
    <2>7. QED
      BY <1>2, <2>1, <2>6, BaseReturn
  <1>8. QED
    BY <1>5, <1>6, <1>7 DEF UploadStep

\* Every step preserves the types and what fits a request.
LEMMA BaseStep == BaseInv /\ [Next]_vars => BaseInv'
  <1> SUFFICES ASSUME BaseInv, [Next]_vars PROVE BaseInv'
    OBVIOUS
  <1>1. CASE UNCHANGED vars
    BY <1>1 DEF vars, sessionVars, tokenVars, reqVars, limitVars, uploadVars, BaseInv, SessionData,
                LimitData, UploadData, FitInv, BudgetInv, Busy
  <1>2. ASSUME NEW h \in Handlers, NEW k \in Access,
               Begin(h, "presign", k, 0) \/ \E n \in answered : Begin(h, "callback", k, n),
               UNCHANGED <<limitVars, uploadVars>>
        PROVE  BaseInv'
    <2>1. k \in 1..issued
      BY DEF Access
    <2>2. answered \subseteq Nat /\ 0 \in Nat
      BY DEF BaseInv, UploadData
    <2>3. QED
      BY <1>2, <2>1, <2>2, BaseBegin DEF Ops
  <1>3. CASE Next
    BY <1>2, <1>3, SessionBase, LimitBase, UploadBase DEF Next
  <1>4. QED
    BY <1>1, <1>3

\* Types, budget and the shape of every request are kept: tokens and nonces a
\* request refers to exist (Auth, auth.go:45-70; Presign and Callback,
\* upload_service.go:72-168).
THEOREM BaseInvariance == Spec => []BaseInv
  BY BaseInit, BaseStep, PTL DEF Spec

\* Every variable keeps its type; in particular there is a nonce for every URL
\* that is signed, and no more URLs are signed than requests were let through.
THEOREM TypeCorrectness == Spec => []TypeOK
  <1>1. BaseInv => TypeOK
    <2>1. SUFFICES ASSUME BaseInv PROVE TypeOK
      OBVIOUS
    <2>2. presigned \in 0..MaxRequests
      BY <2>1, PresignedBound
    <2>3. loggedOut \subseteq Tokens
      BY <2>1, SessionConstants DEF BaseInv, SessionData, Tokens
    <2>4. QED
      BY <2>1, <2>2, <2>3 DEF BaseInv, SessionData, LimitData, UploadData, FitInv, TypeOK
  <1>2. QED
    BY <1>1, BaseInvariance, PTL

-----------------------------------------------------------------------------
(***************************************************************************)
(* What a step can do to a request.                                        *)
(***************************************************************************)

\* q is request r further on: what Begin has written stays.
Carries(r, q) == q.op = r.op /\ q.token = r.token /\ q.revoked = r.revoked

\* The steps a handler can take with its request, the other handlers' steps seen
\* from it included: these change nothing of it but raced.
Progress(g) ==
    \/ /\ pc'[g] = pc[g] /\ Carries(req[g], req'[g])
       /\ req'[g].unsure = req[g].unsure /\ req'[g].at = req[g].at
       /\ req'[g].item = req[g].item /\ req'[g].user = req[g].user
    \/ pc'[g] = "idle" /\ req'[g] = NoRequest
    \/ pc[g] = "idle" /\ pc'[g] = "findUser" /\ req'[g].revoked = FALSE
    \/ pc[g] = "idle" /\ pc'[g] = "blacklist" /\ (req'[g].revoked => req'[g].token \in loggedOut)
    \/ /\ pc[g] = "blacklist" /\ pc'[g] = "ban" /\ Carries(req[g], req'[g])
       /\ req'[g].unsure \/ (~Blacklisted(req[g].token) /\ Parse(req[g].token))
    \/ /\ pc[g] = "ban" /\ pc'[g] = "authed" /\ Carries(req[g], req'[g])
       /\ req'[g].unsure = req[g].unsure
    \/ /\ pc[g] = "authed" /\ pc'[g] = "revoke" /\ Carries(req[g], req'[g])
       /\ req'[g].unsure = req[g].unsure
       /\ req'[g].at = token[req[g].token].exp - now
    \/ /\ pc[g] \in {"authed", "count", "record"} /\ pc'[g] \in {"count", "record", "allowed"}
       /\ Carries(req[g], req'[g]) /\ req'[g].unsure = req[g].unsure
    \/ /\ pc[g] = "allowed" /\ pc'[g] = "save" /\ Carries(req[g], req'[g])
       /\ req'[g].unsure = req[g].unsure /\ req'[g].item = presigned + 1
       /\ presigned' = presigned + 1

\* A step of one handler leaves the requests of the others alone.
LEMMA ProgressOthers ==
    ASSUME FitInv, NEW h \in Handlers, NEW step, NEW r, Moves(h, step, r)
    PROVE  /\ pc'[h] = step /\ req'[h] = r
           /\ \A g \in Handlers : g # h => Progress(g)
  <1>1. /\ pc'[h] = step /\ req'[h] = r
        /\ \A g \in Handlers : g # h => pc'[g] = pc[g] /\ req'[g] = req[g]
    BY DEF Moves, FitInv
  <1>2. QED
    BY <1>1 DEF Progress, Carries

\* A request begins.
LEMMA ProgressBegin ==
    ASSUME BaseInv, NEW h \in Handlers, NEW k \in Access, NEW op \in Ops, NEW item \in Nat,
           Begin(h, op, k, item)
    PROVE  \A g \in Handlers : Progress(g)
  <1>1. PICK rev \in BOOLEAN : rev = (k \in loggedOut)
    <2>1. (k \in loggedOut) \in BOOLEAN
      OBVIOUS
    <2>2. QED
      BY <2>1, Zenon
  <1>2. Moves(h, "blacklist", Begun(op, k, item, rev)) /\ pc[h] = "idle" /\ FitInv
    BY <1>1 DEF Begin, Moves, Begun, BaseInv
  <1>3. Begun(op, k, item, rev).revoked = rev /\ Begun(op, k, item, rev).token = k
    <2>1. k \in Nat
      BY SessionConstants DEF Access, BaseInv, SessionData
    <2>2. QED
      BY <2>1, NewRequest
  <1>4. Progress(h)
    <2>1. pc'[h] = "blacklist" /\ req'[h] = Begun(op, k, item, rev)
      BY <1>2, ProgressOthers
    <2>2. req'[h].revoked => req'[h].token \in loggedOut
      BY <1>1, <1>3, <2>1
    <2>3. QED
      BY <1>2, <2>1, <2>2 DEF Progress
  <1>5. QED
    BY <1>2, <1>4, ProgressOthers

\* The steps of Auth, Logout and Refresh.
LEMMA ProgressSession ==
    ASSUME BaseInv, NEW h \in Handlers, SessionStep(h)
    PROVE  \A g \in Handlers : Progress(g)
  <1>0. FitInv /\ req[h] \in Requests
    BY DEF BaseInv, FitInv
  <1>1. CASE Return(h)
    <2>1. Moves(h, "idle", NoRequest)
      BY <1>1 DEF Return, Moves
    <2>2. Progress(h)
      BY <1>0, <2>1, ProgressOthers DEF Progress
    <2>3. QED
      BY <1>0, <2>1, <2>2, ProgressOthers
  <1>2. ASSUME NEW k \in Refreshing, BeginRefresh(h, k)
        PROVE  \A g \in Handlers : Progress(g)
    <2>1. Moves(h, "findUser", BegunRefresh(k)) /\ pc[h] = "idle"
      BY <1>2 DEF BeginRefresh, Moves, BegunRefresh
    <2>2. k \in Nat
      BY SessionConstants DEF Refreshing, BaseInv, SessionData
    <2>3. Progress(h)
      <3>1. pc'[h] = "findUser" /\ req'[h] = BegunRefresh(k)
        BY <1>0, <2>1, ProgressOthers
      <3>2. BegunRefresh(k).revoked = FALSE
        BY <2>2, NewRefresh
      <3>3. QED
        BY <2>1, <3>1, <3>2 DEF Progress
    <2>4. QED
      BY <1>0, <2>1, <2>3, ProgressOthers
  <1>3. CASE (CheckBlacklist(h) \/ CheckBlacklistFails(h)) /\ ~Return(h)
    <2>1. PICK x \in BOOLEAN :
             /\ pc' = [pc EXCEPT ![h] = "ban"] /\ req' = [req EXCEPT ![h].unsure = x]
             /\ x = TRUE \/ (~Blacklisted(req[h].token) /\ x = ~Parse(req[h].token))
      BY <1>3 DEF CheckBlacklist, CheckBlacklistFails
    <2>2. Moves(h, "ban", [req[h] EXCEPT !.unsure = x]) /\ pc[h] = "blacklist"
      BY <1>3, <2>1 DEF Moves, CheckBlacklist, CheckBlacklistFails
    <2>3. /\ [req[h] EXCEPT !.unsure = x].unsure = x
          /\ Carries(req[h], [req[h] EXCEPT !.unsure = x])
      BY <1>0 DEF Requests, Carries
    <2>4. Progress(h)
      <3>1. pc'[h] = "ban" /\ req'[h] = [req[h] EXCEPT !.unsure = x]
        BY <1>0, <2>2, ProgressOthers
      <3>2. req'[h].unsure = x /\ Carries(req[h], req'[h])
        BY <2>3, <3>1
      <3>3. QED
        BY <2>1, <2>2, <3>1, <3>2 DEF Progress
    <2>5. QED
      BY <1>0, <2>2, <2>4, ProgressOthers
  <1>4. CASE Authenticated(h) /\ pc[h] = "ban"
    <2> DEFINE r == [req[h] EXCEPT !.user = token[req[h].token].user]
    <2>1. Moves(h, "authed", r)
      BY <1>4 DEF Authenticated, Moves
    <2>2. Carries(req[h], r) /\ r.unsure = req[h].unsure
      BY <1>0 DEF Requests, Carries
    <2>3. Progress(h)
      <3> HIDE DEF r
      <3>1. pc'[h] = "authed" /\ req'[h] = r
        BY <1>0, <2>1, ProgressOthers
      <3>2. QED
        BY <1>4, <2>2, <3>1 DEF Progress
    <2>4. QED
      BY <1>0, <2>1, <2>3, ProgressOthers
  <1>5. CASE BeginLogout(h) /\ ~Return(h)
    <2> DEFINE r == [req[h] EXCEPT !.at = Remaining(req[h].token)]
    <2>1. Moves(h, "revoke", r) /\ pc[h] = "authed"
      BY <1>5 DEF BeginLogout, Moves
    <2>2. Carries(req[h], r) /\ r.unsure = req[h].unsure /\ r.at = token[req[h].token].exp - now
      BY <1>0 DEF Requests, Carries, Remaining
    <2>3. Progress(h)
      <3> HIDE DEF r
      <3>1. pc'[h] = "revoke" /\ req'[h] = r
        BY <1>0, <2>1, ProgressOthers
      <3>2. QED
        BY <2>1, <2>2, <3>1 DEF Progress
    <2>4. QED
      BY <1>0, <2>1, <2>3, ProgressOthers
  <1>7. CASE \E k \in Access : Begin(h, "logout", k, 0)
    BY <1>7, ProgressBegin DEF Ops
  <1>8. QED
    BY <1>1, <1>2, <1>3, <1>4, <1>5, <1>7
       DEF SessionStep, RefreshPair, RefreshFails, CheckBan, CheckBanFails, BlacklistJWT, BlacklistJWTFails

\* The steps of the limiter.
LEMMA ProgressLimit ==
    ASSUME BaseInv, NEW h \in Handlers, LimitStep(h)
    PROVE  \A g \in Handlers : Progress(g)
  <1>0. FitInv /\ req[h] \in Requests
    BY DEF BaseInv, FitInv
  <1>1. CASE Return(h)
    <2>1. Moves(h, "idle", NoRequest)
      BY <1>1 DEF Return, Moves
    <2>2. Progress(h)
      BY <1>0, <2>1, ProgressOthers DEF Progress
    <2>3. QED
      BY <1>0, <2>1, <2>2, ProgressOthers
  <1>2. CASE EnterLimiter(h)
    <2> DEFINE others == InLimiter(req[h].user)
    <2>1. ASSUME NEW g \in Handlers, g # h PROVE Progress(g)
      <3>1. pc'[g] = pc[g] /\ (req'[g] = req[g] \/ req'[g] = [req[g] EXCEPT !.raced = TRUE])
        BY <1>0, <1>2, <2>1 DEF EnterLimiter, FitInv
      <3>2. req[g] \in Requests
        BY <1>0 DEF FitInv
      <3>3. /\ Carries(req[g], req'[g]) /\ req'[g].unsure = req[g].unsure
            /\ req'[g].at = req[g].at /\ req'[g].item = req[g].item /\ req'[g].user = req[g].user
        BY <3>1, <3>2 DEF Requests, Carries
      <3>4. QED
        BY <3>1, <3>3 DEF Progress
    <2>2. Progress(h)
      <3>1. pc[h] = "authed" /\ pc'[h] = "count" /\
            req'[h] = [req[h] EXCEPT !.at = now, !.raced = others # {}]
        BY <1>0, <1>2 DEF EnterLimiter, FitInv
      <3>2. Carries(req[h], req'[h]) /\ req'[h].unsure = req[h].unsure
        BY <1>0, <3>1 DEF Requests, Carries
      <3>3. QED
        BY <3>1, <3>2 DEF Progress
    <2>3. QED
      BY <2>1, <2>2
  <1>3. CASE CountWindow(h) /\ ~Return(h)
    <2> DEFINE r == [req[h] EXCEPT !.raced = req[h].raced \/ now > req[h].at + Slack]
    <2>1. Moves(h, "record", r) /\ pc[h] = "count"
      BY <1>3 DEF CountWindow, Moves
    <2>2. Carries(req[h], r) /\ r.unsure = req[h].unsure
      BY <1>0 DEF Requests, Carries
    <2> HIDE DEF r
    <2>3. pc'[h] = "record" /\ req'[h] = r
      BY <1>0, <2>1, ProgressOthers
    <2>4. Progress(h)
      BY <2>1, <2>2, <2>3 DEF Progress
    <2>5. QED
      BY <1>0, <2>1, <2>4, ProgressOthers
  <1>4. CASE RecordSlot(h) \/ LimiterFails(h)
    <2>1. Moves(h, "allowed", req[h]) /\ pc[h] \in {"count", "record"}
      BY <1>0, <1>4 DEF RecordSlot, LimiterFails, Goto, Moves, FitInv
    <2>2. pc'[h] = "allowed" /\ req'[h] = req[h]
      BY <1>0, <2>1, ProgressOthers
    <2>3. Progress(h)
      BY <2>1, <2>2 DEF Progress, Carries
    <2>4. QED
      BY <1>0, <2>1, <2>3, ProgressOthers
  <1>5. QED
    BY <1>1, <1>2, <1>3, <1>4 DEF LimitStep

\* The steps of Presign and Callback.
LEMMA ProgressUpload ==
    ASSUME BaseInv, NEW h \in Handlers, UploadStep(h)
    PROVE  \A g \in Handlers : Progress(g)
  <1>0. FitInv /\ req[h] \in Requests
    BY DEF BaseInv, FitInv
  <1>1. CASE Return(h)
    <2>1. Moves(h, "idle", NoRequest)
      BY <1>1 DEF Return, Moves
    <2>2. Progress(h)
      BY <1>0, <2>1, ProgressOthers DEF Progress
    <2>3. QED
      BY <1>0, <2>1, <2>2, ProgressOthers
  <1>2. CASE SignUrl(h) /\ ~Return(h)
    <2> DEFINE r == [req[h] EXCEPT !.item = presigned + 1]
    <2>1. Moves(h, "save", r) /\ pc[h] = "allowed" /\ presigned' = presigned + 1
      BY <1>2 DEF SignUrl, Moves
    <2>2. Carries(req[h], r) /\ r.unsure = req[h].unsure /\ r.item = presigned + 1
      BY <1>0 DEF Requests, Carries
    <2> HIDE DEF r
    <2>3. pc'[h] = "save" /\ req'[h] = r
      BY <1>0, <2>1, ProgressOthers
    <2>4. Progress(h)
      BY <2>1, <2>2, <2>3 DEF Progress
    <2>5. QED
      BY <1>0, <2>1, <2>4, ProgressOthers
  <1>3. QED
    BY <1>1, <1>2 DEF UploadStep, SaveNonce, SaveNonceFails, Callback, CallbackFails

\* Whatever happens, every request makes one of the steps of Progress, tokens
\* once issued do not change and the clock does not go back.
LEMMA ProgressStep ==
    ASSUME BaseInv, [Next]_vars
    PROVE  /\ \A g \in Handlers : Progress(g)
           /\ \A k \in 1..issued : token'[k] = token[k]
           /\ now <= now' /\ now \in Nat /\ now' \in Nat
           /\ loggedOut \subseteq loggedOut'
           /\ answered \subseteq answered' /\ taken \subseteq taken'
  <1>1. now \in Nat
    BY SessionConstants DEF BaseInv, SessionData
  <1> DEFINE Mono == /\ \A k \in 1..issued : token'[k] = token[k]
                     /\ now <= now' /\ now' \in Nat
                     /\ loggedOut \subseteq loggedOut'
                     /\ answered \subseteq answered' /\ taken \subseteq taken'
  <1>2. CASE UNCHANGED vars
    <2>1. Mono
      BY <1>1, <1>2 DEF vars, sessionVars, tokenVars, uploadVars
    <2>2. \A g \in Handlers : Progress(g)
      BY <1>2 DEF Progress, Carries, vars, sessionVars, reqVars
    <2>3. QED
      BY <1>1, <2>1, <2>2
  <1>3. ASSUME NEW h \in Handlers, SessionStep(h), UNCHANGED uploadVars
        PROVE  Mono
    <2>1. CASE RefreshPair(h)
      <3>1. token[req[h].token].user \in Users
        BY <2>1 DEF RefreshPair, BaseInv, FitInv, Fits, SessionData
      <3>2. \A k \in 1..issued : token'[k] = token[k]
        BY <2>1, <3>1, PairIssued DEF RefreshPair
      <3>3. QED
        BY <1>1, <1>3, <2>1, <3>2 DEF RefreshPair, uploadVars
    <2>2. CASE ~RefreshPair(h)
      <3>1. UNCHANGED <<now, token, issued>> /\ loggedOut \subseteq loggedOut'
        BY <1>3, <2>2 DEF SessionStep, BeginRefresh, RefreshFails, Begin, CheckBlacklist,
           CheckBlacklistFails, CheckBan, CheckBanFails, BeginLogout, BlacklistJWT,
           BlacklistJWTFails, tokenVars
      <3>2. QED
        BY <1>1, <1>3, <3>1 DEF uploadVars
    <2>3. QED
      BY <2>1, <2>2
  <1>4. ASSUME NEW u \in Users, LogIn(u) \/ Ban(u), UNCHANGED uploadVars
        PROVE  Mono /\ \A g \in Handlers : Progress(g)
    <2>1. \A g \in Handlers : Progress(g)
      BY <1>4 DEF LogIn, Ban, reqVars, Progress, Carries
    <2>2. \A k \in 1..issued : token'[k] = token[k]
      BY <1>4, PairIssued DEF LogIn, Ban
    <2>3. QED
      BY <1>1, <1>4, <2>1, <2>2 DEF LogIn, Ban, uploadVars
  <1>5. ASSUME Tick, UNCHANGED uploadVars
        PROVE  Mono /\ \A g \in Handlers : Progress(g)
    BY <1>1, <1>5 DEF Tick, tokenVars, reqVars, uploadVars, Progress, Carries
  <1>6. ASSUME NEW h \in Handlers, NEW k \in Access,
               Begin(h, "presign", k, 0) \/ \E n \in answered : Begin(h, "callback", k, n),
               UNCHANGED <<limitVars, uploadVars>>
        PROVE  Mono /\ \A g \in Handlers : Progress(g)
    <2>1. answered \subseteq Nat /\ 0 \in Nat
      BY DEF BaseInv, UploadData
    <2>2. \A g \in Handlers : Progress(g)
      BY <1>6, <2>1, ProgressBegin DEF Ops
    <2>3. QED
      <3>1. UNCHANGED <<now, token, issued, loggedOut>>
        BY <1>6 DEF Begin, tokenVars
      <3>2. QED
        BY <1>1, <1>6, <2>2, <3>1 DEF uploadVars
  <1>7. ASSUME NEW h \in Handlers, LimitStep(h) /\ UNCHANGED uploadVars
        PROVE  Mono
    <2>1. UNCHANGED <<now, token, issued, loggedOut>>
      BY <1>7 DEF LimitStep, EnterLimiter, CountWindow, RecordSlot, LimiterFails, tokenVars
    <2>2. QED
      BY <1>1, <1>7, <2>1 DEF uploadVars
  <1>8. ASSUME NEW h \in Handlers, UploadStep(h)
        PROVE  Mono
    BY <1>1, <1>8 DEF UploadStep, SignUrl, SaveNonce, SaveNonceFails, Callback, CallbackFails,
                      TakeNonce, tokenVars
  <1> HIDE DEF Mono
  <1>9. Mono /\ \A g \in Handlers : Progress(g)
    BY <1>2, <1>3, <1>4, <1>5, <1>6, <1>7, <1>8, ProgressSession, ProgressLimit, ProgressUpload
       DEF Next, SessionNext, Mono
  <1>10. QED
    BY <1>1, <1>9 DEF Mono

-----------------------------------------------------------------------------
(***************************************************************************)
(* Logout holds.  The blacklist entry is written with the lifetime that    *)
(* was left when Logout looked at the clock; it must nevertheless outlive  *)
(* the token, and every request that begins later must meet it.            *)
(***************************************************************************)

\* A token that has been logged out is blacklisted for as long as it is valid,
\* however long the SET was under way.
RevokedInv ==
    /\ \A k \in loggedOut : token[k].exp <= blacklist[k] \/ token[k].exp <= now
    /\ \A h \in Handlers : pc[h] = "revoke" => token[req[h].token].exp <= now + req[h].at

LogoutInv ==
    /\ RevokedInv
    /\ \A h \in Handlers : req[h].revoked => req[h].token \in loggedOut
    /\ LogoutHolds

\* Only Logout writes the blacklist and answers.
LEMMA RevokeEffect ==
    ASSUME BaseInv, [Next]_vars, NEW k \in 1..issued
    PROVE  LET Revoked == \E h \in Handlers : /\ pc[h] = "revoke" /\ req[h].token = k
                                              /\ blacklist'[k] = now + req[h].at
           IN  /\ blacklist'[k] = blacklist[k] \/ Revoked
               /\ k \in loggedOut' => k \in loggedOut \/ ~Parse(k) \/ Revoked
  <1> DEFINE Revoked == \E h \in Handlers : /\ pc[h] = "revoke" /\ req[h].token = k
                                            /\ blacklist'[k] = now + req[h].at
  <1>1. CASE UNCHANGED <<blacklist, loggedOut>>
    BY <1>1
  <1>2. ASSUME NEW h \in Handlers, BeginLogout(h)
        PROVE  UNCHANGED blacklist /\ (k \in loggedOut' => k \in loggedOut \/ ~Parse(k))
    BY <1>2 DEF BeginLogout
  <1>3. ASSUME NEW h \in Handlers, BlacklistJWT(h) \/ BlacklistJWTFails(h)
        PROVE  /\ blacklist'[k] = blacklist[k] \/ Revoked
               /\ k \in loggedOut' => k \in loggedOut \/ Revoked
    <2>1. /\ pc[h] = "revoke"
          /\ \/ blacklist' = [blacklist EXCEPT ![req[h].token] = now + req[h].at]
             \/ UNCHANGED <<blacklist, loggedOut>>
          /\ loggedOut' = loggedOut \cup {req[h].token} \/ UNCHANGED loggedOut
      BY <1>3 DEF BlacklistJWT, BlacklistJWTFails
    <2>2. k \in Tokens /\ blacklist \in [Tokens -> Nat]
      BY SessionConstants DEF BaseInv, SessionData, Tokens
    <2>3. QED
      BY <2>1, <2>2
  <1>4. ASSUME NEW h \in Handlers, LimitStep(h) \/ UploadStep(h)
        PROVE  UNCHANGED <<blacklist, loggedOut>>
    BY <1>4 DEF LimitStep, EnterLimiter, CountWindow, RecordSlot, LimiterFails, UploadStep, SignUrl,
                SaveNonce, SaveNonceFails, Callback, CallbackFails, tokenVars
  <1>5. ASSUME NEW h \in Handlers, NEW x, NEW op, NEW item, Begin(h, op, x, item)
        PROVE  UNCHANGED <<blacklist, loggedOut>>
    BY <1>5 DEF Begin, tokenVars
  <1>6. ASSUME NEW h \in Handlers, SessionStep(h)
        PROVE  UNCHANGED <<blacklist, loggedOut>> \/ BeginLogout(h) \/ BlacklistJWT(h) \/ BlacklistJWTFails(h)
    BY <1>5, <1>6 DEF SessionStep, BeginRefresh, RefreshPair, RefreshFails, CheckBlacklist,
       CheckBlacklistFails, CheckBan, CheckBanFails, tokenVars
  <1>7. ASSUME NEW u \in Users, LogIn(u) \/ Ban(u)
        PROVE  UNCHANGED <<blacklist, loggedOut>>
    BY <1>7 DEF LogIn, Ban
  <1>8. Tick \/ UNCHANGED vars => UNCHANGED <<blacklist, loggedOut>>
    BY DEF Tick, tokenVars, vars, sessionVars
  <1>9. QED
    BY <1>1, <1>2, <1>3, <1>4, <1>5, <1>6, <1>7, <1>8 DEF Next, SessionNext

\* Every step preserves LogoutInv: Logout's SET is as long as the token is valid
\* and Auth's EXISTS comes after it.
LEMMA LogoutStep == BaseInv /\ LogoutInv /\ [Next]_vars => LogoutInv'
  <1> SUFFICES ASSUME BaseInv, LogoutInv, [Next]_vars PROVE LogoutInv'
    OBVIOUS
  <1>0. BaseInv'
    BY BaseStep
  <1>1. /\ \A k \in 1..issued : token'[k] = token[k] /\ token[k].exp \in Nat /\ blacklist[k] \in Nat
        /\ \A k \in 1..issued' : token'[k].exp \in Nat /\ blacklist'[k] \in Nat
        /\ now \in Nat /\ now' \in Nat /\ now <= now'
        /\ loggedOut \subseteq loggedOut' /\ loggedOut \subseteq 1..issued
        /\ issued' \in Nat /\ issued \in Nat
    <2>1. /\ issued' \in Nat /\ issued \in Nat /\ 1..issued \subseteq Tokens /\ 1..issued' \subseteq Tokens
      BY <1>0, SessionConstants DEF BaseInv, SessionData, Tokens
    <2>2. /\ \A k \in 1..issued : token[k].exp \in Nat /\ blacklist[k] \in Nat
          /\ loggedOut \subseteq 1..issued
      BY <2>1 DEF BaseInv, SessionData
    <2>3. \A k \in 1..issued' : token'[k].exp \in Nat /\ blacklist'[k] \in Nat
      BY <1>0, <2>1 DEF BaseInv, SessionData
    <2>4. QED
      BY <2>1, <2>2, <2>3, ProgressStep
  <1>2. ASSUME NEW g \in Handlers
        PROVE  /\ Progress(g) /\ req[g].at \in Nat /\ req'[g].at \in Nat
               /\ pc[g] # "idle" => req[g].token \in 1..issued
               /\ req[g].revoked \in BOOLEAN /\ req[g].unsure \in BOOLEAN
               /\ req'[g].revoked \in BOOLEAN /\ req'[g].unsure \in BOOLEAN
    <2>1. Progress(g)
      BY ProgressStep
    <2>2. req[g] \in Requests /\ req'[g] \in Requests /\ (pc[g] # "idle" => req[g].token \in 1..issued)
      BY <1>0 DEF BaseInv, FitInv, Fits
    <2>3. QED
      BY <2>1, <2>2 DEF Requests
  <1>3. ASSUME NEW g \in Handlers, pc'[g] = "revoke"
        PROVE  token'[req'[g].token].exp <= now' + req'[g].at
    <2>1. CASE pc[g] = "revoke" /\ req'[g].token = req[g].token /\ req'[g].at = req[g].at
      <3>1. token[req[g].token].exp <= now + req[g].at
        BY <2>1 DEF LogoutInv, RevokedInv
      <3>2. QED
        BY <1>1, <1>2, <2>1, <3>1
    <2>2. CASE /\ pc[g] = "authed" /\ req'[g].token = req[g].token
               /\ req'[g].at = token[req[g].token].exp - now
      BY <1>1, <1>2, <2>2
    <2>3. QED
      BY <1>2, <1>3, <2>1, <2>2 DEF Progress, Carries
  <1>4. ASSUME NEW k \in loggedOut'
        PROVE  token'[k].exp <= blacklist'[k] \/ token'[k].exp <= now'
    <2>1. k \in 1..issued
      <3>1. CASE k \in loggedOut
        BY <1>1, <3>1
      <3>2. CASE k \notin loggedOut
        <4>1. PICK h \in Handlers : k = req[h].token /\ (BeginLogout(h) \/ BlacklistJWT(h))
          BY <3>2 DEF Next, vars, sessionVars, tokenVars, SessionNext, SessionStep, LogIn, Ban, Tick,
             BeginRefresh, RefreshPair, RefreshFails, Begin, CheckBlacklist, CheckBlacklistFails,
             CheckBan, CheckBanFails, BeginLogout, BlacklistJWT, BlacklistJWTFails, LimitStep,
             EnterLimiter, CountWindow, RecordSlot, LimiterFails, UploadStep, SignUrl, SaveNonce,
             SaveNonceFails, Callback, CallbackFails
        <4>2. QED
          BY <1>2, <4>1 DEF BeginLogout, BlacklistJWT
      <3>3. QED
        BY <3>1, <3>2
    <2>2. CASE \E h \in Handlers : /\ pc[h] = "revoke" /\ req[h].token = k
                                   /\ blacklist'[k] = now + req[h].at
      BY <1>1, <2>1, <2>2 DEF LogoutInv, RevokedInv
    <2>3. CASE ~Parse(k)
      BY <1>1, <2>1, <2>3 DEF Parse
    <2>4. CASE k \in loggedOut /\ blacklist'[k] = blacklist[k]
      <3>1. token[k].exp <= blacklist[k] \/ token[k].exp <= now
        BY <2>4 DEF LogoutInv, RevokedInv
      <3>2. QED
        BY <1>1, <2>1, <2>4, <3>1
    <2>5. QED
      BY <1>4, <2>1, <2>2, <2>3, <2>4, RevokeEffect
  <1>5. ASSUME NEW g \in Handlers, req'[g].revoked
        PROVE  req'[g].token \in loggedOut'
    <2>1. req'[g] # NoRequest
      BY <1>5 DEF NoRequest
    <2>2. req[g].revoked => req[g].token \in loggedOut
      BY DEF LogoutInv
    <2>3. QED
      BY <1>1, <1>2, <1>5, <2>1, <2>2 DEF Progress, Carries
  <1>6. LogoutHolds'
    <2>1. SUFFICES ASSUME NEW g \in Handlers, pc'[g] \notin {"idle", "blacklist", "findUser"},
                          req'[g].revoked
                   PROVE  req'[g].unsure
      BY DEF LogoutHolds
    <2>2. CASE pc[g] \notin {"idle", "blacklist", "findUser"} /\ Carries(req[g], req'[g])
               /\ req'[g].unsure = req[g].unsure
      BY <2>1, <2>2 DEF Carries, LogoutInv, LogoutHolds
    <2>3. CASE /\ pc[g] = "blacklist" /\ Carries(req[g], req'[g])
               /\ ~Blacklisted(req[g].token) /\ Parse(req[g].token)
      <3>1. req[g].token \in loggedOut
        BY <2>1, <2>3 DEF Carries, LogoutInv
      <3>2. \/ token[req[g].token].exp <= blacklist[req[g].token]
            \/ token[req[g].token].exp <= now
        BY <3>1 DEF LogoutInv, RevokedInv
      <3>3. PICK k \in 1..issued : k = req[g].token
        BY <1>1, <3>1
      <3>4. /\ token[k].exp \in Nat /\ blacklist[k] \in Nat
            /\ token[k].exp <= blacklist[k] \/ token[k].exp <= now
        BY <1>1, <3>2, <3>3
      <3>5. ~(now < blacklist[k]) /\ now < token[k].exp
        BY <2>3, <3>3 DEF Blacklisted, Parse
      <3>6. QED
        BY <1>1, <3>4, <3>5
    <2>4. QED
      BY <1>2, <2>1, <2>2, <2>3 DEF Progress
  <1>7. QED
    BY <1>3, <1>4, <1>5, <1>6 DEF LogoutInv, RevokedInv

\* A token that Logout has answered for does not get another request past Auth,
\* however Logout, its SET, other requests and the clock interleave
\* (Logout, user_service.go:255-268; VerifyAccessToken, user_service.go:390-414;
\* auth.go:45-70).
THEOREM LogoutIsFinal == Spec => []LogoutHolds
  <1>1. Init => LogoutInv
    BY DEF Init, SessionInit, LogoutInv, RevokedInv, LogoutHolds, NoRequest
  <1>2. LogoutInv => LogoutHolds
    BY DEF LogoutInv
  <1>3. QED
    BY <1>1, <1>2, LogoutStep, BaseInvariance, PTL DEF Spec

-----------------------------------------------------------------------------
(***************************************************************************)
(* Upload nonces.  A nonce is stored by the handler that signed its URL,   *)
(* at most once and before a client knows it, so GETDEL finds it once.     *)
(***************************************************************************)

\* Handlers between signing and SaveNonce hold different nonces, which nobody
\* else knows.
SavingInv ==
    /\ \A h \in Handlers : pc[h] = "save" => req[h].item \notin answered
    /\ \A g, h \in Handlers :
          pc[g] = "save" /\ pc[h] = "save" /\ g # h => req[g].item # req[h].item

\* A nonce in Redis is one no GETDEL has found; one a client knows outlives its
\* URL until then.
StoreInv ==
    \A n \in Nonces :
        /\ nonce[n].until > 0 => nonce[n].object = n /\ n \notin taken
        /\ n \notin taken => redeemed[n] = <<>>
        /\ signed[n] <= now + PresignTTL
        /\ n \in answered \ taken => signed[n] <= nonce[n].until

NonceInv == SavingInv /\ StoreInv /\ NonceSingleUse

\* No step but SignUrl makes a handler save, so the nonces under way stay
\* different and unknown as long as nothing becomes known.
LEMMA SavingKept ==
    ASSUME BaseInv, SavingInv, \A g \in Handlers : Progress(g),
           presigned' = presigned, answered' = answered
    PROVE  SavingInv'
  <1>1. presigned \in Nat
    BY DEF BaseInv, UploadData
  <1>2. \A g \in Handlers : pc'[g] = "save" => pc[g] = "save" /\ req'[g].item = req[g].item
    BY <1>1 DEF Progress
  <1>3. QED
    BY <1>2 DEF SavingInv

\* The clock moves on, other components take a step, or nothing happens.
LEMMA NonceQuiet ==
    ASSUME BaseInv, NonceInv, [Next]_vars, UNCHANGED uploadVars
    PROVE  NonceInv'
  <1>1. /\ now <= now' /\ now \in Nat /\ now' \in Nat
        /\ \A g \in Handlers : Progress(g)
    BY ProgressStep
  <1>2. UNCHANGED <<nonce, signed, presigned, answered, taken, redeemed>>
    BY DEF uploadVars
  <1>3. signed \in [Nonces -> Nat] /\ PresignTTL \in Nat
    BY SessionConstants DEF BaseInv, UploadData
  <1>4. SavingInv'
    BY <1>1, <1>2, SavingKept DEF NonceInv
  <1>5. \A n \in Nonces : signed[n] <= now' + PresignTTL
    BY <1>1, <1>3 DEF NonceInv, StoreInv
  <1>6. StoreInv' /\ NonceSingleUse'
    BY <1>2, <1>5 DEF NonceInv, StoreInv, NonceSingleUse
  <1>7. QED
    BY <1>4, <1>6 DEF NonceInv

\* Presign signs a URL with a new nonce, or refuses to.
LEMMA SignNonce ==
    ASSUME BaseInv, NonceInv, NEW h \in Handlers, SignUrl(h), [Next]_vars
    PROVE  NonceInv'
  <1>1. /\ \A g \in Handlers : Progress(g)
        /\ pc[h] = "allowed" /\ UNCHANGED <<now, nonce, answered, taken, redeemed>>
    BY ProgressStep DEF SignUrl
  <1>2. /\ presigned \in Nat /\ answered \subseteq 1..presigned /\ signed \in [Nonces -> Nat]
        /\ now \in Nat /\ PresignTTL \in Nat /\ presigned + 1 \in Nonces
        /\ \A g \in Handlers : pc[g] = "save" => req[g].item \in 1..presigned
        /\ req \in [Handlers -> Requests] /\ pc \in [Handlers -> Steps]
    BY <1>1, SessionConstants, PresignedBound DEF BaseInv, UploadData, SessionData, FitInv, Fits
  <1>3. CASE UNCHANGED <<signed, presigned>>
    <2>1. UNCHANGED uploadVars
      BY <1>1, <1>3 DEF uploadVars
    <2>2. QED
      BY <2>1, NonceQuiet
  <1>4. CASE ~UNCHANGED <<signed, presigned>>
    <2>1. /\ presigned' = presigned + 1
          /\ signed' = [signed EXCEPT ![presigned + 1] = now + PresignTTL]
          /\ pc' = [pc EXCEPT ![h] = "save"]
          /\ req' = [req EXCEPT ![h].item = presigned + 1]
      BY <1>4 DEF SignUrl
    <2>2. /\ req'[h].item = presigned + 1
          /\ \A g \in Handlers : g # h => pc'[g] = pc[g] /\ req'[g] = req[g]
      BY <1>2, <2>1 DEF Requests
    <2>3. SavingInv'
      <3>1. presigned + 1 \notin answered
        BY <1>2
      <3>2. \A g \in Handlers : pc[g] = "save" => req[g].item # presigned + 1
        BY <1>2
      <3>3. QED
        BY <1>1, <2>2, <3>1, <3>2 DEF NonceInv, SavingInv
    <2>4. StoreInv' /\ NonceSingleUse'
      <3>1. ASSUME NEW n \in Nonces
            PROVE  /\ signed'[n] <= now + PresignTTL
                   /\ n \in answered => signed'[n] = signed[n]
        <4>1. signed'[n] = IF n = presigned + 1 THEN now + PresignTTL ELSE signed[n]
          BY <1>2, <2>1
        <4>2. signed[n] <= now + PresignTTL
          BY DEF NonceInv, StoreInv
        <4>3. now + PresignTTL <= now + PresignTTL
          BY <1>2
        <4>4. presigned + 1 \notin answered
          BY <1>2
        <4>5. QED
          BY <4>1, <4>2, <4>3, <4>4
      <3>2. QED
        BY <1>1, <3>1 DEF NonceInv, StoreInv, NonceSingleUse
    <2>5. QED
      BY <2>3, <2>4 DEF NonceInv
  <1>5. QED
    BY <1>3, <1>4

\* SaveNonce stores the nonce, and only if it does so for certain is it known.
LEMMA SaveKeepsNonces ==
    ASSUME BaseInv, NonceInv, NEW h \in Handlers, SaveNonce(h) \/ SaveNonceFails(h), [Next]_vars
    PROVE  NonceInv'
  <1> DEFINE m == req[h].item
  <1>1. /\ pc[h] = "save" /\ Return(h) /\ UNCHANGED <<now, signed, presigned, taken, redeemed>>
        /\ \/ nonce' = [nonce EXCEPT ![m] = Nonce(h)]
           \/ nonce' = nonce /\ answered' = answered
        /\ answered' = answered \cup {m} \/ answered' = answered
    BY DEF SaveNonce, SaveNonceFails
  <1>2. /\ m \in 1..presigned /\ m \in Nonces /\ m \notin answered /\ m \notin taken
        /\ now \in Nat /\ PresignTTL \in Nat \ {0} /\ signed \in [Nonces -> Nat]
        /\ nonce \in [Nonces -> [user : Users \cup {None}, object : Nonces \cup {0}, until : Nat]]
        /\ pc \in [Handlers -> Steps] /\ req \in [Handlers -> Requests]
    BY <1>1, SessionConstants, PresignedBound
       DEF BaseInv, UploadData, SessionData, FitInv, Fits, NonceInv, SavingInv
  <1>3. Nonce(h).object = m /\ Nonce(h).until = now + PresignTTL
    BY DEF Nonce
  <1>4. /\ pc'[h] = "idle"
        /\ \A g \in Handlers : g # h => pc'[g] = pc[g] /\ req'[g] = req[g]
    BY <1>1, <1>2 DEF Return
  <1>5. SavingInv'
    <2>1. \A g \in Handlers : pc'[g] = "save" => g # h /\ pc[g] = "save"
      BY <1>4
    <2>2. QED
      BY <1>1, <1>4, <2>1 DEF NonceInv, SavingInv
  <1>6. StoreInv'
    <2>1. SUFFICES ASSUME NEW n \in Nonces
                   PROVE  /\ nonce'[n].until > 0 => nonce'[n].object = n /\ n \notin taken'
                          /\ n \notin taken' => redeemed'[n] = <<>>
                          /\ signed'[n] <= now' + PresignTTL
                          /\ n \in answered' \ taken' => signed'[n] <= nonce'[n].until
      BY DEF StoreInv
    <2>2. /\ nonce[n].until > 0 => nonce[n].object = n /\ n \notin taken
          /\ n \notin taken => redeemed[n] = <<>>
          /\ signed[n] <= now + PresignTTL
          /\ n \in answered \ taken => signed[n] <= nonce[n].until
      BY DEF NonceInv, StoreInv
    <2>3. CASE n = m
      <3>1. nonce'[n] = Nonce(h) \/ (nonce'[n] = nonce[n] /\ answered' = answered)
        BY <1>1, <1>2, <2>3
      <3>2. QED
        BY <1>1, <1>2, <1>3, <2>2, <2>3, <3>1
    <2>4. CASE n # m
      <3>1. nonce'[n] = nonce[n] /\ (n \in answered' <=> n \in answered)
        BY <1>1, <1>2, <2>4
      <3>2. QED
        BY <1>1, <2>2, <3>1
    <2>5. QED
      BY <2>3, <2>4
  <1>7. NonceSingleUse'
    BY <1>1 DEF NonceInv, NonceSingleUse
  <1>8. QED
    BY <1>5, <1>6, <1>7 DEF NonceInv

\* GETDEL takes the nonce away before its callback succeeds.
LEMMA CallbackKeepsNonces ==
    ASSUME BaseInv, NonceInv, NEW h \in Handlers, Callback(h) \/ CallbackFails(h), [Next]_vars
    PROVE  NonceInv'
  <1> DEFINE m == req[h].item
  <1>1. /\ UNCHANGED <<now, signed, presigned, answered>>
        /\ req[h].op = "callback"
        /\ \/ UNCHANGED <<nonce, taken, redeemed>>
           \/ Present(m) /\ TakeNonce(m)
    BY DEF Callback, CallbackFails
  <1>2. /\ m \in answered /\ m \in Nonces /\ now \in Nat
        /\ nonce \in [Nonces -> [user : Users \cup {None}, object : Nonces \cup {0}, until : Nat]]
        /\ redeemed \in [Nonces -> Seq(Receipts)]
    <2>1. m \in answered /\ answered \subseteq 1..presigned
      BY <1>1 DEF BaseInv, FitInv, Fits, UploadData
    <2>2. 1..presigned \subseteq Nonces
      BY PresignedBound
    <2>3. now \in Nat
      BY SessionConstants DEF BaseInv, SessionData
    <2>4. QED
      BY <2>1, <2>2, <2>3 DEF BaseInv, UploadData
  <1>3. SavingInv'
    BY <1>1, ProgressStep, SavingKept DEF NonceInv
  <1>4. CASE UNCHANGED <<nonce, taken, redeemed>>
    <2>1. UNCHANGED uploadVars
      BY <1>1, <1>4 DEF uploadVars
    <2>2. QED
      BY <2>1, NonceQuiet
  <1>5. CASE Present(m) /\ TakeNonce(m)
    <2> DEFINE receipt == [user |-> req[h].user, url |-> nonce[m].object]
    <2>1. nonce[m].until > 0 /\ nonce[m].object = m /\ m \notin taken /\ redeemed[m] = <<>>
      <3>1. nonce[m].until > 0
        BY <1>2, <1>5 DEF Present
      <3>2. QED
        BY <1>2, <3>1 DEF NonceInv, StoreInv
    <2>2. /\ nonce' = [nonce EXCEPT ![m] = NoNonce] /\ taken' = taken \cup {m}
          /\ \/ redeemed' = redeemed
             \/ redeemed' = [redeemed EXCEPT ![m] = Append(redeemed[m], receipt)]
      BY <1>2, <1>5 DEF TakeNonce, Callback, CallbackFails
    <2>3. /\ \A n \in Nonces : n # m => /\ nonce'[n] = nonce[n] /\ redeemed'[n] = redeemed[n]
                                        /\ (n \in taken' <=> n \in taken)
          /\ nonce'[m].until = 0 /\ m \in taken'
          /\ redeemed'[m] = <<>> \/ redeemed'[m] = Append(<<>>, receipt)
      BY <1>2, <2>1, <2>2 DEF NoNonce
    <2>4. StoreInv'
      <3>1. SUFFICES ASSUME NEW n \in Nonces
                     PROVE  /\ nonce'[n].until > 0 => nonce'[n].object = n /\ n \notin taken'
                            /\ n \notin taken' => redeemed'[n] = <<>>
                            /\ signed'[n] <= now' + PresignTTL
                            /\ n \in answered' \ taken' => signed'[n] <= nonce'[n].until
        BY DEF StoreInv
      <3>2. /\ nonce[n].until > 0 => nonce[n].object = n /\ n \notin taken
            /\ n \notin taken => redeemed[n] = <<>>
            /\ signed[n] <= now + PresignTTL
            /\ n \in answered \ taken => signed[n] <= nonce[n].until
        BY DEF NonceInv, StoreInv
      <3>3. CASE n = m
        BY <1>1, <2>3, <3>2, <3>3
      <3>4. CASE n # m
        BY <1>1, <2>3, <3>2, <3>4
      <3>5. QED
        BY <3>3, <3>4
    <2>5. NonceSingleUse'
      <3>1. ASSUME NEW n \in Nonces, n # m
            PROVE  /\ Len(redeemed'[n]) <= 1
                   /\ \A i \in DOMAIN redeemed'[n] : redeemed'[n][i].url = n /\ n \in taken'
        BY <2>3, <3>1 DEF NonceInv, NonceSingleUse
      <3>2. /\ Len(redeemed'[m]) <= 1
            /\ \A i \in DOMAIN redeemed'[m] : redeemed'[m][i].url = m /\ m \in taken'
        <4>1. receipt.url = m
          BY <2>1
        <4>2. /\ Append(<<>>, receipt) = <<receipt>> /\ Len(<<receipt>>) = 1
              /\ DOMAIN <<receipt>> = {1} /\ <<receipt>>[1] = receipt
          OBVIOUS
        <4>3. Len(<<>>) = 0 /\ DOMAIN <<>> = {}
          OBVIOUS
        <4> HIDE DEF receipt
        <4>4. CASE redeemed'[m] = <<>>
          BY <4>3, <4>4
        <4>5. CASE redeemed'[m] = <<receipt>>
          BY <2>3, <4>1, <4>2, <4>5
        <4>6. QED
          BY <2>3, <4>2, <4>4, <4>5
      <3>3. QED
        BY <3>1, <3>2 DEF NonceSingleUse
    <2>6. QED
      BY <1>3, <2>4, <2>5 DEF NonceInv
  <1>6. QED
    BY <1>1, <1>4, <1>5

\* Every step preserves NonceInv.
LEMMA NonceStep == BaseInv /\ NonceInv /\ [Next]_vars => NonceInv'
  <1> SUFFICES ASSUME BaseInv, NonceInv, [Next]_vars PROVE NonceInv'
    OBVIOUS
  <1>1. CASE UNCHANGED uploadVars
    BY <1>1, NonceQuiet
  <1>2. CASE \E h \in Handlers : UploadStep(h)
    BY <1>2, SignNonce, SaveKeepsNonces, CallbackKeepsNonces DEF UploadStep
  <1>3. QED
    BY <1>1, <1>2 DEF Next, vars

\* The nonce invariant holds from the start on.
LEMMA NonceInvariance == Spec => []NonceInv
  <1>1. Init => NonceInv
    <2>1. SUFFICES ASSUME Init PROVE NonceInv
      OBVIOUS
    <2>2. SavingInv
      BY <2>1 DEF Init, SessionInit, SavingInv
    <2>3. StoreInv
      BY <2>1, SessionConstants DEF Init, SessionInit, NoNonce, StoreInv
    <2>4. NonceSingleUse
      BY <2>1 DEF Init, NonceSingleUse
    <2>5. QED
      BY <2>2, <2>3, <2>4 DEF NonceInv
  <1>2. QED
    BY <1>1, NonceStep, BaseInvariance, PTL DEF Spec

\* Of all callbacks for a nonce at most one succeeds, and it gets the URL that was
\* signed with the nonce (upload_service.go:138-142), however callbacks, failing
\* stores and lost replies interleave.
THEOREM NoncesAreSingleUse == Spec => []NonceSingleUse
  <1>1. NonceInv => NonceSingleUse
    BY DEF NonceInv
  <1>2. QED
    BY <1>1, NonceInvariance, PTL

\* A client can call back for as long as its upload URL is valid
\* (upload.go:39-41): the nonce is stored after the URL was signed, for as long.
THEOREM NoncesOutliveUrls == Spec => []NonceOutlivesUrl
  <1>1. BaseInv /\ NonceInv => NonceOutlivesUrl
    <2>1. SUFFICES ASSUME BaseInv, NonceInv, NEW n \in answered \ taken, now < signed[n]
                   PROVE  now < nonce[n].until
      BY DEF NonceOutlivesUrl, Present
    <2>2. n \in Nonces
      BY <2>1, PresignedBound DEF BaseInv, UploadData
    <2>3. now \in Nat /\ signed[n] \in Nat /\ nonce[n].until \in Nat
      BY <2>1, <2>2, SessionConstants DEF BaseInv, UploadData, SessionData
    <2>4. signed[n] <= nonce[n].until
      BY <2>1, <2>2 DEF NonceInv, StoreInv
    <2>5. QED
      BY <2>1, <2>3, <2>4
  <1>2. QED
    BY <1>1, BaseInvariance, NonceInvariance, PTL

-----------------------------------------------------------------------------
(***************************************************************************)
(* The sliding window.  Between its two pipelines a request knows only     *)
(* what the first one counted; a request that is alone in the limiter of   *)
(* its user can rely on it, because every change to the set needs another. *)
(***************************************************************************)

Limiting(h) == pc[h] \in {"count", "record"}

\* Of two requests of one user in the limiter each knows that it is not alone.
AloneInv ==
    \A g, h \in Handlers :
        g # h /\ Limiting(g) /\ Limiting(h) /\ req[g].user = req[h].user => req[h].raced

\* The sorted set holds the times of the window, and its key outlives them.
SlotInv ==
    \A u \in Users :
        /\ IsFiniteSet(slots[u]) /\ IsFiniteSet(passed[u])
        /\ \A s \in passed[u] :
              /\ s <= now
              /\ InWindow(s, now) => s \in slots[u] /\ s + Window + Slack <= slotsUntil[u]

\* The requests of u let through in the window that ends at t.
Recent(u, t) == {s \in passed[u] : InWindow(s, t)}

\* A request that has the limiter to itself is the latest, finds every passed
\* request of its window in the set and has found fewer of them than Limit.
Turn(h) ==
    /\ req[h].at <= now
    /\ ~req[h].raced =>
          LET u == req[h].user
          IN  /\ \A s \in passed[u] : s <= req[h].at
              /\ pc[h] = "count" =>
                    \A s \in Recent(u, req[h].at) :
                        s \in slots[u] /\ s + Window + Slack <= slotsUntil[u]
              /\ pc[h] = "record" => Cardinality(Recent(u, req[h].at)) < Limit

TurnInv == \A h \in Handlers : Limiting(h) => Turn(h)

LimitInv == AloneInv /\ SlotInv /\ TurnInv /\ RateLimited

\* The handlers but h stay where they are.
OthersWait(h) == \A g \in Handlers : g # h => pc'[g] = pc[g] /\ req'[g] = req[g]

\* The windows of the other users stay as they are.
OnlyUser(u) ==
    \A v \in Users :
        v # u => slots'[v] = slots[v] /\ slotsUntil'[v] = slotsUntil[v] /\ passed'[v] = passed[v]

\* A request that the limiter has admitted within the window is still in the set.
LEMMA LiveSlot ==
    ASSUME BaseInv, SlotInv, NEW u \in Users, NEW s \in passed[u], InWindow(s, now)
    PROVE  s \in Nat /\ s \in Slots(u) /\ s <= now
  <1>1. s \in Nat /\ now \in Nat /\ Window \in Nat /\ Slack \in Nat /\ slotsUntil[u] \in Nat
    BY SessionConstants DEF BaseInv, LimitData, SessionData
  <1>2. s <= now /\ s \in slots[u] /\ s + Window + Slack <= slotsUntil[u]
    BY DEF SlotInv
  <1>3. s > now - Window
    BY DEF InWindow
  <1>4. now < slotsUntil[u]
    BY <1>1, <1>2, <1>3
  <1>5. QED
    BY <1>1, <1>2, <1>4 DEF Slots

\* A step of one request in the limiter leaves the others of its user raced, and
\* those of other users what they rely on.
LEMMA TurnOthers ==
    ASSUME BaseInv, AloneInv, TurnInv, NEW h \in Handlers, Limiting(h), OthersWait(h),
           OnlyUser(req[h].user), now' = now, NEW g \in Handlers, g # h, Limiting(g)'
    PROVE  Turn(g)'
  <1>1. pc'[g] = pc[g] /\ req'[g] = req[g] /\ Limiting(g) /\ Turn(g)
    BY DEF OthersWait, Limiting, TurnInv
  <1>2. req[g].user \in Users
    BY <1>1 DEF BaseInv, FitInv, Fits, Limiting
  <1>3. CASE req[g].user = req[h].user
    <2>1. req[g].raced
      BY <1>1, <1>3 DEF AloneInv
    <2>2. QED
      BY <1>1, <2>1 DEF Turn
  <1>4. CASE req[g].user # req[h].user
    <2> DEFINE u == req[g].user
    <2>1. slots'[u] = slots[u] /\ slotsUntil'[u] = slotsUntil[u] /\ passed'[u] = passed[u]
      BY <1>2, <1>4 DEF OnlyUser
    <2>2. QED
      BY <1>1, <2>1 DEF Turn, Recent, InWindow
  <1>5. QED
    BY <1>3, <1>4

\* A request that stays in the limiter does not forget that it was raced.
LEMMA AloneOthers ==
    ASSUME AloneInv, NEW h \in Handlers, OthersWait(h),
           Limiting(h)' => /\ Limiting(h) /\ req'[h].user = req[h].user
                           /\ req[h].raced => req'[h].raced
    PROVE  AloneInv'
  <1>1. SUFFICES ASSUME NEW f \in Handlers, NEW g \in Handlers, f # g, Limiting(f)', Limiting(g)',
                        req'[f].user = req'[g].user
                 PROVE  req'[g].raced
    BY DEF AloneInv
  <1>2. \A e \in {f, g} : /\ Limiting(e) /\ req'[e].user = req[e].user
                          /\ req[e].raced => req'[e].raced
    BY <1>1 DEF OthersWait, Limiting
  <1>3. QED
    BY <1>1, <1>2 DEF AloneInv

\* As time goes on the window leaves requests behind and takes none back.
LEMMA WindowAdvances ==
    ASSUME NEW s \in Nat, NEW t \in Nat, NEW u \in Nat, t <= u, Window \in Nat, InWindow(s, u)
    PROVE  InWindow(s, t)
  BY DEF InWindow

\* Steps outside the limiter.
LEMMA LimitQuiet ==
    ASSUME BaseInv, LimitInv, UNCHANGED limitVars, now <= now', now \in Nat, now' \in Nat,
           \A g \in Handlers : Limiting(g)' => pc'[g] = pc[g] /\ req'[g] = req[g]
    PROVE  LimitInv'
  <1>1. slots' = slots /\ slotsUntil' = slotsUntil /\ passed' = passed /\ Window \in Nat
    BY SessionConstants DEF limitVars
  <1>2. \A g \in Handlers : Limiting(g)' => Limiting(g)
    BY DEF Limiting
  <1>3. AloneInv'
    BY <1>2 DEF LimitInv, AloneInv
  <1>4. SlotInv'
    <2>1. SUFFICES ASSUME NEW u \in Users, NEW s \in passed[u]
                   PROVE  /\ s <= now'
                          /\ InWindow(s, now') => /\ s \in slots[u]
                                                  /\ s + Window + Slack <= slotsUntil[u]
      BY <1>1 DEF LimitInv, SlotInv, InWindow
    <2>2. s \in Nat
      BY <2>1 DEF BaseInv, LimitData
    <2>3. /\ s <= now
          /\ InWindow(s, now) => s \in slots[u] /\ s + Window + Slack <= slotsUntil[u]
      BY <2>1 DEF LimitInv, SlotInv
    <2>4. InWindow(s, now') => InWindow(s, now)
      BY <1>1, <2>2, WindowAdvances
    <2>5. QED
      BY <2>2, <2>3, <2>4
  <1>5. TurnInv'
    <2>1. SUFFICES ASSUME NEW g \in Handlers, Limiting(g)'
                   PROVE  Turn(g)'
      BY DEF TurnInv
    <2>2. pc'[g] = pc[g] /\ req'[g] = req[g] /\ Turn(g) /\ req[g].at \in Nat
      BY <1>2, <2>1 DEF LimitInv, TurnInv, BaseInv, FitInv, Requests
    <2>3. req'[g].at <= now'
      BY <2>2 DEF Turn
    <2>4. QED
      BY <1>1, <2>2, <2>3 DEF Turn, Recent, InWindow
  <1>6. RateLimited'
    BY <1>1 DEF LimitInv, RateLimited
  <1>7. QED
    BY <1>3, <1>4, <1>5, <1>6 DEF LimitInv

\* A request that enters an empty limiter finds the window as SlotInv has it; one
\* that does not makes itself and the others raced.
LEMMA LimitEnter ==
    ASSUME BaseInv, LimitInv, NEW h \in Handlers, EnterLimiter(h)
    PROVE  LimitInv'
  <1>1. /\ UNCHANGED <<now, slots, slotsUntil, passed>> /\ pc[h] = "authed"
        /\ pc' = [pc EXCEPT ![h] = "count"]
    BY DEF EnterLimiter, limitVars
  <1>2. pc \in [Handlers -> Steps] /\ req \in [Handlers -> Requests] /\ now \in Nat
        /\ req[h].user \in Users
    BY <1>1, SessionConstants DEF BaseInv, FitInv, Fits, SessionData
  <1> DEFINE u == req[h].user
             others == InLimiter(u)
  <1>3. PICK b \in BOOLEAN : b = (others # {})
    <2>1. (others # {}) \in BOOLEAN
      OBVIOUS
    <2>2. QED
      BY <2>1, Zenon
  <1>4. /\ req'[h].user = u /\ req'[h].at = now /\ req'[h].raced = b
        /\ pc'[h] = "count"
    <2>1. req'[h] = [req[h] EXCEPT !.at = now, !.raced = b]
      BY <1>3 DEF EnterLimiter
    <2> DEFINE r1 == [req[h] EXCEPT !.at = now]
    <2>2. r1 \in Requests /\ r1.user = u /\ r1.at = now
      BY <1>2 DEF Requests
    <2>3. req'[h] = [r1 EXCEPT !.raced = b]
      BY <2>1
    <2> HIDE DEF r1
    <2>4. QED
      BY <1>1, <1>2, <2>2, <2>3 DEF Requests
  <1>5. ASSUME NEW g \in Handlers, g # h, Limiting(g)'
        PROVE  /\ pc'[g] = pc[g] /\ Limiting(g) /\ req'[g].user = req[g].user
               /\ req'[g].at = req[g].at /\ (req[g].raced => req'[g].raced)
               /\ req[g].user # u => req'[g].raced = req[g].raced
               /\ req[g].user = u => req'[g].raced /\ b
    <2>1. pc'[g] = pc[g] /\ Limiting(g) /\ req[g] \in Requests
      BY <1>1, <1>2, <1>5 DEF Limiting
    <2>2. g \in others <=> req[g].user = u
      BY <2>1 DEF InLimiter, Limiting
    <2>3. req'[g] = IF g \in others THEN [req[g] EXCEPT !.raced = TRUE] ELSE req[g]
      BY <1>5 DEF EnterLimiter
    <2>4. CASE g \in others
      <3>1. b
        BY <1>3, <2>4
      <3>2. QED
        BY <2>1, <2>2, <2>3, <2>4, <3>1 DEF Requests
    <2>5. CASE g \notin others
      BY <2>1, <2>2, <2>3, <2>5
    <2>6. QED
      BY <2>4, <2>5
  <1> HIDE DEF others, u
  <1>6. AloneInv'
    <2>1. SUFFICES ASSUME NEW f \in Handlers, NEW g \in Handlers, f # g, Limiting(f)', Limiting(g)',
                          req'[f].user = req'[g].user
                   PROVE  req'[g].raced
      BY DEF AloneInv
    <2>2. CASE g = h
      BY <1>4, <1>5, <2>1, <2>2
    <2>3. CASE f = h
      BY <1>4, <1>5, <2>1, <2>3
    <2>4. CASE f # h /\ g # h
      BY <1>5, <2>1, <2>4 DEF LimitInv, AloneInv
    <2>5. QED
      BY <2>2, <2>3, <2>4
  <1>7. SlotInv' /\ RateLimited'
    BY <1>1 DEF LimitInv, SlotInv, RateLimited, InWindow
  <1>8. TurnInv'
    <2>1. SUFFICES ASSUME NEW g \in Handlers, Limiting(g)'
                   PROVE  Turn(g)'
      BY DEF TurnInv
    <2>2. CASE g = h
      <3>1. now <= now
        BY <1>2
      <3>2. \A s \in passed[u] : /\ s <= now
                                 /\ InWindow(s, now) => /\ s \in slots[u]
                                                        /\ s + Window + Slack <= slotsUntil[u]
        BY <1>2 DEF LimitInv, SlotInv, u
      <3>3. QED
        BY <1>1, <1>4, <2>2, <3>1, <3>2 DEF Turn, Recent, InWindow
    <2>3. CASE g # h
      <3>1. Turn(g)
        BY <1>5, <2>1, <2>3 DEF LimitInv, TurnInv
      <3>2. QED
        BY <1>1, <1>5, <2>1, <2>3, <3>1 DEF Turn, Recent, InWindow
    <2>4. QED
      BY <2>2, <2>3
  <1>9. QED
    BY <1>6, <1>7, <1>8 DEF LimitInv

\* The first pipeline: it drops what has left the window and counts the rest.
LEMMA LimitCount ==
    ASSUME BaseInv, LimitInv, NEW h \in Handlers, CountWindow(h)
    PROVE  LimitInv'
  <1> DEFINE u == req[h].user
             at == req[h].at
             rest == {s \in Slots(u) : InWindow(s, at)}
  <1>1. /\ UNCHANGED <<now, slotsUntil, passed>> /\ pc[h] = "count"
        /\ slots' = [slots EXCEPT ![u] = rest]
    BY DEF CountWindow
  <1>2. /\ pc \in [Handlers -> Steps] /\ req \in [Handlers -> Requests] /\ req[h] \in Requests
        /\ u \in Users /\ at \in Nat /\ req[h].raced \in BOOLEAN
        /\ now \in Nat /\ Window \in Nat /\ Slack \in Nat /\ Limit \in Nat
        /\ slots \in [Users -> SUBSET Nat] /\ slotsUntil \in [Users -> Nat]
        /\ passed \in [Users -> SUBSET Nat]
    <2>1. req[h] \in Requests /\ u \in Users
      BY <1>1 DEF BaseInv, FitInv, Fits
    <2>2. QED
      BY <2>1, SessionConstants DEF BaseInv, FitInv, SessionData, LimitData, Requests
  <1>3. slots'[u] = rest /\ IsFiniteSet(rest)
    <2>1. IsFiniteSet(slots[u]) /\ rest \subseteq slots[u]
      BY <1>2 DEF LimitInv, SlotInv, Slots
    <2>2. QED
      BY <1>1, <1>2, <2>1, FS_Subset
  <1>4. OnlyUser(u)
    BY <1>1, <1>2 DEF OnlyUser
  <1>5. Turn(h) /\ Limiting(h)
    BY <1>1 DEF LimitInv, TurnInv, Limiting
  <1>6. OthersWait(h)
    <2>1. CASE Return(h)
      BY <1>2, <2>1 DEF Return, OthersWait
    <2>2. CASE ~Return(h)
      BY <1>2, <2>2 DEF CountWindow, OthersWait
    <2>3. QED
      BY <2>1, <2>2
  <1>7. ASSUME Limiting(h)'
        PROVE  /\ pc'[h] = "record" /\ Cardinality(rest) < Limit
               /\ req'[h].user = u /\ req'[h].at = at
               /\ ~req'[h].raced => ~req[h].raced /\ now <= at + Slack
    <2>1. ~Return(h)
      BY <1>2, <1>7 DEF Return, Limiting
    <2>2. /\ ~(Cardinality(rest) >= Limit) /\ pc' = [pc EXCEPT ![h] = "record"]
          /\ req' = [req EXCEPT ![h].raced = req[h].raced \/ now > at + Slack]
      BY <1>2, <2>1 DEF CountWindow
    <2>3. PICK b \in BOOLEAN : b = (req[h].raced \/ now > at + Slack)
      <3>1. (req[h].raced \/ now > at + Slack) \in BOOLEAN
        OBVIOUS
      <3>2. QED
        BY <3>1, Zenon
    <2>4. req'[h] = [req[h] EXCEPT !.raced = b]
      BY <1>2, <2>2, <2>3
    <2>5. req'[h].user = u /\ req'[h].at = at /\ req'[h].raced = b
      BY <1>2, <2>4 DEF Requests
    <2>6. Cardinality(rest) < Limit
      BY <1>2, <1>3, <2>2, FS_CardinalityType
    <2>7. ~b => ~req[h].raced /\ ~(now > at + Slack)
      BY <2>3, Zenon
    <2>8. ~(now > at + Slack) => now <= at + Slack
      BY <1>2
    <2>9. pc'[h] = "record"
      BY <1>2, <2>2
    <2>10. QED
      BY <2>5, <2>6, <2>7, <2>8, <2>9
  <1> HIDE DEF u, at, rest
  <1>8. AloneInv'
    BY <1>5, <1>6, <1>7, AloneOthers DEF LimitInv, u
  <1>9. SlotInv'
    <2>1. \A v \in Users : v # u => slots'[v] = slots[v]
      BY <1>4 DEF OnlyUser
    <2>2. ASSUME NEW s \in passed[u], InWindow(s, now)
          PROVE  s \in rest
      <3>1. s \in Nat /\ s \in Slots(u)
        BY <1>2, <2>2, LiveSlot DEF LimitInv
      <3>2. InWindow(s, at)
        BY <1>2, <1>5, <2>2, <3>1 DEF InWindow, Turn, at
      <3>3. QED
        BY <3>1, <3>2 DEF rest
    <2>3. \A v \in Users : IsFiniteSet(slots'[v])
      BY <1>3, <2>1 DEF LimitInv, SlotInv
    <2>4. \A v \in Users : \A s \in passed[v] : InWindow(s, now) => s \in slots'[v]
      BY <1>3, <2>1, <2>2 DEF LimitInv, SlotInv
    <2>5. QED
      BY <1>1, <2>3, <2>4 DEF LimitInv, SlotInv, InWindow
  <1>10. ASSUME Limiting(h)'
         PROVE  Turn(h)'
    <2>1. req'[h].at <= now'
      BY <1>1, <1>5, <1>7, <1>10 DEF Turn, at
    <2>2. ASSUME ~req'[h].raced
          PROVE  /\ \A s \in passed[u] : s <= at
                 /\ Cardinality(Recent(u, at)) < Limit
      <3>1. ~req[h].raced /\ now <= at + Slack /\ Cardinality(rest) < Limit
        BY <1>7, <1>10, <2>2
      <3>2. /\ \A s \in passed[u] : s <= at
            /\ \A s \in Recent(u, at) : s \in slots[u] /\ s + Window + Slack <= slotsUntil[u]
        BY <1>1, <1>5, <3>1 DEF Turn, u, at
      <3>3. Recent(u, at) \subseteq rest
        <4>1. SUFFICES ASSUME NEW s \in Recent(u, at) PROVE s \in Slots(u) /\ InWindow(s, at)
          BY DEF rest
        <4>2. s \in Nat /\ InWindow(s, at) /\ slotsUntil[u] \in Nat
          BY <1>2, <4>1 DEF Recent
        <4>3. s \in slots[u] /\ s + Window + Slack <= slotsUntil[u]
          BY <3>2, <4>1
        <4>4. now < slotsUntil[u]
          BY <1>2, <3>1, <4>2, <4>3 DEF InWindow
        <4>5. QED
          BY <4>2, <4>3, <4>4 DEF Slots
      <3>4. Cardinality(Recent(u, at)) <= Cardinality(rest) /\ IsFiniteSet(Recent(u, at))
        BY <1>3, <3>3, FS_Subset
      <3>5. QED
        BY <1>2, <1>3, <3>1, <3>2, <3>4, FS_CardinalityType
    <2>3. pc'[h] = "record" /\ req'[h].user = u /\ req'[h].at = at
      BY <1>7, <1>10
    <2>4. QED
      BY <1>1, <2>1, <2>2, <2>3 DEF Turn, Recent, InWindow
  <1>11. TurnInv'
    BY <1>1, <1>4, <1>5, <1>6, <1>10, TurnOthers DEF LimitInv, TurnInv, u
  <1>12. RateLimited'
    BY <1>1 DEF LimitInv, RateLimited
  <1>13. QED
    BY <1>8, <1>9, <1>11, <1>12 DEF LimitInv

\* The second pipeline keeps the window in the set and extends the key.
LEMMA LimitRecord ==
    ASSUME BaseInv, LimitInv, NEW h \in Handlers, Limiting(h), Record(req[h].user, req[h].at),
           now' = now
    PROVE  /\ OnlyUser(req[h].user) \/ passed' # passed
           /\ \A v \in Users :
                 /\ IsFiniteSet(slots'[v])
                 /\ \A s \in passed[v] :
                       InWindow(s, now) => s \in slots'[v] /\ s + Window + Slack <= slotsUntil'[v]
           /\ req[h].at \in slots'[req[h].user]
           /\ req[h].at + Window + Slack <= slotsUntil'[req[h].user]
           /\ \A v \in Users \ {req[h].user} :
                 slots'[v] = slots[v] /\ slotsUntil'[v] = slotsUntil[v]
  <1> DEFINE u == req[h].user
             at == req[h].at
  <1>1. /\ u \in Users /\ at \in Nat /\ now \in Nat /\ Window \in Nat /\ Slack \in Nat
        /\ slots \in [Users -> SUBSET Nat] /\ slotsUntil \in [Users -> Nat]
        /\ passed \in [Users -> SUBSET Nat]
    <2>1. req[h] \in Requests /\ u \in Users
      BY DEF BaseInv, FitInv, Fits, Limiting
    <2>2. QED
      BY <2>1, SessionConstants DEF BaseInv, SessionData, LimitData, Requests
  <1>2. at <= now
    BY DEF LimitInv, TurnInv, Turn
  <1>3. /\ slots'[u] = Slots(u) \cup {at} /\ slotsUntil'[u] = now + Window + Slack
        /\ \A v \in Users \ {u} : slots'[v] = slots[v] /\ slotsUntil'[v] = slotsUntil[v]
    BY <1>1 DEF Record
  <1>4. IsFiniteSet(slots'[u])
    <2>1. IsFiniteSet(slots[u]) /\ Slots(u) \subseteq slots[u]
      BY <1>1 DEF LimitInv, SlotInv, Slots
    <2>2. IsFiniteSet(Slots(u))
      BY <2>1, FS_Subset
    <2>3. QED
      BY <1>3, <2>2, FS_AddElement
  <1>5. ASSUME NEW s \in passed[u], InWindow(s, now)
        PROVE  s \in slots'[u] /\ s + Window + Slack <= slotsUntil'[u]
    <2>1. s \in Nat /\ s \in Slots(u) /\ s <= now
      BY <1>1, <1>5, LiveSlot DEF LimitInv
    <2>2. QED
      BY <1>1, <1>3, <2>1
  <1>6. at \in slots'[u] /\ at + Window + Slack <= slotsUntil'[u]
    BY <1>1, <1>2, <1>3
  <1> HIDE DEF u, at
  <1>7. \A v \in Users : /\ IsFiniteSet(slots'[v])
                         /\ \A s \in passed[v] :
                               InWindow(s, now) => /\ s \in slots'[v]
                                                   /\ s + Window + Slack <= slotsUntil'[v]
    BY <1>3, <1>4, <1>5 DEF LimitInv, SlotInv
  <1>8. OnlyUser(u) \/ passed' # passed
    BY <1>3 DEF OnlyUser
  <1>9. QED
    BY <1>3, <1>6, <1>7, <1>8 DEF u, at

\* A request leaves the limiter without a place in the history.
LEMMA LimitLeave ==
    ASSUME BaseInv, LimitInv, NEW h \in Handlers, Limiting(h), Goto(h, "allowed"),
           now' = now, passed' = passed,
           Record(req[h].user, req[h].at) \/ UNCHANGED <<slots, slotsUntil>>
    PROVE  LimitInv'
  <1>1. OthersWait(h) /\ ~Limiting(h)'
    BY DEF Goto, OthersWait, Limiting, BaseInv, FitInv
  <1>2. AloneInv'
    BY <1>1, AloneOthers DEF LimitInv
  <1>3. OnlyUser(req[h].user)
    BY LimitRecord DEF OnlyUser
  <1>4. TurnInv'
    BY <1>1, <1>3, TurnOthers DEF LimitInv, TurnInv
  <1>5. SlotInv'
    <2>1. \A v \in Users :
             /\ IsFiniteSet(slots'[v])
             /\ \A s \in passed[v] :
                   InWindow(s, now) => s \in slots'[v] /\ s + Window + Slack <= slotsUntil'[v]
      BY LimitRecord DEF LimitInv, SlotInv
    <2>2. QED
      BY <2>1 DEF LimitInv, SlotInv, InWindow
  <1>6. RateLimited'
    BY DEF LimitInv, RateLimited
  <1>7. QED
    BY <1>2, <1>4, <1>5, <1>6 DEF LimitInv

\* A request that had the limiter to itself gets its place in the history: its
\* window then holds those it has counted and itself.
LEMMA LimitPass ==
    ASSUME BaseInv, LimitInv, NEW h \in Handlers, pc[h] = "record", ~req[h].raced,
           Goto(h, "allowed"), now' = now, Record(req[h].user, req[h].at),
           passed' = [passed EXCEPT ![req[h].user] = @ \cup {req[h].at}]
    PROVE  LimitInv'
  <1> DEFINE u == req[h].user
             at == req[h].at
  <1>1. OthersWait(h) /\ ~Limiting(h)' /\ Limiting(h)
    BY DEF Goto, OthersWait, Limiting, BaseInv, FitInv
  <1>2. /\ u \in Users /\ at \in Nat /\ now \in Nat /\ Window \in Nat /\ Limit \in Nat
        /\ passed \in [Users -> SUBSET Nat]
    <2>1. req[h] \in Requests /\ u \in Users
      BY <1>1 DEF BaseInv, FitInv, Fits, Limiting
    <2>2. QED
      BY <2>1, SessionConstants DEF BaseInv, SessionData, LimitData, Requests
  <1>3. /\ passed'[u] = passed[u] \cup {at}
        /\ \A v \in Users : v # u => passed'[v] = passed[v]
    BY <1>2
  <1>4. /\ at <= now /\ \A s \in passed[u] : s <= at
        /\ Cardinality(Recent(u, at)) < Limit
    BY <1>1 DEF LimitInv, TurnInv, Turn
  <1>5. AloneInv'
    BY <1>1, AloneOthers DEF LimitInv
  <1>6. /\ \A v \in Users : v # u => slots'[v] = slots[v] /\ slotsUntil'[v] = slotsUntil[v]
        /\ \A v \in Users :
             /\ IsFiniteSet(slots'[v])
             /\ \A s \in passed[v] :
                   InWindow(s, now) => s \in slots'[v] /\ s + Window + Slack <= slotsUntil'[v]
        /\ at \in slots'[u] /\ at + Window + Slack <= slotsUntil'[u]
    BY <1>1, LimitRecord
  <1>7. OnlyUser(req[h].user)
    BY <1>3, <1>6 DEF OnlyUser
  <1>8. TurnInv'
    BY <1>1, <1>7, TurnOthers DEF LimitInv, TurnInv
  <1> HIDE DEF u, at
  <1>9. SlotInv'
    <2>1. \A v \in Users : IsFiniteSet(passed'[v])
      BY <1>2, <1>3, FS_AddElement DEF LimitInv, SlotInv
    <2>2. ASSUME NEW v \in Users, NEW s \in passed'[v]
          PROVE  /\ s <= now
                 /\ InWindow(s, now) => s \in slots'[v] /\ s + Window + Slack <= slotsUntil'[v]
      <3>1. CASE s \in passed[v]
        BY <1>6, <3>1 DEF LimitInv, SlotInv
      <3>2. CASE s \notin passed[v]
        BY <1>3, <1>4, <1>6, <2>2, <3>2
      <3>3. QED
        BY <3>1, <3>2
    <2>3. QED
      BY <1>6, <2>1, <2>2 DEF SlotInv, InWindow
  <1>10. RateLimited'
    <2>1. SUFFICES ASSUME NEW v \in Users, NEW t \in passed'[v]
                   PROVE  Cardinality({s \in passed'[v] : s <= t /\ s > t - Window}) <= Limit
      BY DEF RateLimited
    <2> DEFINE W(p) == {s \in p : s <= t /\ s > t - Window}
    <2>2. CASE v # u \/ (t # at /\ t \in passed[v])
      <3>1. t \in passed[v] /\ t \in Nat
        BY <1>2, <1>3, <2>1, <2>2
      <3>2. Cardinality(W(passed[v])) <= Limit
        BY <3>1 DEF LimitInv, RateLimited
      <3>3. W(passed'[v]) = W(passed[v])
        <4>1. CASE v # u
          BY <1>3, <4>1
        <4>2. CASE v = u /\ t # at
          <5>1. ~(at <= t)
            BY <1>2, <1>4, <3>1, <4>2
          <5>2. QED
            BY <1>3, <4>2, <5>1
        <4>3. QED
          BY <2>2, <4>1, <4>2
      <3>4. QED
        BY <3>2, <3>3
    <2>3. CASE v = u /\ t = at
      <3>1. IsFiniteSet(Recent(u, at))
        <4>1. IsFiniteSet(passed[u]) /\ Recent(u, at) \subseteq passed[u]
          BY <1>2 DEF LimitInv, SlotInv, Recent
        <4>2. QED
          BY <4>1, FS_Subset
      <3>2. /\ IsFiniteSet(Recent(u, at) \cup {at})
            /\ Cardinality(Recent(u, at) \cup {at}) <= Limit
        <4>1. /\ IsFiniteSet(Recent(u, at) \cup {at})
              /\ \/ Cardinality(Recent(u, at) \cup {at}) = Cardinality(Recent(u, at))
                 \/ Cardinality(Recent(u, at) \cup {at}) = Cardinality(Recent(u, at)) + 1
          BY <3>1, FS_AddElement
        <4>2. QED
          BY <1>2, <1>4, <3>1, <4>1, FS_CardinalityType
      <3>3. W(passed'[v]) \subseteq Recent(u, at) \cup {at}
        BY <1>3, <2>3 DEF Recent, InWindow
      <3>4. /\ IsFiniteSet(W(passed'[v]))
            /\ Cardinality(W(passed'[v])) <= Cardinality(Recent(u, at) \cup {at})
        BY <3>2, <3>3, FS_Subset
      <3>5. QED
        <4> DEFINE c == Cardinality(W(passed'[v]))
                   d == Cardinality(Recent(u, at) \cup {at})
        <4>1. c \in Nat /\ d \in Nat /\ c <= d /\ d <= Limit
          BY <3>2, <3>4, FS_CardinalityType
        <4> HIDE DEF c, d
        <4>2. c <= Limit
          BY <1>2, <4>1
        <4>3. QED
          BY <4>2 DEF c
    <2>4. QED
      BY <1>3, <2>1, <2>2, <2>3
  <1>11. QED
    BY <1>5, <1>8, <1>9, <1>10 DEF LimitInv

\* Outside the limiter no step puts a request into it.
LEMMA OutsideLimiter ==
    ASSUME BaseInv, NEW h \in Handlers,
           \/ SessionStep(h)
           \/ \E op \in Ops, k \in Access, item \in Nat : Begin(h, op, k, item)
           \/ UploadStep(h)
    PROVE  \A g \in Handlers : Limiting(g)' => pc'[g] = pc[g] /\ req'[g] = req[g]
  <1>1. pc \in [Handlers -> Steps] /\ req \in [Handlers -> Requests]
    BY DEF BaseInv, FitInv
  <1>2. OthersWait(h) /\ ~Limiting(h)'
    <2>1. CASE Return(h)
      BY <1>1, <2>1 DEF Return, OthersWait, Limiting
    <2>2. CASE ~Return(h) /\ SessionStep(h)
      BY <1>1, <2>2 DEF OthersWait, Limiting, SessionStep, BeginRefresh, RefreshPair, RefreshFails,
         Begin, CheckBlacklist, CheckBlacklistFails, CheckBan, CheckBanFails, Authenticated,
         BeginLogout, BlacklistJWT, BlacklistJWTFails
    <2>3. CASE \E op \in Ops, k \in Access, item \in Nat : Begin(h, op, k, item)
      BY <1>1, <2>3 DEF OthersWait, Limiting, Begin
    <2>4. CASE ~Return(h) /\ UploadStep(h)
      BY <1>1, <2>4 DEF OthersWait, Limiting, UploadStep, SignUrl, SaveNonce, SaveNonceFails,
         Callback, CallbackFails
    <2>5. QED
      BY <2>1, <2>2, <2>3, <2>4
  <1>3. QED
    BY <1>2 DEF OthersWait

\* Every step preserves LimitInv.
LEMMA LimitInvStep == BaseInv /\ LimitInv /\ [Next]_vars => LimitInv'
  <1> SUFFICES ASSUME BaseInv, LimitInv, [Next]_vars PROVE LimitInv'
    OBVIOUS
  <1>1. now <= now' /\ now \in Nat /\ now' \in Nat
    BY ProgressStep
  <1>2. CASE UNCHANGED vars
    <2>1. UNCHANGED limitVars /\ UNCHANGED <<pc, req>>
      BY <1>2 DEF vars, sessionVars, reqVars
    <2>2. QED
      BY <1>1, <2>1, LimitQuiet
  <1>3. ASSUME NEW h \in Handlers, LimitStep(h)
        PROVE  LimitInv'
    <2>1. CASE EnterLimiter(h)
      BY <2>1, LimitEnter
    <2>2. CASE CountWindow(h)
      BY <2>2, LimitCount
    <2>3. CASE RecordSlot(h)
      <3>1. /\ pc[h] = "record" /\ Record(req[h].user, req[h].at) /\ Goto(h, "allowed")
            /\ now' = now /\ Limiting(h)
        BY <2>3 DEF RecordSlot, Limiting
      <3>2. \/ passed' = passed
            \/ /\ ~req[h].raced
               /\ passed' = [passed EXCEPT ![req[h].user] = @ \cup {req[h].at}]
        BY <2>3 DEF RecordSlot
      <3>3. QED
        BY <3>1, <3>2, LimitLeave, LimitPass
    <2>4. CASE LimiterFails(h)
      <3>1. /\ Limiting(h) /\ Goto(h, "allowed") /\ now' = now /\ passed' = passed
            /\ Record(req[h].user, req[h].at) \/ UNCHANGED <<slots, slotsUntil>>
        BY <2>4 DEF LimiterFails, Limiting
      <3>2. QED
        BY <3>1, LimitLeave
    <2>5. QED
      BY <1>3, <2>1, <2>2, <2>3, <2>4 DEF LimitStep
  <1>4. ASSUME NEW h \in Handlers, SessionStep(h) \/ UploadStep(h), UNCHANGED limitVars
        PROVE  LimitInv'
    BY <1>1, <1>4, OutsideLimiter, LimitQuiet
  <1>5. ASSUME NEW h \in Handlers, NEW k \in Access,
               Begin(h, "presign", k, 0) \/ \E n \in answered : Begin(h, "callback", k, n),
               UNCHANGED limitVars
        PROVE  LimitInv'
    <2>1. \E op \in Ops, item \in Nat : Begin(h, op, k, item)
      <3>1. answered \subseteq Nat /\ 0 \in Nat
        BY DEF BaseInv, UploadData
      <3>2. QED
        BY <1>5, <3>1 DEF Ops
    <2>2. QED
      BY <1>1, <1>5, <2>1, OutsideLimiter, LimitQuiet
  <1>6. ASSUME (\E u \in Users : LogIn(u) \/ Ban(u)) \/ Tick, UNCHANGED limitVars
        PROVE  LimitInv'
    <2>1. UNCHANGED <<pc, req>>
      BY <1>6 DEF LogIn, Ban, Tick, reqVars
    <2>2. QED
      BY <1>1, <1>6, <2>1, LimitQuiet
  <1>7. \A h \in Handlers : UploadStep(h) => UNCHANGED limitVars
    BY DEF UploadStep, SignUrl, SaveNonce, SaveNonceFails, Callback, CallbackFails
  <1>8. QED
    BY <1>2, <1>3, <1>4, <1>5, <1>6, <1>7 DEF Next, SessionNext

\* Of the requests that had the limiter to themselves at most Limit fall into any
\* window, whatever racing, failing and delayed requests do to the sorted set
\* (ratelimit.go:18-20).
THEOREM WindowsAreLimited == Spec => []RateLimited
  <1>1. Init => LimitInv
    <2>1. SUFFICES ASSUME Init PROVE LimitInv
      OBVIOUS
    <2>2. AloneInv /\ TurnInv
      BY <2>1 DEF Init, SessionInit, AloneInv, TurnInv, Limiting
    <2>3. SlotInv /\ RateLimited
      BY <2>1, FS_EmptySet DEF Init, LimitInit, SlotInv, RateLimited
    <2>4. QED
      BY <2>2, <2>3 DEF LimitInv
  <1>2. LimitInv => RateLimited
    BY DEF LimitInv
  <1>3. QED
    BY <1>1, <1>2, LimitInvStep, BaseInvariance, PTL DEF Spec

=============================================================================
