----------------------- MODULE PhoneMigrationProofs -----------------------
(***************************************************************************)
(* Proofs about PhoneMigration and the Account module it extends: for any  *)
(* phones, addresses, limits, request handlers and migration runs, with or *)
(* without key and pepper, with or without replicas.                       *)
(***************************************************************************)
EXTENDS PhoneMigration, TLAPS, FiniteSetTheorems, SequenceTheorems

-----------------------------------------------------------------------------
(***************************************************************************)
(* The requests.                                                           *)
(***************************************************************************)

Requests == [phone : Phones \cup {None}, ip : Ips \cup {None}, code : Nat]

\* The steps of SendCode.
SendSteps == {"window", "phoneIncr", "phoneExpire", "ipIncr", "ipExpire", "save", "send", "sendDel"}

\* What step and request r of a handler can be, when n codes have been generated.
Fits(step, r, n) ==
    /\ step # "idle" => r.phone \in Phones
    /\ step \in SendSteps => r.ip \in Ips
    /\ step \in {"verify", "loginDel"} => r.code \in 1..n
    /\ step = "create" => Key # None

ReqInv ==
    /\ pc \in [Handlers -> Steps]
    /\ req \in [Handlers -> Requests]
    /\ codes \in Nat
    /\ \A h \in Handlers : Fits(pc[h], req[h], codes)

\* A handler goes on to step with request r; the others stay where they are.
Moves(h, step, r) ==
    /\ pc' = [pc EXCEPT ![h] = step]
    /\ req' = [req EXCEPT ![h] = r]

\* The steps from which a request goes on to the next as it is.
Flow == {<<"window", "phoneIncr">>, <<"phoneIncr", "phoneExpire">>, <<"phoneIncr", "ipIncr">>,
         <<"phoneExpire", "ipIncr">>, <<"ipIncr", "ipExpire">>, <<"ipIncr", "save">>,
         <<"ipExpire", "save">>, <<"send", "sendDel">>, <<"verify", "loginDel">>,
         <<"loginDel", "find">>, <<"find", "create">>}

\* What the assumptions say of the constants.
LEMMA AccountConstants ==
    /\ Active \subseteq Phones /\ Legacy \subseteq Phones /\ IsFiniteSet(Legacy)
    /\ Phones \cap Ips = {} /\ PhoneLimit \in Nat /\ IpLimit \in Nat
    /\ MaxRequests \in Nat /\ MaxFaults \in Nat
    /\ RowsPerBatch \in Nat \ {0} /\ MaxStarts \in Nat
    /\ NoRequest \in Requests
  BY AccountAssumption, MigrationAssumption DEF NoRequest, NoCode, Requests

\* What a move does.
LEMMA MoveEffect ==
    ASSUME ReqInv, NEW h \in Handlers, NEW step, NEW r, Moves(h, step, r)
    PROVE  /\ pc'[h] = step /\ req'[h] = r
           /\ \A g \in Handlers : g # h => pc'[g] = pc[g] /\ req'[g] = req[g]
  BY DEF Moves, ReqInv

\* A request returns, goes on as it is, or is given its code.
LEMMA StepMoves ==
    ASSUME ReqInv, NEW h \in Handlers, RequestStep(h)
    PROVE  /\ pc[h] # "idle"
           /\ \/ Moves(h, "idle", NoRequest) /\ codes' = codes
              \/ /\ codes' = codes
                 /\ \E step \in Steps : /\ Moves(h, step, req[h]) /\ <<pc[h], step>> \in Flow
                                        /\ step = "create" => Key # None
              \/ /\ pc[h] = "save" /\ codes' = codes + 1
                 /\ Moves(h, "send", [req[h] EXCEPT !.code = codes + 1])
  <1>1. pc[h] # "idle"
    BY DEF RequestStep, ConsumeWindow, Incr, IncrReplyLost, Expire, ExpireFails, SaveSMSCode, SendSMS,
           SendSMSFails, DeleteUnsentCode, VerifyCode, DeleteSMSCode, DeleteSMSCodeFails, FindUser,
           CreateUser, RequestFails
  <1>2. CASE SaveSMSCode(h)
    BY <1>1, <1>2 DEF SaveSMSCode, Moves, ReqInv
  <1>3. ASSUME ~SaveSMSCode(h)
        PROVE  codes' = codes
    BY <1>3 DEF RequestStep, ConsumeWindow, Incr, IncrReplyLost, Expire, ExpireFails, SendSMS,
           SendSMSFails, DeleteUnsentCode, VerifyCode, DeleteSMSCode, DeleteSMSCodeFails, FindUser,
           CreateUser, RequestFails, smsVars
  <1>4. CASE Return(h) /\ ~SaveSMSCode(h)
    BY <1>1, <1>3, <1>4 DEF Return, Moves
  <1>5. ASSUME NEW step, Goto(h, step)
        PROVE  Moves(h, step, req[h])
    BY <1>5 DEF Goto, Moves, ReqInv
  <1>6. CASE ~Return(h) /\ ~SaveSMSCode(h)
    <2>1. \E step \in Steps : /\ Goto(h, step) /\ <<pc[h], step>> \in Flow
                              /\ step = "create" => Key # None
      <3>1. CASE ConsumeWindow(h)
        BY <1>6, <3>1 DEF ConsumeWindow, Steps, Flow
      <3>2. CASE Incr(h)
        BY <1>6, <3>2 DEF Incr, NextCheck, Steps, Flow
      <3>3. CASE Expire(h)
        BY <1>6, <3>3 DEF Expire, NextCheck, Steps, Flow
      <3>4. CASE SendSMSFails(h)
        BY <3>4 DEF SendSMSFails, Steps, Flow
      <3>5. CASE VerifyCode(h)
        BY <1>6, <3>5 DEF VerifyCode, Steps, Flow
      <3>6. CASE DeleteSMSCode(h) \/ DeleteSMSCodeFails(h)
        BY <3>6 DEF DeleteSMSCode, DeleteSMSCodeFails, Steps, Flow
      <3>7. CASE FindUser(h)
        BY <1>6, <3>7 DEF FindUser, Steps, Flow
      <3>8. QED
        BY <1>6, <3>1, <3>2, <3>3, <3>4, <3>5, <3>6, <3>7 DEF RequestStep, IncrReplyLost, ExpireFails,
           SendSMS, DeleteUnsentCode, CreateUser, RequestFails
    <2>2. QED
      BY <1>1, <1>3, <1>5, <1>6, <2>1
  <1>7. QED
    BY <1>2, <1>4, <1>6

\* A request begins.
LEMMA BeginMoves ==
    ASSUME ReqInv, NEW h \in Handlers, NEW p \in Active,
           \/ \E i \in Ips : BeginSendCode(h, p, i)
           \/ \E c \in 1..codes : BeginLogin(h, p, c)
    PROVE  /\ pc[h] = "idle" /\ codes' = codes /\ UNCHANGED <<smsVars, users, faults, historyVars>>
           /\ \/ \E i \in Ips : Moves(h, "window", [phone |-> p, ip |-> i, code |-> NoCode])
              \/ \E c \in 1..codes : Moves(h, "verify", [phone |-> p, ip |-> None, code |-> c])
  BY DEF BeginSendCode, BeginLogin, Moves, smsVars

\* The steps in which no request takes part.
LEMMA OtherSteps ==
    ASSUME [Next]_vars,
           ~(\E h \in Handlers : RequestStep(h)),
           ~(\E h \in Handlers, p \in Active :
                \/ \E i \in Ips : BeginSendCode(h, p, i)
                \/ \E c \in 1..codes : BeginLogin(h, p, c))
    PROVE  UNCHANGED <<pc, req, codes, historyVars>>
  BY DEF Next, AccountNext, WindowExpires, CodeExpires, CounterExpires, Start, MigrationStep,
         FetchBatch, MigrateRow, MigrateRowFails, Crash, vars, accountVars, reqVars, smsVars

\* Every step keeps what fits a request.
LEMMA ReqStep == ReqInv /\ [Next]_vars => ReqInv'
  <1> SUFFICES ASSUME ReqInv, [Next]_vars PROVE ReqInv'
    OBVIOUS
  <1>0. /\ NoRequest \in Requests /\ pc \in [Handlers -> Steps] /\ req \in [Handlers -> Requests]
        /\ codes \in Nat /\ Active \subseteq Phones
    BY AccountConstants DEF ReqInv
  <1>1. ASSUME NEW h \in Handlers, NEW step \in Steps, NEW r \in Requests, Moves(h, step, r),
               codes' \in Nat, codes <= codes', Fits(step, r, codes')
        PROVE  ReqInv'
    <2>1. pc' \in [Handlers -> Steps] /\ req' \in [Handlers -> Requests]
      BY <1>0, <1>1 DEF Moves
    <2>2. ASSUME NEW g \in Handlers
          PROVE  Fits(pc'[g], req'[g], codes')
      <3>1. CASE g = h
        BY <1>1, <3>1, MoveEffect
      <3>2. CASE g # h
        <4>1. pc'[g] = pc[g] /\ req'[g] = req[g] /\ Fits(pc[g], req[g], codes)
          BY <1>1, <3>2, MoveEffect DEF ReqInv
        <4>2. 1..codes \subseteq 1..codes'
          BY <1>0, <1>1
        <4>3. QED
          BY <4>1, <4>2 DEF Fits
      <3>3. QED
        BY <3>1, <3>2
    <2>3. QED
      BY <1>1, <2>1, <2>2 DEF ReqInv
  <1>2. ASSUME NEW h \in Handlers, RequestStep(h)
        PROVE  ReqInv'
    <2>1. req[h] \in Requests /\ Fits(pc[h], req[h], codes) /\ pc[h] \in Steps
      BY <1>0 DEF ReqInv
    <2>2. CASE Moves(h, "idle", NoRequest) /\ codes' = codes
      <3>1. Fits("idle", NoRequest, codes)
        BY DEF Fits, SendSteps
      <3>2. QED
        BY <1>0, <1>1, <2>2, <3>1 DEF Steps
    <2>3. CASE /\ codes' = codes
               /\ \E step \in Steps : /\ Moves(h, step, req[h]) /\ <<pc[h], step>> \in Flow
                                      /\ step = "create" => Key # None
      <3>1. PICK step \in Steps : /\ Moves(h, step, req[h]) /\ <<pc[h], step>> \in Flow
                                  /\ step = "create" => Key # None
        BY <2>3
      <3>2. Fits(step, req[h], codes)
        BY <2>1, <3>1 DEF Fits, Flow, SendSteps
      <3>3. QED
        BY <1>0, <1>1, <2>1, <2>3, <3>1, <3>2
    <2>4. CASE /\ pc[h] = "save" /\ codes' = codes + 1
               /\ Moves(h, "send", [req[h] EXCEPT !.code = codes + 1])
      <3> DEFINE r == [req[h] EXCEPT !.code = codes + 1]
      <3>1. r \in Requests /\ r.phone = req[h].phone /\ r.ip = req[h].ip
        BY <1>0, <2>1 DEF Requests
      <3>2. Moves(h, "send", r)
        BY <2>4
      <3> HIDE DEF r
      <3>3. Fits("send", r, codes')
        BY <2>1, <2>4, <3>1 DEF Fits, SendSteps
      <3>4. codes' \in Nat /\ codes <= codes' /\ "send" \in Steps
        BY <1>0, <2>4 DEF Steps
      <3>5. QED
        BY <1>1, <3>1, <3>2, <3>3, <3>4
    <2>5. QED
      BY <1>2, <2>2, <2>3, <2>4, StepMoves
  <1>3. ASSUME NEW h \in Handlers, NEW p \in Active,
               \/ \E i \in Ips : BeginSendCode(h, p, i)
               \/ \E c \in 1..codes : BeginLogin(h, p, c)
        PROVE  ReqInv'
    <2>1. codes' = codes
      BY <1>3, BeginMoves
    <2>2. ASSUME NEW i \in Ips, Moves(h, "window", [phone |-> p, ip |-> i, code |-> NoCode])
          PROVE  ReqInv'
      <3>1. [phone |-> p, ip |-> i, code |-> NoCode] \in Requests
        BY <1>0 DEF Requests, NoCode
      <3>2. Fits("window", [phone |-> p, ip |-> i, code |-> NoCode], codes)
        BY <1>0 DEF Fits, SendSteps
      <3>3. QED
        BY <1>0, <1>1, <2>1, <2>2, <3>1, <3>2 DEF Steps
    <2>3. ASSUME NEW c \in 1..codes, Moves(h, "verify", [phone |-> p, ip |-> None, code |-> c])
          PROVE  ReqInv'
      <3>1. [phone |-> p, ip |-> None, code |-> c] \in Requests
        BY <1>0 DEF Requests
      <3>2. Fits("verify", [phone |-> p, ip |-> None, code |-> c], codes)
        BY <1>0 DEF Fits, SendSteps
      <3>3. QED
        BY <1>0, <1>1, <2>1, <2>3, <3>1, <3>2 DEF Steps
    <2>4. QED
      BY <1>3, <2>2, <2>3, BeginMoves
  <1>4. CASE UNCHANGED <<pc, req, codes>>
    BY <1>4 DEF ReqInv
  <1>5. QED
    BY <1>2, <1>3, <1>4, OtherSteps

\* Requests are always complete for the step they are at.
LEMMA ReqInvariance == Spec => []ReqInv
  <1>1. Init => ReqInv
    BY AccountConstants DEF Init, AccountInit, ReqInv, Fits, Steps, SendSteps
  <1>2. QED
    BY <1>1, ReqStep, PTL DEF Spec

-----------------------------------------------------------------------------
(***************************************************************************)
(* The counters of user_cache.go and what was counted about them.          *)
(***************************************************************************)

DataInv ==
    /\ daily \in [Counters -> Nat]
    /\ sms \in [Counters -> Nat]
    /\ lives \in [Counters -> Nat]
    /\ windows \in [Phones -> Nat]
    /\ code \in [Phones -> Nat]
    /\ uses \in [Codes -> Nat]

\* The migration and the database leave the keys of Redis alone.
LEMMA MigrationQuiet ==
    ASSUME [Next]_vars, ~AccountNext
    PROVE  UNCHANGED <<smsVars, reqVars, historyVars>>
  BY DEF Next, Start, MigrationStep, FetchBatch, MigrateRow, MigrateRowFails, Crash, vars, accountVars,
         reqVars, smsVars

\* Every step keeps the types of the counters.
LEMMA DataStep == ReqInv /\ DataInv /\ [Next]_vars => DataInv'
  <1> SUFFICES ASSUME ReqInv, DataInv, [Next]_vars PROVE DataInv'
    OBVIOUS
  <1> USE DEF DataInv
  <1>1. CASE UNCHANGED <<smsVars, historyVars>>
    BY <1>1 DEF smsVars, historyVars
  <1>2. ASSUME NEW h \in Handlers, RequestStep(h)
        PROVE  DataInv'
    <2>1. CASE ConsumeWindow(h)
      BY <2>1 DEF ConsumeWindow
    <2>2. CASE Incr(h)
      <3>1. /\ daily' = [daily EXCEPT ![Counter(h)] = daily[Counter(h)] + 1]
            /\ lives' = [lives EXCEPT ![Counter(h)] = IF daily[Counter(h)] + 1 = 1
                                                        THEN lives[Counter(h)] + 1 ELSE lives[Counter(h)]]
            /\ UNCHANGED <<sms, windows, code, uses>>
        BY <2>2 DEF Incr
      <3>2. Counter(h) \in Counters => daily[Counter(h)] + 1 \in Nat /\ lives[Counter(h)] + 1 \in Nat
        OBVIOUS
      <3>3. daily' \in [Counters -> Nat] /\ lives' \in [Counters -> Nat]
        BY <3>1, <3>2
      <3>4. QED
        BY <3>1, <3>3
    <2>3. CASE IncrReplyLost(h)
      <3>1. /\ daily' = [daily EXCEPT ![Counter(h)] = daily[Counter(h)] + 1]
            /\ lives' = [lives EXCEPT ![Counter(h)] = IF daily[Counter(h)] = 0
                                                        THEN lives[Counter(h)] + 1 ELSE lives[Counter(h)]]
            /\ UNCHANGED <<sms, windows, code, uses>>
        BY <2>3 DEF IncrReplyLost
      <3>2. Counter(h) \in Counters => daily[Counter(h)] + 1 \in Nat /\ lives[Counter(h)] + 1 \in Nat
        OBVIOUS
      <3>3. daily' \in [Counters -> Nat] /\ lives' \in [Counters -> Nat]
        BY <3>1, <3>2
      <3>4. QED
        BY <3>1, <3>3
    <2>4. CASE Expire(h) \/ FindUser(h)
      BY <2>4 DEF Expire, FindUser, historyVars, smsVars
    <2>5. CASE SaveSMSCode(h)
      <3>1. code' = [code EXCEPT ![req[h].phone] = codes + 1] /\ UNCHANGED <<daily, historyVars>>
        BY <2>5 DEF SaveSMSCode
      <3>2. codes + 1 \in Nat
        BY DEF ReqInv
      <3>3. QED
        BY <3>1, <3>2 DEF historyVars
    <2>6. CASE SendSMS(h)
      BY <2>6 DEF SendSMS, smsVars
    <2>7. CASE DeleteUnsentCode(h) \/ DeleteSMSCode(h)
      BY <2>7 DEF DeleteUnsentCode, DeleteSMSCode, historyVars, NoCode
    <2>8. CASE VerifyCode(h)
      BY <2>8 DEF VerifyCode, smsVars
    <2>9. CASE ExpireFails(h) \/ SendSMSFails(h) \/ DeleteSMSCodeFails(h) \/ CreateUser(h) \/ RequestFails(h)
      BY <2>9 DEF ExpireFails, SendSMSFails, DeleteSMSCodeFails, CreateUser, RequestFails, historyVars, smsVars
    <2>10. QED
      BY <1>2, <2>1, <2>2, <2>3, <2>4, <2>5, <2>6, <2>7, <2>8, <2>9 DEF RequestStep
  <1>3. CASE \E p \in Active : WindowExpires(p) \/ CodeExpires(p)
    BY <1>3 DEF WindowExpires, CodeExpires, historyVars, NoCode
  <1>4. CASE \E k \in Counters : CounterExpires(k)
    BY <1>4 DEF CounterExpires, historyVars
  <1>5. CASE \E h \in Handlers, p \in Active :
                \/ \E i \in Ips : BeginSendCode(h, p, i)
                \/ \E c \in 1..codes : BeginLogin(h, p, c)
    BY <1>1, <1>5 DEF BeginSendCode, BeginLogin
  <1>6. QED
    BY <1>1, <1>2, <1>3, <1>4, <1>5, MigrationQuiet DEF AccountNext

\* The counters stay natural numbers.
LEMMA DataInvariance == Spec => [](ReqInv /\ DataInv)
  <1>1. Init => DataInv
    BY DEF Init, AccountInit, DataInv, NoCode
  <1>2. ReqInv /\ DataInv /\ [Next]_vars => DataInv'
    BY DataStep
  <1>3. QED
    BY <1>1, <1>2, ReqInvariance, PTL DEF Spec

\* Every step keeps a way for each counter to expire.
LEMMA ExpiryStep == ReqInv /\ DataInv /\ CounterWillExpire /\ [Next]_vars => CounterWillExpire'
  <1> SUFFICES ASSUME ReqInv, DataInv, CounterWillExpire, [Next]_vars,
                      NEW k \in Counters, k \notin stuck', daily'[k] > 0,
                      ~(k \in ttl'),
                      ~(\E h \in Handlers : pc'[h] \in {"phoneExpire", "ipExpire"} /\ Counter(h)' = k)
               PROVE  FALSE
    BY DEF CounterWillExpire
  <1> DEFINE Expiring(h) == pc[h] \in {"phoneExpire", "ipExpire"}
  <1>1. k \notin stuck /\ daily[k] > 0 => k \in ttl \/ \E h \in Handlers : Expiring(h) /\ Counter(h) = k
    BY DEF CounterWillExpire
  <1>2. daily \in [Counters -> Nat] /\ pc \in [Handlers -> Steps] /\ req \in [Handlers -> Requests]
    BY DEF DataInv, ReqInv
  <1>3. ASSUME NEW g \in Handlers, pc'[g] = pc[g], req'[g] = req[g], Expiring(g), Counter(g) = k
        PROVE  FALSE
    BY <1>3 DEF Counter
  <1>4. ASSUME k \notin stuck, daily[k] > 0, k \notin ttl,
               NEW h \in Handlers, NEW step, NEW r, Moves(h, step, r), ~(Expiring(h) /\ Counter(h) = k)
        PROVE  FALSE
    <2>1. PICK g \in Handlers : Expiring(g) /\ Counter(g) = k
      BY <1>1, <1>4
    <2>2. g # h /\ pc'[g] = pc[g] /\ req'[g] = req[g]
      BY <1>4, <2>1, MoveEffect
    <2>3. QED
      BY <1>3, <2>1, <2>2
  <1>5. ASSUME NEW h \in Handlers, RequestStep(h), ~(Expiring(h) /\ Counter(h) = k),
               k \notin stuck, daily[k] > 0, k \notin ttl
        PROVE  FALSE
    <2>1. \E step, r : Moves(h, step, r)
      BY <1>5, StepMoves
    <2>2. QED
      BY <1>4, <1>5, <2>1
  <1>6. ASSUME NEW h \in Handlers, RequestStep(h)
        PROVE  FALSE
    <2>1. CASE Incr(h)
      <3>1. /\ daily' = [daily EXCEPT ![Counter(h)] = daily[Counter(h)] + 1]
            /\ ttl' = ttl /\ stuck' = stuck /\ ~Expiring(h)
        BY <2>1 DEF Incr
      <3>2. daily[k] = 0 /\ Counter(h) = k
        BY <1>2, <1>5, <1>6, <3>1
      <3>3. /\ pc' = [pc EXCEPT ![h] = IF pc[h] = "phoneIncr" THEN "phoneExpire" ELSE "ipExpire"]
            /\ req' = req
        BY <2>1, <3>2 DEF Incr, Goto
      <3>4. Counter(h)' = k /\ pc'[h] \in {"phoneExpire", "ipExpire"}
        BY <1>2, <2>1, <3>2, <3>3 DEF Counter, Incr
      <3>5. QED
        BY <3>4
    <2>2. CASE IncrReplyLost(h)
      <3>1. /\ daily' = [daily EXCEPT ![Counter(h)] = daily[Counter(h)] + 1]
            /\ ttl' = ttl /\ ~Expiring(h)
            /\ stuck' = IF daily[Counter(h)] = 0 THEN stuck \cup {Counter(h)} ELSE stuck
        BY <2>2 DEF IncrReplyLost
      <3>2. QED
        BY <1>2, <1>5, <1>6, <3>1
    <2>3. CASE Expire(h)
      <3>1. /\ daily' = daily /\ stuck' = stuck
            /\ ttl' = IF daily[Counter(h)] > 0 THEN ttl \cup {Counter(h)} ELSE ttl
        BY <2>3 DEF Expire, historyVars
      <3>2. QED
        BY <1>5, <1>6, <3>1
    <2>4. CASE ExpireFails(h)
      <3>1. daily' = daily /\ ttl' = ttl /\ stuck' = stuck \cup {Counter(h)}
        BY <2>4 DEF ExpireFails, smsVars
      <3>2. QED
        BY <1>5, <1>6, <3>1
    <2>5. CASE ~(Incr(h) \/ IncrReplyLost(h) \/ Expire(h) \/ ExpireFails(h))
      <3>1. UNCHANGED <<daily, ttl, stuck>> /\ ~Expiring(h)
        BY <1>6, <2>5 DEF RequestStep, ConsumeWindow, SaveSMSCode, SendSMS,
           SendSMSFails, DeleteUnsentCode, VerifyCode, DeleteSMSCode, DeleteSMSCodeFails, FindUser,
           CreateUser, RequestFails, smsVars, historyVars
      <3>2. QED
        BY <1>5, <1>6, <3>1
    <2>6. QED
      BY <2>1, <2>2, <2>3, <2>4, <2>5
  <1>7. ASSUME NEW h \in Handlers, NEW p \in Active,
               \/ \E i \in Ips : BeginSendCode(h, p, i)
               \/ \E c \in 1..codes : BeginLogin(h, p, c)
        PROVE  FALSE
    <2>1. pc[h] = "idle" /\ UNCHANGED <<daily, ttl, stuck>> /\ \E step, r : Moves(h, step, r)
      BY <1>7, BeginMoves DEF smsVars, historyVars
    <2>2. QED
      BY <1>4, <2>1
  <1>8. CASE UNCHANGED <<pc, req, stuck>>
    <2>1. CASE UNCHANGED <<daily, ttl>>
      BY <1>1, <1>3, <1>8, <2>1
    <2>2. ASSUME NEW c \in Counters, CounterExpires(c)
          PROVE  FALSE
      BY <1>1, <1>2, <1>3, <1>8, <2>2 DEF CounterExpires
    <2>3. CASE \E p \in Active : WindowExpires(p) \/ CodeExpires(p)
      BY <2>1, <2>3 DEF WindowExpires, CodeExpires
    <2>4. QED
      BY <1>6, <1>7, <2>1, <2>2, <2>3, MigrationQuiet DEF AccountNext, smsVars
  <1>9. QED
    BY <1>6, <1>7, <1>8, OtherSteps DEF historyVars

\* A daily counter is never left without an expiry unless its EXPIRE failed:
\* incrAndCheck (user_cache.go:131-143), for any number of overlapping requests.
THEOREM CountersExpire == Spec => []CounterWillExpire
  <1>1. Init => CounterWillExpire
    BY DEF Init, AccountInit, CounterWillExpire
  <1>2. QED
    BY <1>1, ExpiryStep, DataInvariance, PTL DEF Spec

-----------------------------------------------------------------------------
(***************************************************************************)
(* Codes.  A code that was verified once and is not contested is either    *)
(* about to be deleted by the Login that verified it, or gone.             *)
(***************************************************************************)

\* Login h has verified its code and not yet deleted it.
Deleting(h) == pc[h] = "loginDel"

CodeInv ==
    /\ \A p \in Phones : code[p] <= codes
    /\ \A p, q \in Phones : code[p] = code[q] /\ code[p] # NoCode => p = q
    /\ \A h \in Handlers : Deleting(h) =>
          \A p \in Phones : code[p] = req[h].code => p = req[h].phone
    /\ \A c \in Codes \ contested : uses[c] > 0 =>
          /\ uses[c] = 1 /\ c <= codes
          /\ \/ \E h \in Handlers : Deleting(h) /\ req[h].code = c
             \/ \A p \in Phones : code[p] # c

\* Codes only disappear, and the Logins about to delete one stay the same.
LEMMA CodesVanish ==
    ASSUME ReqInv, DataInv, CodeInv, UNCHANGED <<codes, uses, contested>>,
           \A p \in Phones : code'[p] \in {code[p], NoCode},
           \A h \in Handlers : Deleting(h)' <=> Deleting(h),
           \A h \in Handlers : Deleting(h) => req'[h] = req[h]
    PROVE  CodeInv'
  <1>0. /\ codes \in Nat /\ \A h \in Handlers : Deleting(h) => req[h].code \in 1..codes
        /\ code \in [Phones -> Nat] /\ \A c \in Codes : c \in Nat /\ c # NoCode
    BY DEF ReqInv, DataInv, Fits, Deleting, Codes, NoCode
  <1>1. \A p \in Phones : code'[p] <= codes
    BY <1>0 DEF CodeInv, NoCode
  <1>2. \A p, q \in Phones : code'[p] = code'[q] /\ code'[p] # NoCode => p = q
    BY DEF CodeInv
  <1>3. ASSUME NEW h \in Handlers, Deleting(h), NEW p \in Phones, code'[p] = req[h].code
        PROVE  p = req[h].phone
    <2>1. code'[p] # NoCode
      BY <1>0, <1>3 DEF NoCode
    <2>2. QED
      BY <1>3, <2>1 DEF CodeInv
  <1>4. ASSUME NEW c \in Codes \ contested, uses[c] > 0
        PROVE  /\ uses[c] = 1 /\ c <= codes
               /\ \/ \E h \in Handlers : Deleting(h)' /\ req'[h].code = c
                  \/ \A p \in Phones : code'[p] # c
    BY <1>0, <1>4 DEF CodeInv
  <1>5. QED
    BY <1>1, <1>2, <1>3, <1>4 DEF CodeInv

\* A step of a request that verifies and deletes nothing keeps the Logins that
\* are about to delete their code.
LEMMA DeletingStays ==
    ASSUME ReqInv, NEW h \in Handlers, NEW step, NEW r, Moves(h, step, r),
           ~Deleting(h), step # "loginDel"
    PROVE  /\ \A g \in Handlers : Deleting(g)' <=> Deleting(g)
           /\ \A g \in Handlers : Deleting(g) => req'[g] = req[g]
  BY MoveEffect DEF Deleting

\* Every step keeps the invariant of the codes.
LEMMA CodeStep == ReqInv /\ DataInv /\ CodeInv /\ [Next]_vars => CodeInv'
  <1> SUFFICES ASSUME ReqInv, DataInv, CodeInv, [Next]_vars PROVE CodeInv'
    OBVIOUS
  <1>0. /\ codes \in Nat /\ \A h \in Handlers : Deleting(h) => req[h].code \in 1..codes
        /\ code \in [Phones -> Nat] /\ \A c \in Codes : c \in Nat /\ c # NoCode
        /\ uses \in [Codes -> Nat]
        /\ \A h \in Handlers : pc[h] = "verify" => req[h].code \in 1..codes
        /\ \A h \in Handlers : pc[h] # "idle" => req[h].phone \in Phones
    BY DEF ReqInv, DataInv, Fits, Deleting, Codes, NoCode
  <1>1. ASSUME NEW h \in Handlers, SaveSMSCode(h)
        PROVE  CodeInv'
    <2>1. /\ codes' = codes + 1 /\ code' = [code EXCEPT ![req[h].phone] = codes + 1]
          /\ pc[h] = "save" /\ Moves(h, "send", [req[h] EXCEPT !.code = codes + 1])
          /\ UNCHANGED <<uses, contested>>
      BY <1>1 DEF SaveSMSCode, Moves, ReqInv, historyVars
    <2>2. \A g \in Handlers : (Deleting(g)' <=> Deleting(g)) /\ (Deleting(g) => req'[g] = req[g])
      BY <2>1, DeletingStays DEF Deleting
    <2>3. \A p \in Phones : code'[p] = IF p = req[h].phone THEN codes + 1 ELSE code[p]
      BY <1>0, <2>1
    <2>4. \A p \in Phones : code'[p] <= codes'
      BY <1>0, <2>1, <2>3 DEF CodeInv
    <2>5. \A p, q \in Phones : code'[p] = code'[q] /\ code'[p] # NoCode => p = q
      <3>1. \A p \in Phones : code[p] # codes + 1
        BY <1>0 DEF CodeInv
      <3>2. QED
        BY <2>3, <3>1 DEF CodeInv
    <2>6. \A g \in Handlers : Deleting(g) => \A p \in Phones : code'[p] = req[g].code => p = req[g].phone
      <3>1. \A g \in Handlers : Deleting(g) => req[g].code # codes + 1
        BY <1>0
      <3>2. QED
        BY <2>3, <3>1 DEF CodeInv
    <2>7. ASSUME NEW c \in Codes \ contested, uses[c] > 0
          PROVE  /\ uses[c] = 1 /\ c <= codes'
                 /\ \/ \E g \in Handlers : Deleting(g)' /\ req'[g].code = c
                    \/ \A p \in Phones : code'[p] # c
      <3>1. uses[c] = 1 /\ c <= codes
        BY <2>7 DEF CodeInv
      <3>2. c <= codes' /\ c # codes + 1
        BY <1>0, <2>1, <3>1
      <3>3. (\E g \in Handlers : Deleting(g) /\ req[g].code = c) \/ \A p \in Phones : code[p] # c
        BY <2>7 DEF CodeInv
      <3>4. QED
        BY <2>2, <2>3, <3>1, <3>2, <3>3
    <2>8. QED
      BY <2>1, <2>2, <2>4, <2>5, <2>6, <2>7 DEF CodeInv
  <1>2. ASSUME NEW h \in Handlers, VerifyCode(h), code[req[h].phone] = req[h].code
        PROVE  CodeInv'
    <2> DEFINE c == req[h].code
    <2>1. /\ pc[h] = "verify" /\ pc' = [pc EXCEPT ![h] = "loginDel"] /\ UNCHANGED <<req, codes, code>>
          /\ uses' = [uses EXCEPT ![c] = uses[c] + 1]
          /\ contested' = IF \E g \in Handlers : Deleting(g) /\ req[g].code = c
                            THEN contested \cup {c} ELSE contested
      BY <1>2 DEF VerifyCode, Goto, smsVars, Deleting
    <2>2. \A g \in Handlers : Deleting(g)' <=> Deleting(g) \/ g = h
      BY <2>1 DEF Deleting, ReqInv
    <2>3. c \in 1..codes /\ req[h].phone \in Phones /\ c # NoCode
      BY <1>0, <2>1 DEF NoCode
    <2>4. \A p \in Phones : code[p] = c => p = req[h].phone
      BY <1>2, <2>3 DEF CodeInv
    <2>5. ASSUME NEW d \in Codes \ contested', uses'[d] > 0
          PROVE  /\ uses'[d] = 1 /\ d <= codes
                 /\ \/ \E g \in Handlers : Deleting(g)' /\ req[g].code = d
                    \/ \A p \in Phones : code[p] # d
      <3>1. d \in Codes \ contested
        BY <2>1, <2>5
      <3>2. CASE d = c
        <4>1. ~(\E g \in Handlers : Deleting(g) /\ req[g].code = c)
          BY <2>1, <2>5, <3>2
        <4>2. ~(uses[c] > 0)
          BY <1>2, <2>3, <3>1, <3>2, <4>1 DEF CodeInv
        <4>3. uses'[d] = uses[d] + 1 /\ uses[d] \in Nat
          BY <1>0, <2>1, <3>1, <3>2
        <4>4. uses'[d] = 1 /\ d <= codes
          BY <2>3, <3>2, <4>2, <4>3
        <4>5. QED
          BY <2>2, <3>2, <4>4
      <3>3. CASE d # c
        <4>1. uses'[d] = uses[d]
          BY <1>0, <2>1, <3>3
        <4>2. QED
          BY <2>2, <2>5, <3>1, <4>1 DEF CodeInv
      <3>4. QED
        BY <3>2, <3>3
    <2> HIDE DEF c
    <2>6. \A g \in Handlers : Deleting(g)' => \A p \in Phones : code[p] = req[g].code => p = req[g].phone
      BY <2>2, <2>4 DEF CodeInv, c
    <2>7. QED
      BY <2>1, <2>5, <2>6 DEF CodeInv
  <1>3. ASSUME NEW h \in Handlers, DeleteSMSCode(h)
        PROVE  CodeInv'
    <2>1. /\ Deleting(h) /\ pc' = [pc EXCEPT ![h] = "find"] /\ UNCHANGED <<req, codes, uses, contested>>
          /\ code' = [code EXCEPT ![req[h].phone] = NoCode]
      BY <1>3 DEF DeleteSMSCode, Goto, historyVars, Deleting
    <2>2. \A g \in Handlers : Deleting(g)' <=> Deleting(g) /\ g # h
      BY <2>1 DEF Deleting, ReqInv
    <2>3. \A p \in Phones : code'[p] = IF p = req[h].phone THEN NoCode ELSE code[p]
      BY <1>0, <2>1
    <2>4. \A p \in Phones : code'[p] <= codes
      BY <1>0, <2>3 DEF CodeInv, NoCode
    <2>5. \A p, q \in Phones : code'[p] = code'[q] /\ code'[p] # NoCode => p = q
      BY <2>3 DEF CodeInv
    <2>6. \A g \in Handlers : Deleting(g) => \A p \in Phones : code'[p] = req[g].code => p = req[g].phone
      <3>1. \A g \in Handlers : Deleting(g) => req[g].code # NoCode
        BY <1>0 DEF NoCode
      <3>2. QED
        BY <2>3, <3>1 DEF CodeInv
    <2>7. ASSUME NEW c \in Codes \ contested, uses[c] > 0
          PROVE  \/ \E g \in Handlers : Deleting(g)' /\ req[g].code = c
                 \/ \A p \in Phones : code'[p] # c
      <3>1. (\E g \in Handlers : Deleting(g) /\ req[g].code = c) \/ \A p \in Phones : code[p] # c
        BY <2>7 DEF CodeInv
      <3>2. CASE req[h].code = c
        BY <1>0, <2>1, <2>3, <2>7, <3>2 DEF CodeInv
      <3>3. CASE req[h].code # c
        BY <1>0, <2>2, <2>3, <3>1, <3>3
      <3>4. QED
        BY <3>2, <3>3
    <2>8. QED
      BY <2>1, <2>2, <2>4, <2>5, <2>6, <2>7 DEF CodeInv
  <1>4. ASSUME NEW h \in Handlers, DeleteSMSCodeFails(h)
        PROVE  CodeInv'
    <2>1. /\ Deleting(h) /\ pc' = [pc EXCEPT ![h] = "find"] /\ UNCHANGED <<req, codes, code, uses>>
          /\ contested' = contested \cup {req[h].code}
      BY <1>4 DEF DeleteSMSCodeFails, Goto, smsVars, Deleting
    <2>2. \A g \in Handlers : Deleting(g)' <=> Deleting(g) /\ g # h
      BY <2>1 DEF Deleting, ReqInv
    <2>3. QED
      BY <2>1, <2>2 DEF CodeInv
  <1>5. ASSUME NEW h \in Handlers, DeleteUnsentCode(h)
        PROVE  CodeInv'
    <2>1. /\ ~Deleting(h) /\ Moves(h, "idle", NoRequest) /\ UNCHANGED <<codes, uses, contested>>
          /\ \A p \in Phones : code'[p] \in {code[p], NoCode}
      BY <1>0, <1>5 DEF DeleteUnsentCode, Return, Moves, historyVars, Deleting
    <2>2. QED
      BY <2>1, DeletingStays, CodesVanish
  <1>6. ASSUME NEW h \in Handlers, RequestStep(h), ~SaveSMSCode(h), ~DeleteUnsentCode(h),
               ~DeleteSMSCode(h), ~DeleteSMSCodeFails(h),
               ~(VerifyCode(h) /\ code[req[h].phone] = req[h].code)
        PROVE  CodeInv'
    <2>1. ~Deleting(h) /\ UNCHANGED <<codes, code, uses, contested>>
      BY <1>6 DEF RequestStep, ConsumeWindow, Incr, IncrReplyLost, Expire, ExpireFails, SendSMS,
           SendSMSFails, VerifyCode, FindUser, CreateUser, RequestFails, smsVars, historyVars, Deleting
    <2>2. \E step, r : Moves(h, step, r) /\ step # "loginDel"
      <3>1. CASE VerifyCode(h)
        BY <1>6, <3>1 DEF VerifyCode, Return, Moves
      <3>2. CASE ~VerifyCode(h)
        <4>1. pc[h] # "verify" \/ Moves(h, "idle", NoRequest)
          BY <1>6, <3>2 DEF RequestStep, ConsumeWindow, Incr, IncrReplyLost, Expire, ExpireFails, SendSMS,
           SendSMSFails, FindUser, CreateUser, RequestFails, Return, Moves
        <4>2. pc[h] # "verify" => \A step : <<pc[h], step>> \in Flow => step # "loginDel"
          BY DEF Flow
        <4>3. CASE pc[h] = "save" /\ Moves(h, "send", [req[h] EXCEPT !.code = codes + 1])
          BY <4>3
        <4>4. CASE Moves(h, "idle", NoRequest)
          BY <4>4
        <4>5. ASSUME NEW step \in Steps, Moves(h, step, req[h]), <<pc[h], step>> \in Flow,
                     pc[h] # "verify"
              PROVE  \E s, r : Moves(h, s, r) /\ s # "loginDel"
          BY <4>2, <4>5
        <4>6. QED
          BY <1>6, <4>1, <4>3, <4>4, <4>5, StepMoves
      <3>3. QED
        BY <3>1, <3>2
    <2>3. QED
      BY <2>1, <2>2, DeletingStays, CodesVanish
  <1>7. ASSUME NEW h \in Handlers, NEW p \in Active,
               \/ \E i \in Ips : BeginSendCode(h, p, i)
               \/ \E c \in 1..codes : BeginLogin(h, p, c)
        PROVE  CodeInv'
    <2>1. ~Deleting(h) /\ UNCHANGED <<codes, code, uses, contested>>
      BY <1>7, BeginMoves DEF Deleting, smsVars, historyVars
    <2>2. \E step, r : Moves(h, step, r) /\ step # "loginDel"
      <3>1. ASSUME NEW i \in Ips, Moves(h, "window", [phone |-> p, ip |-> i, code |-> NoCode])
            PROVE  \E step, r : Moves(h, step, r) /\ step # "loginDel"
        BY <3>1
      <3>2. ASSUME NEW c \in 1..codes, Moves(h, "verify", [phone |-> p, ip |-> None, code |-> c])
            PROVE  \E step, r : Moves(h, step, r) /\ step # "loginDel"
        BY <3>2
      <3>3. QED
        BY <1>7, <3>1, <3>2, BeginMoves
    <2>3. QED
      BY <2>1, <2>2, DeletingStays, CodesVanish
  <1>8. CASE UNCHANGED <<pc, req, codes, uses, contested>>
    <2>1. \A g \in Handlers : (Deleting(g)' <=> Deleting(g)) /\ req'[g] = req[g]
      BY <1>8 DEF Deleting
    <2>2. CASE UNCHANGED code
      BY <1>8, <2>1, <2>2, CodesVanish
    <2>3. CASE \E p \in Active : CodeExpires(p)
      <3>1. \A p \in Phones : code'[p] \in {code[p], NoCode}
        BY <1>0, <2>3 DEF CodeExpires
      <3>2. QED
        BY <1>8, <2>1, <3>1, CodesVanish
    <2>4. CASE (\E p \in Active : WindowExpires(p)) \/ (\E k \in Counters : CounterExpires(k))
      BY <2>2, <2>4 DEF WindowExpires, CounterExpires
    <2>5. QED
      BY <1>1, <1>2, <1>3, <1>4, <1>5, <1>6, <1>7, <2>2, <2>3, <2>4, MigrationQuiet DEF AccountNext, smsVars
  <1>9. QED
    BY <1>1, <1>2, <1>3, <1>4, <1>5, <1>6, <1>7, <1>8, OtherSteps DEF historyVars

\* A code logs in once (user_cache.go:76), unless two Logins verified it before
\* either deleted it or its DEL failed.
THEOREM CodesAreSingleUse == Spec => []CodeSingleUse
  <1>1. Init => CodeInv
    BY DEF Init, AccountInit, CodeInv, NoCode, Codes, Deleting
  <1>2. DataInv /\ CodeInv => CodeSingleUse
    <2> SUFFICES ASSUME DataInv, CodeInv, NEW c \in Codes \ contested PROVE uses[c] <= 1
      BY DEF CodeSingleUse
    <2>1. uses[c] \in Nat /\ (uses[c] > 0 => uses[c] = 1)
      BY DEF CodeInv, DataInv
    <2>2. QED
      BY <2>1
  <1>3. QED
    BY <1>1, <1>2, CodeStep, DataInvariance, PTL DEF Spec

-----------------------------------------------------------------------------
(***************************************************************************)
(* The limits of SendCode.  A message is paid for before it is sent: by    *)
(* the window its request opened, by a unit of the phone's counter and by  *)
(* a unit of the address's.  The requests that have paid are counted with  *)
(* the messages sent, and so is the room left in the present counter.      *)
(***************************************************************************)

\* A request r at step has opened the window of phone p.
Opened(step, r, p) ==
    r.phone = p /\ step \in {"phoneIncr", "phoneExpire", "ipIncr", "ipExpire", "save", "send"}

\* It has passed, or is bound to pass, the check of counter k.
Charged(step, r, k) ==
    \/ /\ r.phone = k
       /\ \/ step \in {"ipIncr", "ipExpire", "save", "send"}
          \/ step = "phoneExpire" /\ Within(1, PhoneLimit)
    \/ /\ r.ip = k
       /\ \/ step \in {"save", "send"}
          \/ step = "ipExpire" /\ Within(1, IpLimit)

Holding(p) == {h \in Handlers : Opened(pc[h], req[h], p)}
Past(k) == {h \in Handlers : Charged(pc[h], req[h], k)}

LimitOf(k) == IF k \in Phones THEN PhoneLimit ELSE IpLimit

\* How many more requests the counter n lets pass; a counter that does not exist
\* starts a life of its own.
Room(n, limit) == IF n > 0 /\ n < limit THEN limit - n ELSE 0

WindowBound(p) ==
    /\ IsFiniteSet(Holding(p))
    /\ sms[p] + Cardinality(Holding(p)) <= windows[p]

CounterBound(k) ==
    /\ IsFiniteSet(Past(k))
    /\ sms[k] + Cardinality(Past(k)) + Room(daily[k], LimitOf(k)) <= LimitOf(k) * lives[k]

SmsInv ==
    /\ \A p \in Phones : WindowBound(p)
    /\ \A k \in Counters : CounterBound(k)

\* How many elements a set has of which one may come or go.
LEMMA CardMove ==
    ASSUME NEW S, IsFiniteSet(S), NEW T, NEW h, T \ {h} = S \ {h}
    PROVE  /\ IsFiniteSet(T)
           /\ Cardinality(S) \in Nat /\ Cardinality(T) \in Nat
           /\ Cardinality(T) <= Cardinality(S) + 1
           /\ (h \in T => h \in S) => Cardinality(T) <= Cardinality(S)
           /\ h \in S /\ h \notin T => Cardinality(T) + 1 = Cardinality(S)
  <1> DEFINE U == S \ {h}
  <1>1. IsFiniteSet(U) /\ Cardinality(S) \in Nat /\ Cardinality(U) \in Nat
    BY FS_RemoveElement, FS_CardinalityType
  <1>2. S = U \/ (S = U \cup {h} /\ h \in S)
    OBVIOUS
  <1>3. T = U \/ (T = U \cup {h} /\ h \in T)
    OBVIOUS
  <1>4. h \notin U
    OBVIOUS
  <1> HIDE DEF U
  <1>5. IsFiniteSet(U \cup {h}) /\ Cardinality(U \cup {h}) = Cardinality(U) + 1
    BY <1>1, <1>4, FS_AddElement
  <1>6. IsFiniteSet(T)
    BY <1>1, <1>3, <1>5
  <1>7. Cardinality(T) = IF h \in T THEN Cardinality(U) + 1 ELSE Cardinality(U)
    BY <1>3, <1>4, <1>5
  <1>8. Cardinality(S) = IF h \in S THEN Cardinality(U) + 1 ELSE Cardinality(U)
    BY <1>2, <1>4, <1>5
  <1>9. QED
    BY <1>1, <1>6, <1>7, <1>8

\* How a move of one request changes the number of those that opened a window.
LEMMA HoldingMove ==
    ASSUME ReqInv, NEW h \in Handlers, NEW step, NEW r, Moves(h, step, r),
           NEW p, IsFiniteSet(Holding(p))
    PROVE  /\ IsFiniteSet(Holding(p)')
           /\ Cardinality(Holding(p)) \in Nat /\ Cardinality(Holding(p)') \in Nat
           /\ Cardinality(Holding(p)') <= Cardinality(Holding(p)) + 1
           /\ (Opened(step, r, p) => Opened(pc[h], req[h], p)) =>
                 Cardinality(Holding(p)') <= Cardinality(Holding(p))
           /\ Opened(pc[h], req[h], p) /\ ~Opened(step, r, p) =>
                 Cardinality(Holding(p)') + 1 = Cardinality(Holding(p))
  <1>1. Holding(p)' \ {h} = Holding(p) \ {h}
    BY MoveEffect DEF Holding
  <1>2. (h \in Holding(p) <=> Opened(pc[h], req[h], p)) /\ (h \in Holding(p)' <=> Opened(step, r, p))
    BY MoveEffect DEF Holding
  <1>3. QED
    BY <1>1, <1>2, CardMove

\* The same for the requests past a counter.
LEMMA PastMove ==
    ASSUME ReqInv, NEW h \in Handlers, NEW step, NEW r, Moves(h, step, r),
           NEW k, IsFiniteSet(Past(k))
    PROVE  /\ IsFiniteSet(Past(k)')
           /\ Cardinality(Past(k)) \in Nat /\ Cardinality(Past(k)') \in Nat
           /\ Cardinality(Past(k)') <= Cardinality(Past(k)) + 1
           /\ (Charged(step, r, k) => Charged(pc[h], req[h], k)) =>
                 Cardinality(Past(k)') <= Cardinality(Past(k))
           /\ Charged(pc[h], req[h], k) /\ ~Charged(step, r, k) =>
                 Cardinality(Past(k)') + 1 = Cardinality(Past(k))
  <1>1. Past(k)' \ {h} = Past(k) \ {h}
    BY MoveEffect DEF Past
  <1>2. (h \in Past(k) <=> Charged(pc[h], req[h], k)) /\ (h \in Past(k)' <=> Charged(step, r, k))
    BY MoveEffect DEF Past
  <1>3. QED
    BY <1>1, <1>2, CardMove

\* Arithmetic of the counters: what INCR takes from the room of a counter, and
\* what a new life adds to what is allowed.
LEMMA RoomOf ==
    ASSUME NEW n \in Nat, NEW limit \in Nat
    PROVE  /\ Room(n, limit) \in Nat /\ Room(0, limit) = 0
           /\ Room(n + 1, limit) \in Nat
           /\ n > 0 => Room(n + 1, limit) <= Room(n, limit)
           /\ n > 0 /\ Within(n + 1, limit) => Room(n + 1, limit) + 1 <= Room(n, limit)
           /\ Room(1, limit) <= limit
           /\ Within(1, limit) => Room(1, limit) + 1 <= limit
  BY DEF Room, Within

\* A counter's life is worth its limit.
LEMMA NewLife ==
    ASSUME NEW limit \in Nat, NEW l \in Nat
    PROVE  limit * l \in Nat /\ limit * (l + 1) = limit * l + limit
  OBVIOUS

\* The numbers in the bounds.
LEMMA BoundTypes ==
    ASSUME DataInv, NEW k \in Counters
    PROVE  /\ sms[k] \in Nat /\ daily[k] \in Nat /\ lives[k] \in Nat /\ LimitOf(k) \in Nat
           /\ k \in Phones => windows[k] \in Nat
           /\ Room(daily[k], LimitOf(k)) \in Nat
  BY AccountConstants DEF DataInv, Room, LimitOf

\* A move after which a request has opened no window it had not opened before.
LEMMA WindowKept ==
    ASSUME ReqInv, DataInv, NEW p \in Phones, WindowBound(p),
           NEW h \in Handlers, NEW step, NEW r, Moves(h, step, r),
           Opened(step, r, p) => Opened(pc[h], req[h], p),
           sms'[p] = sms[p], windows'[p] = windows[p]
    PROVE  WindowBound(p)'
  <1>1. sms[p] \in Nat /\ windows[p] \in Nat
    BY DEF DataInv, Counters
  <1>2. /\ IsFiniteSet(Holding(p)') /\ Cardinality(Holding(p)) \in Nat /\ Cardinality(Holding(p)') \in Nat
        /\ Cardinality(Holding(p)') <= Cardinality(Holding(p))
    BY HoldingMove DEF WindowBound
  <1>3. sms[p] + Cardinality(Holding(p)) <= windows[p]
    BY DEF WindowBound
  <1>4. sms'[p] + Cardinality(Holding(p)') <= windows'[p]
    BY <1>1, <1>2, <1>3
  <1>5. QED
    BY <1>2, <1>4 DEF WindowBound

\* A move after which a request has passed no counter it had not passed before.
LEMMA CounterKept ==
    ASSUME ReqInv, DataInv, NEW k \in Counters, CounterBound(k),
           NEW h \in Handlers, NEW step, NEW r, Moves(h, step, r),
           Charged(step, r, k) => Charged(pc[h], req[h], k),
           sms'[k] = sms[k], daily'[k] = daily[k], lives'[k] = lives[k]
    PROVE  CounterBound(k)'
  <1> DEFINE room == Room(daily[k], LimitOf(k))
             most == LimitOf(k) * lives[k]
  <1>1. sms[k] \in Nat /\ room \in Nat /\ most \in Nat
    BY BoundTypes, NewLife
  <1>2. /\ IsFiniteSet(Past(k)') /\ Cardinality(Past(k)) \in Nat /\ Cardinality(Past(k)') \in Nat
        /\ Cardinality(Past(k)') <= Cardinality(Past(k))
    BY PastMove DEF CounterBound
  <1>3. sms[k] + Cardinality(Past(k)) + room <= most
    BY DEF CounterBound
  <1>4. Room(daily[k], LimitOf(k))' = room /\ (LimitOf(k) * lives[k])' = most
    BY DEF LimitOf
  <1> HIDE DEF room, most
  <1>5. sms'[k] + Cardinality(Past(k)') + room <= most
    BY <1>1, <1>2, <1>3
  <1>6. QED
    BY <1>2, <1>4, <1>5 DEF CounterBound

\* What the steps of a request other than those that open, count and send do:
\* nothing is opened and no counter passed.
LEMMA FlowKeeps ==
    ASSUME NEW from, NEW to, NEW r, NEW k, <<from, to>> \in Flow
    PROVE  /\ from # "window" => (Opened(to, r, k) => Opened(from, r, k))
           /\ from \notin {"phoneIncr", "ipIncr", "phoneExpire", "ipExpire"} =>
                 (Charged(to, r, k) => Charged(from, r, k))
           /\ from = "phoneExpire" /\ Within(1, PhoneLimit) => (Charged(to, r, k) => Charged(from, r, k))
           /\ from = "ipExpire" /\ Within(1, IpLimit) => (Charged(to, r, k) => Charged(from, r, k))
  BY DEF Flow, Opened, Charged

\* Nor does a request that returns, begins, or is given its code.
LEMMA RestKeeps ==
    ASSUME NEW r, NEW k
    PROVE  /\ ~Opened("idle", r, k) /\ ~Opened("window", r, k) /\ ~Opened("verify", r, k)
           /\ ~Charged("idle", r, k) /\ ~Charged("window", r, k) /\ ~Charged("verify", r, k)
  BY DEF Opened, Charged

\* Giving a request its code.
LEMMA SaveKeeps ==
    ASSUME NEW r \in Requests, NEW n, NEW k
    PROVE  /\ Opened("send", [r EXCEPT !.code = n], k) => Opened("save", r, k)
           /\ Charged("send", [r EXCEPT !.code = n], k) => Charged("save", r, k)
  <1> DEFINE s == [r EXCEPT !.code = n]
  <1>1. s.phone = r.phone /\ s.ip = r.ip
    BY DEF Requests
  <1> HIDE DEF s
  <1>2. (Opened("send", s, k) => Opened("save", r, k)) /\ (Charged("send", s, k) => Charged("save", r, k))
    BY <1>1 DEF Opened, Charged
  <1>3. QED
    BY <1>2 DEF s

\* Every step of a request keeps the bound of the windows.
LEMMA WindowStep ==
    ASSUME ReqInv, DataInv, NEW p \in Phones, WindowBound(p), NEW h \in Handlers, RequestStep(h)
    PROVE  WindowBound(p)'
  <1>0. /\ sms \in [Counters -> Nat] /\ windows \in [Phones -> Nat] /\ p \in Counters
        /\ Phones \cap Ips = {} /\ req[h] \in Requests /\ Fits(pc[h], req[h], codes)
    BY AccountConstants DEF DataInv, Counters, ReqInv
  <1>1. CASE ConsumeWindow(h) /\ req[h].phone \notin window
    <2>1. /\ Moves(h, "phoneIncr", req[h]) /\ sms' = sms
          /\ windows' = [windows EXCEPT ![req[h].phone] = windows[req[h].phone] + 1]
      BY <1>1 DEF ConsumeWindow, Goto, Moves, ReqInv
    <2>2. CASE p # req[h].phone
      <3>1. ~Opened("phoneIncr", req[h], p)
        BY <2>2 DEF Opened
      <3>2. windows'[p] = windows[p] /\ sms'[p] = sms[p]
        BY <1>0, <2>1, <2>2
      <3>3. QED
        BY <2>1, <3>1, <3>2, WindowKept
    <2>3. CASE p = req[h].phone
      <3>1. windows'[p] = windows[p] + 1 /\ sms'[p] = sms[p] /\ sms[p] \in Nat /\ windows[p] \in Nat
        BY <1>0, <2>1, <2>3
      <3>2. /\ IsFiniteSet(Holding(p)') /\ Cardinality(Holding(p)) \in Nat
            /\ Cardinality(Holding(p)') \in Nat
            /\ Cardinality(Holding(p)') <= Cardinality(Holding(p)) + 1
        BY <2>1, HoldingMove DEF WindowBound
      <3>3. sms[p] + Cardinality(Holding(p)) <= windows[p]
        BY DEF WindowBound
      <3>4. sms'[p] + Cardinality(Holding(p)') <= windows'[p]
        BY <3>1, <3>2, <3>3
      <3>5. QED
        BY <3>2, <3>4 DEF WindowBound
    <2>4. QED
      BY <2>2, <2>3
  <1>2. CASE SendSMS(h) /\ p = req[h].phone
    <2>1. Moves(h, "idle", NoRequest) /\ windows' = windows /\ pc[h] = "send" /\ sms'[p] = sms[p] + 1
      BY <1>0, <1>2 DEF SendSMS, Return, Moves
    <2>2. Opened(pc[h], req[h], p) /\ ~Opened("idle", NoRequest, p)
      BY <1>2, <2>1 DEF Opened
    <2>3. /\ IsFiniteSet(Holding(p)') /\ Cardinality(Holding(p)) \in Nat
          /\ Cardinality(Holding(p)') \in Nat
          /\ Cardinality(Holding(p)') + 1 = Cardinality(Holding(p))
      BY <2>1, <2>2, HoldingMove DEF WindowBound
    <2>4. sms[p] + Cardinality(Holding(p)) <= windows[p] /\ sms[p] \in Nat /\ windows[p] \in Nat
      BY <1>0 DEF WindowBound
    <2>5. sms'[p] + Cardinality(Holding(p)') <= windows'[p]
      BY <2>1, <2>3, <2>4
    <2>6. QED
      BY <2>3, <2>5 DEF WindowBound
  <1>3. CASE /\ ~(ConsumeWindow(h) /\ req[h].phone \notin window)
             /\ ~(SendSMS(h) /\ p = req[h].phone)
    <2>1. sms'[p] = sms[p]
      <3>1. CASE SendSMS(h)
        <4>1. p \notin {req[h].phone, req[h].ip}
          BY <1>0, <1>3, <3>1 DEF Fits, SendSteps, SendSMS
        <4>2. QED
          BY <1>0, <3>1, <4>1 DEF SendSMS
      <3>2. CASE ~SendSMS(h)
        BY <3>2 DEF RequestStep, ConsumeWindow, Incr, IncrReplyLost, Expire, ExpireFails, SaveSMSCode,
           SendSMSFails, DeleteUnsentCode, VerifyCode, DeleteSMSCode, DeleteSMSCodeFails, FindUser,
           CreateUser, RequestFails, historyVars
      <3>3. QED
        BY <3>1, <3>2
    <2>2. windows' = windows
      BY <1>3 DEF RequestStep, ConsumeWindow, Incr, IncrReplyLost, Expire, ExpireFails, SaveSMSCode,
           SendSMS, SendSMSFails, DeleteUnsentCode, VerifyCode, DeleteSMSCode, DeleteSMSCodeFails, FindUser,
           CreateUser, RequestFails, historyVars
    <2>3. pc[h] = "window" => Return(h)
      BY <1>3 DEF RequestStep, ConsumeWindow, Incr, IncrReplyLost, Expire, ExpireFails, SaveSMSCode,
           SendSMS, SendSMSFails, DeleteUnsentCode, VerifyCode, DeleteSMSCode, DeleteSMSCodeFails, FindUser,
           CreateUser, RequestFails
    <2>4. CASE Moves(h, "idle", NoRequest)
      BY <2>1, <2>2, <2>4, RestKeeps, WindowKept
    <2>5. ASSUME NEW step, Moves(h, step, req[h]), <<pc[h], step>> \in Flow, pc[h] # "window"
          PROVE  WindowBound(p)'
      BY <2>1, <2>2, <2>5, FlowKeeps, WindowKept
    <2>6. CASE pc[h] = "save" /\ Moves(h, "send", [req[h] EXCEPT !.code = codes + 1])
      BY <1>0, <2>1, <2>2, <2>6, SaveKeeps, WindowKept
    <2>7. pc[h] = "window" => Moves(h, "idle", NoRequest)
      BY <2>3 DEF Return, Moves
    <2>8. QED
      BY <2>4, <2>5, <2>6, <2>7, StepMoves
  <1>4. QED
    BY <1>1, <1>2, <1>3

\* INCR on the counter k: a new life, or a unit of the room that is left.
LEMMA CountsUp ==
    ASSUME ReqInv, DataInv, NEW k \in Counters, CounterBound(k),
           NEW h \in Handlers, NEW step, NEW r, Moves(h, step, r),
           Charged(step, r, k) => Within(daily[k] + 1, LimitOf(k)),
           sms'[k] = sms[k], daily'[k] = daily[k] + 1,
           lives'[k] = IF daily[k] = 0 THEN lives[k] + 1 ELSE lives[k]
    PROVE  CounterBound(k)'
  <1> DEFINE n == daily[k]
             limit == LimitOf(k)
             most == limit * lives[k]
             more == limit * (lives[k] + 1)
             before == Cardinality(Past(k))
             after == Cardinality(Past(k)')
  <1>1. /\ sms[k] \in Nat /\ n \in Nat /\ limit \in Nat /\ most \in Nat /\ more = most + limit
        /\ Room(n, limit) \in Nat /\ Room(n + 1, limit) \in Nat
    BY BoundTypes, NewLife, RoomOf
  <1>2. /\ IsFiniteSet(Past(k)') /\ before \in Nat /\ after \in Nat /\ after <= before + 1
        /\ ~Charged(step, r, k) => after <= before
    BY PastMove DEF CounterBound
  <1>3. sms[k] + before + Room(n, limit) <= most
    BY DEF CounterBound
  <1>4. CounterBound(k)' <=> /\ IsFiniteSet(Past(k)')
                             /\ sms[k] + after + Room(n + 1, limit) <= IF n = 0 THEN more ELSE most
    BY DEF CounterBound, LimitOf
  <1>5. Charged(step, r, k) => Within(n + 1, limit)
    OBVIOUS
  <1> HIDE DEF n, limit, most, more, before, after
  <1>6. /\ n > 0 => Room(n + 1, limit) <= Room(n, limit)
        /\ n > 0 /\ Within(n + 1, limit) => Room(n + 1, limit) + 1 <= Room(n, limit)
        /\ n = 0 => Room(n + 1, limit) <= limit
        /\ n = 0 /\ Within(n + 1, limit) => Room(n + 1, limit) + 1 <= limit
    BY <1>1 DEF Room, Within
  <1>7. CASE Charged(step, r, k)
    BY <1>1, <1>2, <1>3, <1>4, <1>5, <1>6, <1>7
  <1>8. CASE ~Charged(step, r, k)
    BY <1>1, <1>2, <1>3, <1>4, <1>6, <1>8
  <1>9. QED
    BY <1>7, <1>8

\* Every step of a request keeps the bound of the counters.
LEMMA CounterStep ==
    ASSUME ReqInv, DataInv, NEW k \in Counters, CounterBound(k), NEW h \in Handlers, RequestStep(h)
    PROVE  CounterBound(k)'
  <1>0. /\ sms \in [Counters -> Nat] /\ daily \in [Counters -> Nat] /\ lives \in [Counters -> Nat]
        /\ Phones \cap Ips = {} /\ req[h] \in Requests /\ Fits(pc[h], req[h], codes)
        /\ Counters = Phones \cup Ips
    BY AccountConstants DEF DataInv, Counters, ReqInv
  <1>1. pc[h] \in {"phoneIncr", "ipIncr"} =>
            /\ Counter(h) \in Counters /\ Limit(h) = LimitOf(Counter(h))
            /\ ~Charged(pc[h], req[h], Counter(h))
    BY <1>0 DEF Fits, SendSteps, Counter, Limit, LimitOf, Charged
  <1>2. ASSUME pc[h] \in {"phoneIncr", "ipIncr"},
               daily' = [daily EXCEPT ![Counter(h)] = daily[Counter(h)] + 1],
               lives' = [lives EXCEPT ![Counter(h)] = IF daily[Counter(h)] = 0
                             THEN lives[Counter(h)] + 1 ELSE lives[Counter(h)]],
               sms' = sms,
               NEW step, NEW r, Moves(h, step, r),
               (r.phone = req[h].phone /\ r.ip = req[h].ip) \/ step = "idle",
               Charged(step, r, Counter(h)) => Within(daily[Counter(h)] + 1, LimitOf(Counter(h))),
               step \in {"idle", "phoneExpire", "ipIncr"} \/ pc[h] = "ipIncr"
        PROVE  CounterBound(k)'
    <2>1. CASE k = Counter(h)
      <3>1. /\ daily'[k] = daily[k] + 1 /\ sms'[k] = sms[k]
            /\ lives'[k] = IF daily[k] = 0 THEN lives[k] + 1 ELSE lives[k]
        BY <1>0, <1>2, <2>1
      <3>2. QED
        BY <1>2, <2>1, <3>1, CountsUp
    <2>2. CASE k # Counter(h)
      <3>1. daily'[k] = daily[k] /\ sms'[k] = sms[k] /\ lives'[k] = lives[k]
        BY <1>0, <1>2, <2>2
      <3>2. Charged(step, r, k) => Charged(pc[h], req[h], k)
        BY <1>2, <2>2 DEF Charged, Counter
      <3>3. QED
        BY <1>2, <3>1, <3>2, CounterKept
    <2>3. QED
      BY <2>1, <2>2
  <1>3. CASE Incr(h)
    <2>1. /\ pc[h] \in {"phoneIncr", "ipIncr"} /\ sms' = sms
          /\ daily' = [daily EXCEPT ![Counter(h)] = daily[Counter(h)] + 1]
          /\ lives' = [lives EXCEPT ![Counter(h)] = IF daily[Counter(h)] + 1 = 1
                         THEN lives[Counter(h)] + 1 ELSE lives[Counter(h)]]
      BY <1>3 DEF Incr
    <2>2. daily[Counter(h)] \in Nat /\ (daily[Counter(h)] + 1 = 1 <=> daily[Counter(h)] = 0)
      BY <1>0, <1>1, <2>1
    <2>3. lives' = [lives EXCEPT ![Counter(h)] = IF daily[Counter(h)] = 0
                         THEN lives[Counter(h)] + 1 ELSE lives[Counter(h)]]
      BY <2>1, <2>2
    <2>4. CASE Return(h)
      <3>1. Moves(h, "idle", NoRequest) /\ ~Charged("idle", NoRequest, Counter(h))
        BY <2>4, RestKeeps DEF Return, Moves
      <3>2. QED
        BY <1>2, <2>1, <2>3, <3>1
    <2>5. CASE daily[Counter(h)] = 0
      <3> DEFINE step == IF pc[h] = "phoneIncr" THEN "phoneExpire" ELSE "ipExpire"
      <3>1. Moves(h, step, req[h])
        BY <1>3, <2>5 DEF Incr, Goto, Moves, ReqInv
      <3>2. Charged(step, req[h], Counter(h)) => Within(1, LimitOf(Counter(h)))
        BY <1>0, <1>1, <2>1 DEF Charged, Counter, LimitOf, Fits, SendSteps
      <3>3. step \in {"phoneExpire"} \/ pc[h] = "ipIncr"
        BY <2>1
      <3>4. daily[Counter(h)] + 1 = 1
        BY <2>5
      <3> HIDE DEF step
      <3>5. QED
        BY <1>2, <2>1, <2>3, <3>1, <3>2, <3>3, <3>4
    <2>6. CASE daily[Counter(h)] # 0 /\ ~Return(h)
      <3>1. Within(daily[Counter(h)] + 1, Limit(h)) /\ Goto(h, NextCheck(h))
        BY <1>3, <2>2, <2>6 DEF Incr
      <3>2. Moves(h, NextCheck(h), req[h])
        BY <3>1 DEF Goto, Moves, ReqInv
      <3>3. NextCheck(h) \in {"ipIncr"} \/ pc[h] = "ipIncr"
        BY <2>1 DEF NextCheck
      <3>4. QED
        BY <1>1, <1>2, <2>1, <2>3, <3>1, <3>2, <3>3
    <2>7. QED
      BY <2>4, <2>5, <2>6
  <1>4. CASE IncrReplyLost(h)
    <2>1. /\ pc[h] \in {"phoneIncr", "ipIncr"} /\ sms' = sms
          /\ daily' = [daily EXCEPT ![Counter(h)] = daily[Counter(h)] + 1]
          /\ lives' = [lives EXCEPT ![Counter(h)] = IF daily[Counter(h)] = 0
                         THEN lives[Counter(h)] + 1 ELSE lives[Counter(h)]]
          /\ Moves(h, "idle", NoRequest)
      BY <1>4 DEF IncrReplyLost, Return, Moves
    <2>2. ~Charged("idle", NoRequest, Counter(h))
      BY RestKeeps
    <2>3. QED
      BY <1>2, <2>1, <2>2
  <1>5. CASE SendSMS(h) /\ k \in {req[h].phone, req[h].ip}
    <2> DEFINE room == Room(daily[k], LimitOf(k))
               most == LimitOf(k) * lives[k]
    <2>1. /\ Moves(h, "idle", NoRequest) /\ pc[h] = "send" /\ sms'[k] = sms[k] + 1
          /\ daily' = daily /\ lives' = lives
      BY <1>0, <1>5 DEF SendSMS, Return, Moves, smsVars
    <2>2. Charged(pc[h], req[h], k) /\ ~Charged("idle", NoRequest, k)
      BY <1>5, <2>1, RestKeeps DEF Charged
    <2>3. /\ IsFiniteSet(Past(k)') /\ Cardinality(Past(k)) \in Nat
          /\ Cardinality(Past(k)') \in Nat
          /\ Cardinality(Past(k)') + 1 = Cardinality(Past(k))
      BY <2>1, <2>2, PastMove DEF CounterBound
    <2>4. sms[k] + Cardinality(Past(k)) + room <= most /\ sms[k] \in Nat /\ room \in Nat /\ most \in Nat
      BY <1>0, BoundTypes, NewLife DEF CounterBound
    <2>5. Room(daily[k], LimitOf(k))' = room /\ (LimitOf(k) * lives[k])' = most
      BY <2>1 DEF LimitOf
    <2> HIDE DEF room, most
    <2>6. sms'[k] + Cardinality(Past(k)') + room <= most
      BY <2>1, <2>3, <2>4
    <2>7. QED
      BY <2>3, <2>5, <2>6 DEF CounterBound
  <1>6. CASE ~Incr(h) /\ ~IncrReplyLost(h) /\ ~(SendSMS(h) /\ k \in {req[h].phone, req[h].ip})
    <2>1. sms'[k] = sms[k]
      BY <1>0, <1>6 DEF RequestStep, ConsumeWindow, Expire, ExpireFails, SaveSMSCode, SendSMS,
           SendSMSFails, DeleteUnsentCode, VerifyCode, DeleteSMSCode, DeleteSMSCodeFails, FindUser,
           CreateUser, RequestFails, historyVars
    <2>2. daily' = daily /\ lives' = lives
      BY <1>6 DEF RequestStep, ConsumeWindow, Expire, ExpireFails, SaveSMSCode, SendSMS,
           SendSMSFails, DeleteUnsentCode, VerifyCode, DeleteSMSCode, DeleteSMSCodeFails, FindUser,
           CreateUser, RequestFails, historyVars, smsVars
    <2>3. \/ Return(h)
          \/ pc[h] \notin {"phoneIncr", "ipIncr", "phoneExpire", "ipExpire"}
          \/ pc[h] = "phoneExpire" /\ Within(1, PhoneLimit)
          \/ pc[h] = "ipExpire" /\ Within(1, IpLimit)
      BY <1>6 DEF RequestStep, ConsumeWindow, Expire, ExpireFails, SaveSMSCode, SendSMS,
           SendSMSFails, DeleteUnsentCode, VerifyCode, DeleteSMSCode, DeleteSMSCodeFails, FindUser,
           CreateUser, RequestFails, Limit
    <2>4. CASE Moves(h, "idle", NoRequest)
      BY <2>1, <2>2, <2>4, RestKeeps, CounterKept
    <2>5. ASSUME NEW step, Moves(h, step, req[h]), <<pc[h], step>> \in Flow, ~Return(h)
          PROVE  CounterBound(k)'
      <3>1. Charged(step, req[h], k) => Charged(pc[h], req[h], k)
        BY <2>3, <2>5, FlowKeeps
      <3>2. QED
        BY <2>1, <2>2, <2>5, <3>1, CounterKept
    <2>6. CASE pc[h] = "save" /\ Moves(h, "send", [req[h] EXCEPT !.code = codes + 1])
      BY <1>0, <2>1, <2>2, <2>6, SaveKeeps, CounterKept
    <2>7. Return(h) => Moves(h, "idle", NoRequest)
      BY DEF Return, Moves
    <2>8. QED
      BY <2>4, <2>5, <2>6, <2>7, StepMoves
  <1>7. QED
    BY <1>3, <1>4, <1>5, <1>6

\* Every step keeps what was sent within what was paid for.
LEMMA SmsStep == ReqInv /\ DataInv /\ SmsInv /\ [Next]_vars => SmsInv'
  <1> SUFFICES ASSUME ReqInv, DataInv, SmsInv, [Next]_vars PROVE SmsInv'
    OBVIOUS
  <1>1. ASSUME NEW h \in Handlers, RequestStep(h)
        PROVE  SmsInv'
    BY <1>1, WindowStep, CounterStep DEF SmsInv
  <1>2. ASSUME NEW h \in Handlers, NEW p \in Active,
               \/ \E i \in Ips : BeginSendCode(h, p, i)
               \/ \E c \in 1..codes : BeginLogin(h, p, c)
        PROVE  SmsInv'
    <2>1. UNCHANGED <<sms, windows, daily, lives>>
      BY <1>2, BeginMoves DEF smsVars, historyVars
    <2>2. \E step, r : Moves(h, step, r) /\ step \in {"window", "verify"}
      <3>1. ASSUME NEW i \in Ips, Moves(h, "window", [phone |-> p, ip |-> i, code |-> NoCode])
            PROVE  \E step, r : Moves(h, step, r) /\ step \in {"window", "verify"}
        BY <3>1
      <3>2. ASSUME NEW c \in 1..codes, Moves(h, "verify", [phone |-> p, ip |-> None, code |-> c])
            PROVE  \E step, r : Moves(h, step, r) /\ step \in {"window", "verify"}
        BY <3>2
      <3>3. QED
        BY <1>2, <3>1, <3>2, BeginMoves
    <2>3. QED
      BY <2>1, <2>2, RestKeeps, WindowKept, CounterKept DEF SmsInv
  <1>3. CASE UNCHANGED <<pc, req, historyVars>>
    <2>1. \A k : Holding(k)' = Holding(k) /\ Past(k)' = Past(k)
      BY <1>3 DEF Holding, Past
    <2>2. UNCHANGED <<sms, lives, windows>>
      BY <1>3 DEF historyVars
    <2>3. \A p \in Phones : WindowBound(p)'
      BY <2>1, <2>2 DEF SmsInv, WindowBound
    <2>4. CASE UNCHANGED daily
      <3>1. \A k \in Counters : CounterBound(k)'
        BY <2>1, <2>2, <2>4 DEF SmsInv, CounterBound, LimitOf
      <3>2. QED
        BY <2>3, <3>1 DEF SmsInv
    <2>5. ASSUME NEW c \in Counters, CounterExpires(c)
          PROVE  SmsInv'
      <3>1. daily' = [daily EXCEPT ![c] = 0] /\ daily \in [Counters -> Nat]
        BY <2>5 DEF CounterExpires, DataInv
      <3>2. ASSUME NEW k \in Counters
            PROVE  CounterBound(k)'
        <4> DEFINE room == Room(daily[k], LimitOf(k))
                   room2 == Room(daily'[k], LimitOf(k))
                   most == LimitOf(k) * lives[k]
        <4>1. /\ sms[k] \in Nat /\ room \in Nat /\ most \in Nat /\ room2 \in Nat
              /\ daily[k] \in Nat /\ LimitOf(k) \in Nat /\ daily'[k] \in {daily[k], 0}
          BY <3>1, BoundTypes, NewLife, RoomOf
        <4>2. room2 <= room
          <5>1. room2 = room \/ room2 = Room(0, LimitOf(k))
            BY <4>1
          <5>2. Room(0, LimitOf(k)) = 0
            BY <4>1, RoomOf
          <5> HIDE DEF room, room2
          <5>3. QED
            BY <4>1, <5>1, <5>2
        <4>3. sms[k] + Cardinality(Past(k)) + room <= most /\ IsFiniteSet(Past(k))
          BY DEF SmsInv, CounterBound
        <4>4. Cardinality(Past(k)) \in Nat
          BY <4>3, FS_CardinalityType
        <4>5. CounterBound(k)' <=> /\ IsFiniteSet(Past(k))
                                   /\ sms[k] + Cardinality(Past(k)) + room2 <= most
          BY <2>1, <2>2 DEF CounterBound, LimitOf
        <4> HIDE DEF room, room2, most
        <4>6. QED
          BY <4>1, <4>2, <4>3, <4>4, <4>5
      <3>3. QED
        BY <2>3, <3>2 DEF SmsInv
    <2>6. CASE \E p \in Active : WindowExpires(p) \/ CodeExpires(p)
      BY <2>4, <2>6 DEF WindowExpires, CodeExpires
    <2>7. QED
      BY <1>1, <1>2, <2>4, <2>5, <2>6, MigrationQuiet DEF AccountNext, smsVars
  <1>4. QED
    BY <1>1, <1>2, <1>3, OtherSteps

\* The limits of SendCode hold (user_service.go:92): however requests overlap,
\* fail and outlive their keys, no more messages go out than windows were opened
\* and than the limits allow for the counters there were.
THEOREM MessagesAreLimited == Spec => []SmsLimits
  <1>1. Init => SmsInv
    <2> SUFFICES ASSUME Init PROVE SmsInv
      OBVIOUS
    <2>1. \A k : Holding(k) = {} /\ Past(k) = {}
      BY RestKeeps DEF Init, AccountInit, Holding, Past
    <2>2. IsFiniteSet({}) /\ Cardinality({}) = 0
      BY FS_EmptySet
    <2>3. \A p \in Phones : WindowBound(p)
      <3>1. \A p \in Phones : sms[p] = 0 /\ windows[p] = 0
        BY DEF Init, AccountInit, Counters
      <3>2. QED
        BY <2>1, <2>2, <3>1 DEF WindowBound
    <2>4. ASSUME NEW k \in Counters
          PROVE  CounterBound(k)
      <3>1. sms[k] = 0 /\ daily[k] = 0 /\ lives[k] = 0 /\ LimitOf(k) \in Nat
        BY AccountConstants DEF Init, AccountInit, LimitOf
      <3>2. Room(0, LimitOf(k)) = 0
        BY <3>1, RoomOf
      <3>3. LimitOf(k) * 0 = 0
        BY <3>1
      <3>4. IsFiniteSet(Past(k)) /\ Cardinality(Past(k)) = 0
        BY <2>1, <2>2
      <3>5. sms[k] + Cardinality(Past(k)) + Room(daily[k], LimitOf(k)) = 0 /\ LimitOf(k) * lives[k] = 0
        BY <3>1, <3>2, <3>3, <3>4
      <3>6. QED
        BY <3>4, <3>5 DEF CounterBound
    <2>5. QED
      BY <2>3, <2>4 DEF SmsInv
  <1>2. DataInv /\ SmsInv => SmsLimits
    <2> SUFFICES ASSUME DataInv, SmsInv PROVE SmsLimits
      OBVIOUS
    <2>1. ASSUME NEW p \in Phones
          PROVE  sms[p] <= windows[p]
      <3>1. IsFiniteSet(Holding(p)) /\ sms[p] + Cardinality(Holding(p)) <= windows[p]
        BY DEF SmsInv, WindowBound
      <3>2. sms[p] \in Nat /\ windows[p] \in Nat /\ Cardinality(Holding(p)) \in Nat
        BY <3>1, FS_CardinalityType DEF DataInv, Counters
      <3>3. QED
        BY <3>1, <3>2
    <2>2. ASSUME NEW k \in Counters
          PROVE  sms[k] <= LimitOf(k) * lives[k]
      <3> DEFINE room == Room(daily[k], LimitOf(k))
                 most == LimitOf(k) * lives[k]
      <3>1. IsFiniteSet(Past(k)) /\ sms[k] + Cardinality(Past(k)) + room <= most
        BY DEF SmsInv, CounterBound
      <3>2. sms[k] \in Nat /\ room \in Nat /\ most \in Nat /\ Cardinality(Past(k)) \in Nat
        BY <3>1, BoundTypes, NewLife, FS_CardinalityType
      <3> HIDE DEF room, most
      <3>3. sms[k] <= most
        BY <3>1, <3>2
      <3>4. QED
        BY <3>3 DEF most
    <2>3. QED
      BY <2>1, <2>2, AccountConstants DEF SmsLimits, LimitOf, Counters
  <1>3. QED
    BY <1>1, <1>2, SmsStep, DataInvariance, PTL DEF Spec

-----------------------------------------------------------------------------
(***************************************************************************)
(* The rows of the users table.  Each is as it was before the migration,   *)
(* as it is after it, or between the two, whoever writes it.               *)
(***************************************************************************)

\* A stored phone that is up to date.
Target == IF Key # None THEN <<Key>> ELSE <<>>

\* The hash of a phone before the pepper was introduced.
OldHash(p) == Hash(p, <<>>, None)

Rows == {r \in [phone : Phones, enc : {<<>>, Target},
                hash : {OldHash(p) : p \in Phones} \cup {HashPhone(p) : p \in Phones}] :
           r.hash \in {OldHash(r.phone), HashPhone(r.phone)}}

UpToDate(r) == r.enc = Target /\ r.hash = HashPhone(r.phone)

\* What may become of a row: what is up to date stays so.
Follows(old, cur) ==
    /\ cur.phone = old.phone
    /\ old.enc = Target => cur.enc = Target
    /\ old.hash = HashPhone(old.phone) => cur.hash = HashPhone(old.phone)

\* What may become of the table: its rows are followed by others, and the rows
\* that are added are up to date.
Evolves(us, vs) ==
    /\ Len(us) <= Len(vs)
    /\ \A i \in 1..Len(us) : Follows(us[i], vs[i])
    /\ \A i \in Len(us) + 1 .. Len(vs) : UpToDate(vs[i])

\* Hashes of different phones are different.
LEMMA HashOf ==
    ASSUME NEW p, NEW q
    PROVE  /\ HashPhone(p) = HashPhone(q) => p = q
           /\ OldHash(p) = HashPhone(q) => p = q
           /\ OldHash(p) = OldHash(q) => p = q
           /\ HashPhone(p).layers = <<>> /\ OldHash(p).layers = <<>>
  BY DEF HashPhone, OldHash, Hash

\* The fields of a row.
LEMMA RowFields ==
    ASSUME NEW r \in Rows
    PROVE  /\ r.phone \in Phones /\ r.enc \in {<<>>, Target}
           /\ r.hash \in {OldHash(r.phone), HashPhone(r.phone)}
           /\ r = [phone |-> r.phone, enc |-> r.enc, hash |-> r.hash]
  BY DEF Rows

\* A row put together from a phone, an encryption and a hash of that phone.
LEMMA RowMade ==
    ASSUME NEW p \in Phones, NEW e \in {<<>>, Target}, NEW a \in {OldHash(p), HashPhone(p)}
    PROVE  [phone |-> p, enc |-> e, hash |-> a] \in Rows
  BY DEF Rows

\* computeUpdates takes every row to the same: its phone encrypted once, and
\* hashed with the pepper.
LEMMA UpdatedRow ==
    ASSUME NEW r \in Rows
    PROVE  /\ Updated(r) = [phone |-> r.phone, enc |-> Target, hash |-> HashPhone(r.phone)]
           /\ Updated(r) \in Rows /\ UpToDate(Updated(r))
           /\ Updated(r) = r <=> UpToDate(r)
  <1>1. /\ r.phone \in Phones /\ r.enc \in {<<>>, Target}
        /\ r = [phone |-> r.phone, enc |-> r.enc, hash |-> r.hash]
    BY RowFields
  <1>2. PlainOf(r.enc) = <<>>
    <2>1. Tail(<<Key>>) = <<>> /\ Head(<<Key>>) = Key /\ <<Key>> # <<>>
      OBVIOUS
    <2>2. QED
      BY <1>1, <2>1 DEF PlainOf, Decryptable, Target
  <1>3. (IF Key # None /\ PlainOf(r.enc) = r.enc THEN Encrypt(PlainOf(r.enc), Key) ELSE r.enc) = Target
    <2>1. <<Key>> \o <<>> = <<Key>>
      OBVIOUS
    <2>2. QED
      BY <1>1, <1>2, <2>1 DEF Encrypt, Target
  <1>4. Updated(r) = [phone |-> r.phone, enc |-> Target, hash |-> HashPhone(r.phone)]
    BY <1>2, <1>3 DEF Updated, HashPhone
  <1>5. [phone |-> r.phone, enc |-> Target, hash |-> HashPhone(r.phone)] \in Rows
    BY <1>1, RowMade
  <1>6. Updated(r) = r <=> UpToDate(r)
    BY <1>1, <1>4 DEF UpToDate
  <1>7. QED
    BY <1>4, <1>5, <1>6 DEF UpToDate

\* Following is reflexive and transitive, and keeps a row up to date.
LEMMA FollowsOn ==
    ASSUME NEW r, NEW s, NEW t
    PROVE  /\ Follows(r, r)
           /\ Follows(r, s) /\ Follows(s, t) => Follows(r, t)
           /\ UpToDate(r) /\ Follows(r, s) => UpToDate(s)
           /\ UpToDate(s) /\ s.phone = r.phone => Follows(r, s)
  BY DEF Follows, UpToDate

-----------------------------------------------------------------------------
(***************************************************************************)
(* The runs of the command.  A real run without errors has brought every   *)
(* row before its position up to date, and what it has read is not newer   *)
(* than the table.                                                         *)
(***************************************************************************)

Entries == [id : Nat, row : Rows]

Working == [step : {"fetch", "rows"}, dry : BOOLEAN, last : Nat, batch : Seq(Entries), errors : BOOLEAN]
Finished == [step : {"done"}, dry : BOOLEAN, errors : BOOLEAN]

\* A real run that has met no error.
Clean(r) == ~r.dry /\ ~r.errors

\* All rows of table us up to n are up to date.
UpTo(us, n) == \A i \in 1..n : UpToDate(us[i])

\* The batch of run r ends at row end; its first rows have been dealt with.
AtBatch(r, us, end) ==
    /\ end \in 1..Len(us)
    /\ r.last + Len(r.batch) <= end /\ end <= r.last + RowsPerBatch
    /\ \A j \in 1..Len(r.batch) :
          r.batch[j].id = (end - Len(r.batch)) + j /\ Follows(r.batch[j].row, us[r.batch[j].id])
    /\ Clean(r) => UpTo(us, end - Len(r.batch))
    /\ Clean(r) /\ end < r.last + RowsPerBatch => \A i \in end + 1 .. Len(us) : UpToDate(us[i])

RunOK(r, us) ==
    /\ r.step = "fetch" => r.last <= Len(us) /\ (Clean(r) => UpTo(us, r.last))
    /\ r.step = "rows" => Len(r.batch) > 0 /\ \E end \in 1..Len(us) : AtBatch(r, us, end)
    /\ r.step = "done" /\ Clean(r) => UpTo(us, Len(us))

\* What the table becomes under a run does not disturb the run.
LEMMA RunEvolves ==
    ASSUME NEW r \in {Off} \cup Working \cup Finished, NEW us \in Seq(Rows), NEW vs \in Seq(Rows),
           RunOK(r, us), Evolves(us, vs)
    PROVE  RunOK(r, vs)
  <1>0. Len(us) \in Nat /\ Len(vs) \in Nat /\ Len(us) <= Len(vs) /\ RowsPerBatch \in Nat
    BY AccountConstants DEF Evolves
  <1>1. ASSUME NEW i \in 1..Len(vs), i \in 1..Len(us) => UpToDate(us[i])
        PROVE  UpToDate(vs[i])
    BY <1>0, <1>1, FollowsOn DEF Evolves
  <1>2. ASSUME NEW n \in Int, n <= Len(us), UpTo(us, n)
        PROVE  UpTo(vs, n)
    BY <1>0, <1>1, <1>2 DEF UpTo
  <1>3. CASE r.step = "fetch"
    <2>1. r.last \in Nat /\ r.last <= Len(us) /\ (Clean(r) => UpTo(us, r.last))
      BY <1>3 DEF RunOK, Working, Finished, Off
    <2>2. r.last <= Len(vs) /\ (Clean(r) => UpTo(vs, r.last))
      BY <1>0, <1>2, <2>1
    <2>3. QED
      BY <1>3, <2>2 DEF RunOK
  <1>4. CASE r.step = "rows"
    <2>1. r \in Working /\ Len(r.batch) > 0
      BY <1>4 DEF RunOK, Working, Finished, Off
    <2>2. r.last \in Nat /\ Len(r.batch) \in Nat
      BY <2>1 DEF Working
    <2>3. PICK end \in 1..Len(us) : AtBatch(r, us, end)
      BY <1>4 DEF RunOK
    <2>4. end \in 1..Len(vs)
      BY <1>0
    <2>5. \A j \in 1..Len(r.batch) :
             r.batch[j].id = (end - Len(r.batch)) + j /\ Follows(r.batch[j].row, vs[r.batch[j].id])
      <3>1. TAKE j \in 1..Len(r.batch)
      <3>2. r.batch[j].id = (end - Len(r.batch)) + j /\ Follows(r.batch[j].row, us[r.batch[j].id])
        BY <2>3 DEF AtBatch
      <3>3. (end - Len(r.batch)) + j \in 1..Len(us)
        BY <1>0, <2>2, <2>3 DEF AtBatch
      <3>4. Follows(us[r.batch[j].id], vs[r.batch[j].id])
        BY <3>2, <3>3 DEF Evolves
      <3>5. QED
        BY <3>2, <3>4, FollowsOn
    <2>6. Clean(r) => UpTo(vs, end - Len(r.batch))
      <3>1. end - Len(r.batch) \in Int /\ end - Len(r.batch) <= Len(us)
        BY <1>0, <2>2
      <3>2. QED
        BY <1>2, <2>3, <3>1 DEF AtBatch
    <2>7. ASSUME Clean(r), end < r.last + RowsPerBatch, NEW i \in end + 1 .. Len(vs)
          PROVE  UpToDate(vs[i])
      <3>1. i \in 1..Len(vs) /\ (i \in 1..Len(us) => i \in end + 1 .. Len(us))
        BY <1>0
      <3>2. QED
        BY <1>1, <2>3, <2>7, <3>1 DEF AtBatch
    <2>8. AtBatch(r, vs, end)
      BY <2>3, <2>4, <2>5, <2>6, <2>7 DEF AtBatch
    <2>9. QED
      BY <1>4, <2>1, <2>4, <2>8 DEF RunOK
  <1>5. CASE r.step = "done"
    <2>1. Clean(r) => UpTo(us, Len(us))
      BY <1>5 DEF RunOK
    <2>2. Clean(r) => UpTo(vs, Len(vs))
      BY <1>0, <1>1, <2>1 DEF UpTo
    <2>3. QED
      BY <1>5, <2>2 DEF RunOK
  <1>6. QED
    BY <1>3, <1>4, <1>5 DEF RunOK

\* The head of a batch.
LEMMA HeadOfBatch ==
    ASSUME NEW r \in Working, NEW us \in Seq(Rows), RunOK(r, us), r.step = "rows"
    PROVE  /\ r.batch \in Seq(Entries) /\ Len(r.batch) > 0
           /\ Head(r.batch) = r.batch[1]
           /\ Head(r.batch) \in Entries /\ Head(r.batch).row \in Rows
           /\ Head(r.batch).id \in 1..Len(us)
           /\ Follows(Head(r.batch).row, us[Head(r.batch).id])
  <1>1. /\ r.batch \in Seq(Entries) /\ Len(r.batch) > 0 /\ Len(r.batch) \in Nat /\ r.last \in Nat
        /\ Len(us) \in Nat
    BY DEF RunOK, Working
  <1>2. Head(r.batch) = r.batch[1] /\ r.batch[1] \in Entries /\ 1 \in 1..Len(r.batch)
    BY <1>1
  <1>3. PICK end \in 1..Len(us) : AtBatch(r, us, end)
    BY DEF RunOK
  <1>4. /\ r.batch[1].id = (end - Len(r.batch)) + 1
        /\ Follows(r.batch[1].row, us[r.batch[1].id])
        /\ r.last + Len(r.batch) <= end
    BY <1>2, <1>3 DEF AtBatch
  <1>5. (end - Len(r.batch)) + 1 \in 1..Len(us)
    BY <1>1, <1>4
  <1>6. QED
    BY <1>1, <1>2, <1>4, <1>5 DEF Entries

\* What AfterRow does to its run: the next row, the next batch, or the end.
LEMMA AfterRowIs ==
    ASSUME run \in [Runs -> {Off} \cup Working \cup Finished], NEW m \in Runs, run[m].step = "rows",
           NEW failed \in BOOLEAN
    PROVE  LET r == run[m]
               err == r.errors \/ failed
               next == IF Len(r.batch) > 1
                         THEN [step |-> "rows", dry |-> r.dry, last |-> r.last,
                               batch |-> Tail(r.batch), errors |-> err]
                       ELSE IF Head(r.batch).id - r.last = RowsPerBatch
                         THEN [step |-> "fetch", dry |-> r.dry, last |-> Head(r.batch).id,
                               batch |-> <<>>, errors |-> err]
                       ELSE [step |-> "done", dry |-> r.dry, errors |-> err]
           IN  AfterRow(m, failed) = [run EXCEPT ![m] = next]
  <1>1. PICK r : r = run[m]
    OBVIOUS
  <1>2. PICK d, l, b, e : /\ r = [step |-> "rows", dry |-> d, last |-> l, batch |-> b, errors |-> e]
                          /\ r.dry = d /\ r.last = l /\ r.batch = b /\ r.errors = e
    <2>1. r = [step |-> "rows", dry |-> r.dry, last |-> r.last, batch |-> r.batch, errors |-> r.errors]
      BY <1>1 DEF Working, Finished, Off
    <2>2. QED
      BY <2>1
  <1>3. PICK err : err = (r.errors \/ failed)
    OBVIOUS
  <1>4. PICK id : id = Head(b).id
    OBVIOUS
  <1>5. PICK t : t = Tail(b)
    OBVIOUS
  <1> DEFINE s1 == [r EXCEPT !.batch = t]
             s2 == [s1 EXCEPT !.errors = err]
             r1 == [r EXCEPT !.step = "fetch"]
             r2 == [r1 EXCEPT !.last = id]
             r3 == [r2 EXCEPT !.batch = <<>>]
             r4 == [r3 EXCEPT !.errors = err]
  <1>6. s1 = [step |-> "rows", dry |-> d, last |-> l, batch |-> t, errors |-> e]
    BY <1>2
  <1>7. r1 = [step |-> "fetch", dry |-> d, last |-> l, batch |-> b, errors |-> e]
    BY <1>2
  <1>8. [run EXCEPT ![m].batch = t, ![m].errors = err] = [run EXCEPT ![m] = s2]
    BY <1>1
  <1>9. [run EXCEPT ![m].step = "fetch", ![m].last = id, ![m].batch = <<>>, ![m].errors = err]
            = [run EXCEPT ![m] = r4]
    BY <1>1
  <1> HIDE DEF s1, r1
  <1>10. s2 = [step |-> "rows", dry |-> d, last |-> l, batch |-> t, errors |-> err]
    BY <1>6
  <1>11. r2 = [step |-> "fetch", dry |-> d, last |-> id, batch |-> b, errors |-> e]
    BY <1>7
  <1> HIDE DEF s2, r2
  <1>12. r3 = [step |-> "fetch", dry |-> d, last |-> id, batch |-> <<>>, errors |-> e]
    BY <1>11
  <1> HIDE DEF r3
  <1>13. r4 = [step |-> "fetch", dry |-> d, last |-> id, batch |-> <<>>, errors |-> err]
    BY <1>12
  <1> HIDE DEF r4
  <1>14. CASE Len(b) > 1
    <2>1. AfterRow(m, failed) = [run EXCEPT ![m].batch = t, ![m].errors = err]
      BY <1>1, <1>2, <1>3, <1>5, <1>14 DEF AfterRow
    <2>2. QED
      BY <1>1, <1>2, <1>3, <1>5, <1>8, <1>10, <1>14, <2>1
  <1>15. CASE ~(Len(b) > 1) /\ id - l = RowsPerBatch
    <2>1. AfterRow(m, failed)
            = [run EXCEPT ![m].step = "fetch", ![m].last = id, ![m].batch = <<>>, ![m].errors = err]
      BY <1>1, <1>2, <1>3, <1>4, <1>15 DEF AfterRow
    <2>2. QED
      BY <1>1, <1>2, <1>3, <1>4, <1>9, <1>13, <1>15, <2>1
  <1>16. CASE ~(Len(b) > 1) /\ id - l # RowsPerBatch
    BY <1>1, <1>2, <1>3, <1>4, <1>16 DEF AfterRow
  <1>17. QED
    BY <1>14, <1>15, <1>16

\* A run that has dealt with a row goes on with what it promises, if the row is
\* up to date or the run is not clean.
LEMMA AfterRowKeeps ==
    ASSUME run \in [Runs -> {Off} \cup Working \cup Finished], NEW m \in Runs, run[m].step = "rows",
           NEW failed \in BOOLEAN, NEW us \in Seq(Rows), RunOK(run[m], us),
           Clean(run[m]) /\ ~failed => UpToDate(us[Head(run[m].batch).id])
    PROVE  /\ AfterRow(m, failed) \in [Runs -> {Off} \cup Working \cup Finished]
           /\ AfterRow(m, failed)[m] \in {Off} \cup Working \cup Finished
           /\ RunOK(AfterRow(m, failed)[m], us)
           /\ \A n \in Runs : n # m => AfterRow(m, failed)[n] = run[n]
  <1> DEFINE r == run[m]
             b == r.batch
             err == r.errors \/ failed
             id == Head(b).id
  <1>1. r \in Working
    BY DEF Working, Finished, Off
  <1>2. /\ b \in Seq(Entries) /\ Len(b) \in Nat /\ Len(b) > 0 /\ r.last \in Nat /\ Len(us) \in Nat
        /\ RowsPerBatch \in Nat /\ Head(b) = b[1] /\ id \in 1..Len(us)
    BY <1>1, HeadOfBatch, AccountConstants DEF Working
  <1>b. err \in BOOLEAN /\ r.dry \in BOOLEAN
    BY <1>1 DEF Working
  <1>3. PICK end \in 1..Len(us) : AtBatch(r, us, end)
    BY DEF RunOK
  <1>4. id = (end - Len(b)) + 1 /\ r.last + Len(b) <= end /\ end <= r.last + RowsPerBatch
    <2>1. 1 \in 1..Len(b)
      BY <1>2
    <2>2. QED
      BY <1>2, <1>3, <2>1 DEF AtBatch
  <1>5. ASSUME ~r.dry, ~err
        PROVE  UpTo(us, id)
    <2>1. UpTo(us, end - Len(b)) /\ UpToDate(us[id])
      BY <1>3, <1>5 DEF AtBatch, Clean
    <2>2. \A i \in 1..id : i \in 1..(end - Len(b)) \/ i = id
      <3> HIDE DEF id, b, r
      <3>1. QED
        BY <1>2, <1>4
    <2>3. QED
      BY <2>1, <2>2 DEF UpTo
  <1>6. ASSUME ~r.dry, ~err, end < r.last + RowsPerBatch
        PROVE  \A i \in end + 1 .. Len(us) : UpToDate(us[i])
    BY <1>3, <1>6 DEF AtBatch, Clean
  <1>7. ASSUME NEW next \in {Off} \cup Working \cup Finished, RunOK(next, us),
               AfterRow(m, failed) = [run EXCEPT ![m] = next]
        PROVE  /\ AfterRow(m, failed) \in [Runs -> {Off} \cup Working \cup Finished]
               /\ AfterRow(m, failed)[m] \in {Off} \cup Working \cup Finished
               /\ RunOK(AfterRow(m, failed)[m], us)
               /\ \A n \in Runs : n # m => AfterRow(m, failed)[n] = run[n]
    <2>1. AfterRow(m, failed)[m] = next
      BY <1>7
    <2>2. QED
      BY <1>7, <2>1
  <1>8. CASE Len(b) > 1
    <2> DEFINE t == Tail(b)
               next == [step |-> "rows", dry |-> r.dry, last |-> r.last, batch |-> t, errors |-> err]
    <2>1. t \in Seq(Entries) /\ Len(t) = Len(b) - 1 /\ \A j \in 1..Len(t) : t[j] = b[j + 1]
      BY <1>2, <1>8
    <2>2. AfterRow(m, failed) = [run EXCEPT ![m] = next]
      BY <1>8, AfterRowIs
    <2> HIDE DEF t
    <2>3. next \in Working
      BY <1>2, <1>b, <2>1 DEF Working
    <2>4. AtBatch(next, us, end)
      <3>1. r.last + Len(t) <= end
        BY <1>2, <1>4, <2>1
      <3>2. ASSUME NEW j \in 1..Len(t)
            PROVE  t[j].id = (end - Len(t)) + j /\ Follows(t[j].row, us[t[j].id])
        <4>0. \A n, k \in Nat : /\ k \in 1..(n - 1) => k + 1 \in 1..n
                               /\ (end - n) + (k + 1) = (end - (n - 1)) + k
          OBVIOUS
        <4>1. j + 1 \in 1..Len(b) /\ t[j] = b[j + 1] /\ (end - Len(b)) + (j + 1) = (end - Len(t)) + j
          <5>1. j \in Nat /\ Len(b) \in Nat /\ Len(t) = Len(b) - 1 /\ t[j] = b[j + 1]
            BY <1>2, <2>1
          <5> HIDE DEF b, r
          <5>2. QED
            BY <4>0, <5>1
        <4>2. b[j + 1].id = (end - Len(b)) + (j + 1) /\ Follows(b[j + 1].row, us[b[j + 1].id])
          BY <1>3, <4>1 DEF AtBatch
        <4>3. QED
          BY <4>1, <4>2
      <3>3. end - Len(t) = id
        <4> HIDE DEF id, b, r
        <4>1. QED
          BY <1>2, <1>4, <2>1
      <3>4. QED
        BY <1>4, <1>5, <1>6, <3>1, <3>2, <3>3 DEF AtBatch, Clean
    <2>5. Len(t) > 0
      BY <1>2, <1>8, <2>1
    <2>6. RunOK(next, us)
      BY <2>4, <2>5 DEF RunOK
    <2> HIDE DEF next
    <2>7. QED
      BY <1>7, <2>2, <2>3, <2>6
  <1>9. CASE ~(Len(b) > 1)
    <2>1. Len(b) = 1 /\ id = end
      <3> HIDE DEF id, b, r
      <3>1. \A n \in Nat : n > 0 /\ ~(n > 1) => n = 1
        OBVIOUS
      <3>2. Len(b) = 1
        BY <1>2, <1>9, <3>1
      <3>3. QED
        BY <1>4, <3>2
    <2>2. CASE id - r.last = RowsPerBatch
      <3> DEFINE next == [step |-> "fetch", dry |-> r.dry, last |-> id, batch |-> <<>>, errors |-> err]
      <3>1. AfterRow(m, failed) = [run EXCEPT ![m] = next]
        BY <1>9, <2>2, AfterRowIs
      <3>2. <<>> \in Seq(Entries) /\ id \in Nat /\ id <= Len(us)
        BY <1>2
      <3>3. next \in Working
        BY <1>2, <1>b, <3>2 DEF Working
      <3>4. RunOK(next, us)
        BY <1>5, <3>2 DEF RunOK, Clean
      <3> HIDE DEF next
      <3>5. QED
        BY <1>7, <3>1, <3>3, <3>4
    <2>3. CASE id - r.last # RowsPerBatch
      <3> DEFINE next == [step |-> "done", dry |-> r.dry, errors |-> err]
      <3>1. AfterRow(m, failed) = [run EXCEPT ![m] = next]
        BY <1>9, <2>3, AfterRowIs
      <3>2. next \in Finished
        BY <1>2, <1>b DEF Finished
      <3>3. end < r.last + RowsPerBatch
        BY <1>2, <1>4, <2>1, <2>3
      <3>4. ASSUME ~r.dry, ~err
            PROVE  UpTo(us, Len(us))
        <4>1. \A i \in 1..Len(us) : i \in 1..id \/ i \in end + 1 .. Len(us)
          BY <1>2, <2>1
        <4>2. QED
          BY <1>5, <1>6, <3>3, <3>4, <4>1 DEF UpTo
      <3>5. RunOK(next, us)
        BY <3>4 DEF RunOK, Clean
      <3> HIDE DEF next
      <3>6. QED
        BY <1>7, <3>1, <3>2, <3>5
    <2>4. QED
      BY <2>2, <2>3
  <1>10. QED
    BY <1>8, <1>9

\* A batch starts with all rows before it dealt with; an empty one ends the run.
LEMMA FetchKeeps ==
    ASSUME run \in [Runs -> {Off} \cup Working \cup Finished], NEW m \in Runs, FetchBatch(m),
           users \in Seq(Rows), RunOK(run[m], users)
    PROVE  /\ run' \in [Runs -> {Off} \cup Working \cup Finished]
           /\ RunOK(run'[m], users)
           /\ \A n \in Runs : n # m => run'[n] = run[n]
  <1>1. PICK r : r = run[m]
    OBVIOUS
  <1>2. r \in Working /\ r.step = "fetch"
    BY <1>1 DEF FetchBatch, Working, Finished, Off
  <1>3. PICK last, size : last = r.last /\ size = Len(users)
    OBVIOUS
  <1>4. last \in Nat /\ size \in Nat /\ last <= size /\ RowsPerBatch \in Nat \ {0}
    BY <1>1, <1>2, <1>3, AccountConstants DEF RunOK, Working
  <1>5. PICK n \in Nat : n = IF size - last < RowsPerBatch THEN size - last ELSE RowsPerBatch
    <2>1. (IF size - last < RowsPerBatch THEN size - last ELSE RowsPerBatch) \in Nat
      BY <1>4
    <2>2. QED
      BY <2>1
  <1>6. PICK batch : batch = [i \in 1..n |-> [id |-> last + i, row |-> users[last + i]]]
    OBVIOUS
  <1>7. BatchAfter(last) = batch
    BY <1>3, <1>5, <1>6 DEF BatchAfter
  <1>8. \A i \in 1..n : last + i \in 1..size
    BY <1>4, <1>5
  <1>9. batch \in Seq(Entries) /\ Len(batch) = n
    <2>1. \A i \in 1..n : [id |-> last + i, row |-> users[last + i]] \in Entries
      BY <1>3, <1>4, <1>8 DEF Entries
    <2>2. QED
      BY <1>6, <2>1
  <1>10. batch = <<>> <=> n = 0
    <2>1. \A s \in Seq(Entries) : s = <<>> <=> Len(s) = 0
      OBVIOUS
    <2>2. QED
      BY <1>9, <2>1
  <1>11. ASSUME NEW next \in {Off} \cup Working \cup Finished, run' = [run EXCEPT ![m] = next],
                RunOK(next, users)
         PROVE  /\ run' \in [Runs -> {Off} \cup Working \cup Finished]
                /\ RunOK(run'[m], users)
                /\ \A k \in Runs : k # m => run'[k] = run[k]
    <2>1. run'[m] = next
      BY <1>11
    <2>2. QED
      BY <1>11, <2>1
  <1>12. Clean(r) => UpTo(users, last)
    BY <1>1, <1>2, <1>3 DEF RunOK
  <1>13. CASE n = 0
    <2> DEFINE next == [step |-> "done", dry |-> r.dry, errors |-> r.errors]
    <2>1. run' = [run EXCEPT ![m] = next]
      BY <1>1, <1>3, <1>7, <1>10, <1>13 DEF FetchBatch, Done
    <2>2. next \in Finished
      BY <1>2 DEF Working, Finished
    <2>3. last = size
      BY <1>4, <1>5, <1>13
    <2>4. RunOK(next, users)
      BY <1>3, <1>12, <2>3 DEF RunOK, Clean
    <2> HIDE DEF next
    <2>5. QED
      BY <1>11, <2>1, <2>2, <2>4
  <1>14. CASE n # 0
    <2> DEFINE r1 == [r EXCEPT !.step = "rows"]
               r2 == [r1 EXCEPT !.batch = batch]
    <2>1. run' = [run EXCEPT ![m].step = "rows", ![m].batch = batch]
      BY <1>1, <1>3, <1>7, <1>10, <1>14 DEF FetchBatch
    <2>2. run' = [run EXCEPT ![m] = r2]
      BY <1>1, <2>1
    <2>3. r1 \in Working /\ r1.step = "rows" /\ r1.dry = r.dry /\ r1.errors = r.errors /\ r1.last = r.last
      BY <1>2 DEF Working
    <2> HIDE DEF r1
    <2>4. /\ r2 \in Working /\ r2.step = "rows" /\ r2.dry = r.dry /\ r2.errors = r.errors
          /\ r2.last = last /\ r2.batch = batch
      BY <1>3, <1>9, <2>3 DEF Working
    <2> HIDE DEF r2
    <2>5. PICK end : end = last + n
      OBVIOUS
    <2>6. /\ end \in 1..size /\ end <= last + RowsPerBatch /\ end - n = last /\ last + n <= end
          /\ end < last + RowsPerBatch => end = size
      BY <1>4, <1>5, <1>14, <2>5
    <2>7. \A j \in 1..n : batch[j].id = last + j /\ batch[j].row = users[last + j]
      BY <1>6
    <2>8. \A j \in 1..n : batch[j].id = last + j /\ Follows(batch[j].row, users[batch[j].id])
      BY <2>7, FollowsOn
    <2>9. Clean(r2) => UpTo(users, last)
      BY <1>12, <2>4 DEF Clean
    <2>10. end < last + RowsPerBatch => \A i \in end + 1 .. size : UpToDate(users[i])
      BY <1>4, <2>6
    <2>11. AtBatch(r2, users, end)
      BY <1>3, <1>9, <2>4, <2>6, <2>8, <2>9, <2>10 DEF AtBatch
    <2>12. n > 0
      BY <1>14
    <2>13. RunOK(r2, users)
      BY <1>3, <1>9, <2>4, <2>6, <2>11, <2>12 DEF RunOK
    <2>14. QED
      BY <1>11, <2>2, <2>4, <2>13
  <1>15. QED
    BY <1>13, <1>14

-----------------------------------------------------------------------------
(***************************************************************************)
(* The table and the runs together.                                        *)
(***************************************************************************)

UniqueHashes == \A i, j \in DOMAIN users : users[i].hash = users[j].hash => i = j

\* Table us has a row under the present hash of phone p.
Has(us, p) == \E i \in DOMAIN us : us[i].hash = HashPhone(p)

\* A request that is about to register a phone that has no row under its present
\* hash: if the phone has another row, it is an early one.
CreateInv ==
    \A h \in Handlers : pc[h] = "create" /\ ~Found(req[h].phone) =>
        \A i \in DOMAIN users : users[i].phone = req[h].phone => req[h].phone \in early

TableInv ==
    /\ users \in Seq(Rows)
    /\ UniqueHashes
    /\ CreateInv
    /\ OneAccountPerPhone

RunInv ==
    /\ run \in [Runs -> {Off} \cup Working \cup Finished]
    /\ \A m \in Runs : RunOK(run[m], users)

\* Row i is brought up to date.
Migrated(i) ==
    [users EXCEPT ![i] = [phone |-> users[i].phone, enc |-> Target, hash |-> HashPhone(users[i].phone)]]

\* One row of a run: it is brought up to date, or nothing is written; and the
\* run counts an error unless the row is up to date then.
LEMMA MigrateRowEffect ==
    ASSUME TableInv, RunInv, NEW m \in Runs, MigrateRow(m)
    PROVE  /\ \/ users' = users
              \/ \E i \in DOMAIN users :
                    /\ users' = Migrated(i)
                    /\ \A j \in DOMAIN users : j # i => users[j].hash # HashPhone(users[i].phone)
           /\ \E failed \in BOOLEAN :
                 /\ run' = AfterRow(m, failed)
                 /\ Clean(run[m]) /\ ~failed => UpToDate(users'[Head(run[m].batch).id])
  <1>1. PICK r : r = run[m]
    OBVIOUS
  <1>2. users \in Seq(Rows) /\ RunOK(r, users) /\ r.step = "rows" /\ r \in Working
    <2>1. users \in Seq(Rows)
      BY DEF TableInv
    <2>2. RunOK(r, users) /\ r \in {Off} \cup Working \cup Finished
      BY <1>1 DEF RunInv
    <2>3. r.step = "rows"
      BY <1>1 DEF MigrateRow
    <2>4. r \notin Finished /\ r # Off
      BY <2>3 DEF Finished, Off
    <2>5. QED
      BY <2>1, <2>2, <2>3, <2>4
  <1>3. PICK u : u = Head(r.batch)
    OBVIOUS
  <1>4. u.row \in Rows /\ u.id \in DOMAIN users /\ Follows(u.row, users[u.id])
    BY <1>2, <1>3, HeadOfBatch
  <1>5. PICK row : row = u.row
    OBVIOUS
  <1>6. PICK i : i = u.id
    OBVIOUS
  <1>7. PICK cur : cur = users[i]
    OBVIOUS
  <1>8. /\ row \in Rows /\ i \in DOMAIN users /\ cur \in Rows /\ cur.phone = row.phone
        /\ row.enc = Target => cur.enc = Target
        /\ row.hash = HashPhone(cur.phone) => cur.hash = HashPhone(cur.phone)
    BY <1>2, <1>4, <1>5, <1>6, <1>7 DEF Follows
  <1>9. PICK new : new = Updated(row)
    OBVIOUS
  <1>10. /\ new.enc = Target /\ new.hash = HashPhone(cur.phone)
         /\ new = row <=> UpToDate(row)
    BY <1>8, <1>9, UpdatedRow
  <1>11. PICK change \in BOOLEAN : change = (new # row /\ ~r.dry)
    <2>1. (new # row /\ ~r.dry) \in BOOLEAN
      OBVIOUS
    <2>2. QED
      BY <2>1
  <1>12. PICK clash \in BOOLEAN : clash = (change /\ new.hash # row.hash /\ Collides(i, new.hash))
    <2>1. (change /\ new.hash # row.hash /\ Collides(i, new.hash)) \in BOOLEAN
      OBVIOUS
    <2>2. QED
      BY <2>1
  <1>13. /\ IF change /\ ~clash
              THEN users' = [users EXCEPT ![i] =
                        [phone |-> cur.phone,
                         enc |-> IF new.enc # row.enc THEN new.enc ELSE cur.enc,
                         hash |-> IF new.hash # row.hash THEN new.hash ELSE cur.hash]]
              ELSE users' = users
         /\ run' = AfterRow(m, clash)
    BY <1>1, <1>3, <1>5, <1>6, <1>7, <1>9, <1>11, <1>12 DEF MigrateRow
  <1>14. /\ (IF new.enc # row.enc THEN new.enc ELSE cur.enc) = Target
         /\ (IF new.hash # row.hash THEN new.hash ELSE cur.hash) = HashPhone(cur.phone)
    BY <1>8, <1>10
  <1>15. change /\ ~clash => users' = Migrated(i)
    BY <1>7, <1>13, <1>14 DEF Migrated
  <1>16. ASSUME change, ~clash, NEW j \in DOMAIN users, j # i
         PROVE  users[j].hash # HashPhone(users[i].phone)
    <2>1. CASE new.hash # row.hash
      BY <1>7, <1>10, <1>12, <1>16, <2>1 DEF Collides
    <2>2. CASE new.hash = row.hash
      BY <1>7, <1>8, <1>10, <1>16, <2>2 DEF TableInv, UniqueHashes
    <2>3. QED
      BY <2>1, <2>2
  <1>17. ASSUME Clean(r), ~clash
         PROVE  UpToDate(users'[i])
    <2>1. CASE change
      <3>1. users'[i] = [phone |-> cur.phone, enc |-> Target, hash |-> HashPhone(cur.phone)]
        BY <1>2, <1>7, <1>8, <1>15, <1>17, <2>1 DEF Migrated
      <3>2. QED
        BY <3>1 DEF UpToDate
    <2>2. CASE ~change
      <3>1. UpToDate(row) /\ users' = users
        BY <1>10, <1>11, <1>13, <1>17, <2>2 DEF Clean
      <3>2. QED
        BY <1>7, <1>8, <3>1 DEF UpToDate
    <2>3. QED
      BY <2>1, <2>2
  <1>18. \E failed \in BOOLEAN :
                 /\ run' = AfterRow(m, failed)
                 /\ Clean(run[m]) /\ ~failed => UpToDate(users'[Head(run[m].batch).id])
    BY <1>1, <1>3, <1>6, <1>13, <1>17
  <1>19. CASE change /\ ~clash
    BY <1>8, <1>15, <1>16, <1>18, <1>19
  <1>20. CASE ~(change /\ ~clash)
    BY <1>13, <1>18, <1>20
  <1>21. QED
    BY <1>19, <1>20

\* Bringing a row up to date keeps the table, and the table evolves.
LEMMA MigratedKeeps ==
    ASSUME TableInv, NEW i \in DOMAIN users, users' = Migrated(i),
           \A j \in DOMAIN users : j # i => users[j].hash # HashPhone(users[i].phone),
           UNCHANGED <<pc, req, early>>
    PROVE  TableInv' /\ Evolves(users, users')
  <1> DEFINE new == [phone |-> users[i].phone, enc |-> Target, hash |-> HashPhone(users[i].phone)]
  <1>1. users \in Seq(Rows) /\ users[i] \in Rows /\ DOMAIN users = 1..Len(users) /\ Len(users) \in Nat
    BY DEF TableInv
  <1>2. new \in Rows /\ new.phone = users[i].phone /\ new.hash = HashPhone(users[i].phone) /\ UpToDate(new)
    BY <1>1, RowFields, RowMade DEF UpToDate
  <1>3. users' = [users EXCEPT ![i] = new]
    BY DEF Migrated
  <1> HIDE DEF new
  <1>4. /\ users' \in Seq(Rows) /\ DOMAIN users' = DOMAIN users /\ Len(users') = Len(users)
        /\ users'[i] = new /\ \A j \in DOMAIN users : j # i => users'[j] = users[j]
    BY <1>1, <1>2, <1>3
  <1>5. \A j \in DOMAIN users : users'[j].phone = users[j].phone
    BY <1>2, <1>4
  <1>6. UniqueHashes'
    <2> SUFFICES ASSUME NEW j \in DOMAIN users, NEW k \in DOMAIN users, users'[j].hash = users'[k].hash
                 PROVE  j = k
      BY <1>4 DEF UniqueHashes
    <2>1. QED
      BY <1>2, <1>4 DEF TableInv, UniqueHashes
  <1>7. OneAccountPerPhone'
    BY <1>4, <1>5 DEF TableInv, OneAccountPerPhone
  <1>8. \A p : Found(p) => Found(p)'
    <2> SUFFICES ASSUME NEW p, NEW j \in DOMAIN users, users[j].hash = HashPhone(p)
                 PROVE  \E k \in DOMAIN users' : users'[k].hash = HashPhone(p)
      BY DEF Found
    <2>1. CASE j # i
      BY <1>4, <2>1
    <2>2. CASE j = i
      <3>1. users[i].phone = p
        BY <1>1, <2>2, RowFields, HashOf
      <3>2. QED
        BY <1>2, <1>4, <3>1
    <2>3. QED
      BY <2>1, <2>2
  <1>9. CreateInv'
    BY <1>4, <1>5, <1>8 DEF TableInv, CreateInv
  <1>10. \A j \in DOMAIN users : Follows(users[j], users'[j])
    BY <1>2, <1>4, FollowsOn
  <1>11. Evolves(users, users')
    BY <1>1, <1>4, <1>10 DEF Evolves
  <1>12. QED
    BY <1>4, <1>6, <1>7, <1>9, <1>11 DEF TableInv

\* Steps that leave the table alone, and the requests about to register.
LEMMA TableQuiet ==
    ASSUME TableInv, UNCHANGED <<users, early>>,
           \A h \in Handlers : pc'[h] = "create" => pc[h] = "create" /\ req'[h] = req[h]
    PROVE  TableInv' /\ Evolves(users, users')
  <1>1. users \in Seq(Rows) /\ \A p : Found(p)' = Found(p)
    BY DEF TableInv, Found
  <1>2. CreateInv'
    BY <1>1 DEF TableInv, CreateInv
  <1>3. Evolves(users, users')
    BY <1>1, FollowsOn DEF Evolves
  <1>4. QED
    BY <1>2, <1>3 DEF TableInv, UniqueHashes, OneAccountPerPhone

\* A registration: the row is new, up to date, and the only one of its phone but
\* for an early one.
LEMMA CreateKeeps ==
    ASSUME TableInv, ReqInv, NEW h \in Handlers, CreateUser(h)
    PROVE  TableInv' /\ Evolves(users, users')
  <1> DEFINE p == req[h].phone
  <1>1. /\ p \in Phones /\ Key # None /\ Moves(h, "idle", NoRequest) /\ pc[h] = "create" /\ early' = early
    BY DEF CreateUser, Return, Moves, ReqInv, Fits, historyVars
  <1>2. /\ pc'[h] = "idle"
        /\ \A g \in Handlers : g # h => pc'[g] = pc[g] /\ req'[g] = req[g]
    BY <1>1, MoveEffect
  <1>3. \A g \in Handlers : pc'[g] = "create" => pc[g] = "create" /\ req'[g] = req[g]
    BY <1>2
  <1>4. CASE Found(p)
    BY <1>1, <1>3, <1>4, TableQuiet DEF CreateUser
  <1>5. CASE ~Found(p)
    <2> DEFINE new == NewRow(p)
               n == Len(users)
    <2>1. users' = Append(users, new)
      BY <1>5 DEF CreateUser
    <2>2. new \in Rows /\ UpToDate(new) /\ new.phone = p /\ new.hash = HashPhone(p)
      <3>1. Encrypt(<<>>, Key) = Target
        <4>1. <<Key>> \o <<>> = <<Key>>
          OBVIOUS
        <4>2. QED
          BY <1>1, <4>1 DEF Encrypt, Target
      <3>2. new = [phone |-> p, enc |-> Target, hash |-> HashPhone(p)]
        BY <3>1 DEF NewRow
      <3>3. [phone |-> p, enc |-> Target, hash |-> HashPhone(p)] \in Rows
        BY <1>1, RowMade
      <3>4. QED
        BY <3>2, <3>3 DEF UpToDate
    <2> HIDE DEF new
    <2>3. users \in Seq(Rows) /\ n \in Nat /\ DOMAIN users = 1..n
      BY DEF TableInv
    <2>4. /\ users' \in Seq(Rows) /\ Len(users') = n + 1 /\ DOMAIN users' = 1..(n + 1)
          /\ users'[n + 1] = new /\ \A j \in 1..n : users'[j] = users[j]
      BY <2>1, <2>2, <2>3
    <2>5. \A j \in 1..(n + 1) : j \in 1..n \/ j = n + 1
      BY <2>3
    <2>6. \A j \in 1..n : users[j].hash # HashPhone(p)
      BY <1>5, <2>3 DEF Found
    <2>7. UniqueHashes'
      BY <2>2, <2>3, <2>4, <2>5, <2>6 DEF TableInv, UniqueHashes
    <2>8. \A j \in 1..n : users[j].phone = p => p \in early
      BY <1>1, <1>5, <2>3 DEF TableInv, CreateInv
    <2>9. OneAccountPerPhone'
      <3> SUFFICES ASSUME NEW i \in 1..(n + 1), NEW j \in 1..(n + 1), users'[i].phone = users'[j].phone,
                          users'[i].phone \notin early
                   PROVE  i = j
        BY <1>1, <2>4 DEF OneAccountPerPhone
      <3>1. CASE i \in 1..n /\ j \in 1..n
        BY <2>3, <2>4, <3>1 DEF TableInv, OneAccountPerPhone
      <3>2. CASE i = n + 1 /\ j \in 1..n
        BY <2>2, <2>4, <2>8, <3>2
      <3>3. CASE j = n + 1 /\ i \in 1..n
        BY <2>2, <2>4, <2>8, <3>3
      <3>4. QED
        BY <2>5, <3>1, <3>2, <3>3
    <2>10. Has(users', p) /\ \A q : Found(q) => Has(users', q)
      <3>1. n + 1 \in 1..(n + 1) /\ \A j \in 1..n : j \in 1..(n + 1)
        BY <2>3
      <3>2. QED
        BY <2>2, <2>3, <2>4, <3>1 DEF Found, Has
    <2>11. CreateInv'
      <3> SUFFICES ASSUME NEW g \in Handlers, pc'[g] = "create", ~Has(users', req'[g].phone),
                          NEW i \in 1..(n + 1), users'[i].phone = req'[g].phone
                   PROVE  req'[g].phone \in early'
        BY <2>4 DEF CreateInv, Found, Has
      <3>1. pc[g] = "create" /\ req'[g] = req[g]
        BY <1>3
      <3>2. req[g].phone # p /\ ~Found(req[g].phone)
        BY <2>10, <3>1
      <3>3. i \in 1..n /\ users[i].phone = req[g].phone
        BY <2>2, <2>4, <2>5, <3>1, <3>2
      <3>4. QED
        BY <1>1, <2>3, <3>1, <3>2, <3>3 DEF TableInv, CreateInv
    <2>12. Evolves(users, users')
      <3>1. \A i \in Len(users) + 1 .. Len(users') : i = n + 1
        BY <2>3, <2>4
      <3>2. QED
        BY <2>2, <2>3, <2>4, <3>1, FollowsOn DEF Evolves
    <2>13. QED
      BY <2>4, <2>7, <2>9, <2>11, <2>12 DEF TableInv
  <1>6. QED
    BY <1>4, <1>5

\* A lookup: a phone whose row is not found under its present hash, but is there
\* under the old one, is an early one.
LEMMA FindKeeps ==
    ASSUME TableInv, ReqInv, NEW h \in Handlers, FindUser(h)
    PROVE  TableInv' /\ Evolves(users, users')
  <1> DEFINE p == req[h].phone
  <1>1. /\ pc[h] = "find" /\ users' = users /\ users \in Seq(Rows)
        /\ early' = IF ~Found(p) /\ (\E i \in DOMAIN users : users[i].hash = LegacyRow(p).hash)
                      THEN early \cup {p} ELSE early
    BY DEF FindUser, TableInv
  <1>2. \E step : Moves(h, step, req[h]) \/ Moves(h, "idle", NoRequest)
    BY DEF FindUser, Goto, Return, Moves, ReqInv
  <1>3. /\ \A g \in Handlers : g # h => pc'[g] = pc[g] /\ req'[g] = req[g]
        /\ pc'[h] = "create" => req'[h] = req[h]
    BY <1>2, MoveEffect
  <1>4. \A q : Found(q) => Has(users', q)
    BY <1>1 DEF Found, Has
  <1>5. \A q : q \in early => q \in early'
    BY <1>1
  <1>6. ASSUME ~Found(p), NEW i \in DOMAIN users, users[i].phone = p
        PROVE  p \in early'
    <2>1. users[i].hash = OldHash(p)
      BY <1>1, <1>6, RowFields DEF Found
    <2>2. LegacyRow(p).hash = OldHash(p)
      BY DEF LegacyRow, OldHash
    <2>3. QED
      BY <1>1, <1>6, <2>1, <2>2
  <1>7. CreateInv'
    <2> SUFFICES ASSUME NEW g \in Handlers, pc'[g] = "create", ~Has(users', req'[g].phone),
                        NEW i \in DOMAIN users, users[i].phone = req'[g].phone
                 PROVE  req'[g].phone \in early'
      BY <1>1 DEF CreateInv, Found, Has
    <2>1. CASE g = h
      BY <1>3, <1>4, <1>6, <2>1
    <2>2. CASE g # h
      BY <1>3, <1>4, <1>5, <2>2 DEF TableInv, CreateInv
    <2>3. QED
      BY <2>1, <2>2
  <1>8. UniqueHashes' /\ OneAccountPerPhone'
    BY <1>1, <1>5 DEF TableInv, UniqueHashes, OneAccountPerPhone
  <1>9. Evolves(users, users')
    BY <1>1, FollowsOn DEF Evolves
  <1>10. QED
    BY <1>1, <1>7, <1>8, <1>9 DEF TableInv

\* A request elsewhere does not register.
LEMMA OthersQuiet ==
    ASSUME TableInv, ReqInv, NEW h \in Handlers, RequestStep(h), ~CreateUser(h), ~FindUser(h)
    PROVE  TableInv' /\ Evolves(users, users')
  <1>1. UNCHANGED <<users, early>>
    BY DEF RequestStep, ConsumeWindow, Incr, IncrReplyLost, Expire, ExpireFails, SaveSMSCode, SendSMS,
           SendSMSFails, DeleteUnsentCode, VerifyCode, DeleteSMSCode, DeleteSMSCodeFails, RequestFails,
           historyVars
  <1>2. pc[h] # "find" \/ Moves(h, "idle", NoRequest)
    BY DEF RequestStep, ConsumeWindow, Incr, IncrReplyLost, Expire, ExpireFails, SaveSMSCode, SendSMS,
           SendSMSFails, DeleteUnsentCode, VerifyCode, DeleteSMSCode, DeleteSMSCodeFails, RequestFails,
           Return, Moves
  <1>3. ASSUME NEW step, NEW r, Moves(h, step, r), step # "create"
        PROVE  \A g \in Handlers : pc'[g] = "create" => pc[g] = "create" /\ req'[g] = req[g]
    BY <1>3, MoveEffect
  <1>4. \A g \in Handlers : pc'[g] = "create" => pc[g] = "create" /\ req'[g] = req[g]
    <2>1. CASE Moves(h, "idle", NoRequest)
      BY <1>3, <2>1
    <2>2. ASSUME NEW step \in Steps, Moves(h, step, req[h]), <<pc[h], step>> \in Flow, pc[h] # "find"
          PROVE  \A g \in Handlers : pc'[g] = "create" => pc[g] = "create" /\ req'[g] = req[g]
      <3>1. step # "create"
        BY <2>2 DEF Flow
      <3>2. QED
        BY <1>3, <2>2, <3>1
    <2>3. CASE Moves(h, "send", [req[h] EXCEPT !.code = codes + 1])
      BY <1>3, <2>3
    <2>4. QED
      BY <1>2, <2>1, <2>2, <2>3, StepMoves
  <1>5. QED
    BY <1>1, <1>4, TableQuiet

\* Every step keeps the table and the runs.
LEMMA MigrationStepKeeps ==
    ReqInv /\ TableInv /\ RunInv /\ [Next]_vars => TableInv' /\ RunInv'
  <1> SUFFICES ASSUME ReqInv, TableInv, RunInv, [Next]_vars PROVE TableInv' /\ RunInv'
    OBVIOUS
  <1>0. users \in Seq(Rows) /\ run \in [Runs -> {Off} \cup Working \cup Finished]
    BY DEF TableInv, RunInv
  <1>1. ASSUME TableInv', Evolves(users, users'), UNCHANGED run
        PROVE  RunInv'
    BY <1>0, <1>1, RunEvolves DEF TableInv, RunInv
  <1>2. ASSUME TableInv', Evolves(users, users'), NEW m \in Runs,
               run' \in [Runs -> {Off} \cup Working \cup Finished],
               \A n \in Runs : n # m => run'[n] = run[n],
               RunOK(run'[m], users')
        PROVE  RunInv'
    <2>1. \A n \in Runs : RunOK(run[n], users) /\ run[n] \in {Off} \cup Working \cup Finished
      BY <1>0 DEF RunInv
    <2>2. users' \in Seq(Rows)
      BY <1>2 DEF TableInv
    <2>3. \A n \in Runs : RunOK(run[n], users')
      BY <1>0, <1>2, <2>1, <2>2, RunEvolves
    <2>4. QED
      BY <1>2, <2>3 DEF RunInv
  <1>3. CASE AccountNext /\ UNCHANGED migrationVars
    <2>1. ASSUME NEW h \in Handlers, RequestStep(h)
          PROVE  TableInv' /\ Evolves(users, users')
      BY <2>1, CreateKeeps, FindKeeps, OthersQuiet
    <2>2. ASSUME NEW h \in Handlers, NEW p \in Active,
                 \/ \E i \in Ips : BeginSendCode(h, p, i)
                 \/ \E c \in 1..codes : BeginLogin(h, p, c)
          PROVE  TableInv' /\ Evolves(users, users')
      <3>1. UNCHANGED <<users, early>>
        BY <2>2, BeginMoves DEF historyVars
      <3>2. ASSUME NEW step, NEW r, Moves(h, step, r), step # "create"
            PROVE  \A g \in Handlers : pc'[g] = "create" => pc[g] = "create" /\ req'[g] = req[g]
        BY <3>2, MoveEffect
      <3>3. ASSUME NEW i \in Ips, Moves(h, "window", [phone |-> p, ip |-> i, code |-> NoCode])
            PROVE  \A g \in Handlers : pc'[g] = "create" => pc[g] = "create" /\ req'[g] = req[g]
        BY <3>2, <3>3
      <3>4. ASSUME NEW c \in 1..codes, Moves(h, "verify", [phone |-> p, ip |-> None, code |-> c])
            PROVE  \A g \in Handlers : pc'[g] = "create" => pc[g] = "create" /\ req'[g] = req[g]
        BY <3>2, <3>4
      <3>5. \A g \in Handlers : pc'[g] = "create" => pc[g] = "create" /\ req'[g] = req[g]
        BY <2>2, <3>3, <3>4, BeginMoves
      <3>6. QED
        BY <3>1, <3>5, TableQuiet
    <2>3. ASSUME (\E p \in Active : WindowExpires(p) \/ CodeExpires(p)) \/ (\E k \in Counters : CounterExpires(k))
          PROVE  TableInv' /\ Evolves(users, users')
      <3>1. UNCHANGED <<users, early>> /\ UNCHANGED <<pc, req>>
        BY <2>3 DEF WindowExpires, CodeExpires, CounterExpires, historyVars, reqVars
      <3>2. \A g \in Handlers : pc'[g] = "create" => pc[g] = "create" /\ req'[g] = req[g]
        BY <3>1
      <3>3. QED
        BY <3>1, <3>2, TableQuiet
    <2>4. TableInv' /\ Evolves(users, users')
      <3>1. CASE \E h \in Handlers : RequestStep(h)
        BY <2>1, <3>1
      <3>2. CASE \E h \in Handlers, p \in Active :
                   \/ \E i \in Ips : BeginSendCode(h, p, i)
                   \/ \E c \in 1..codes : BeginLogin(h, p, c)
        BY <2>2, <3>2
      <3>3. \/ \E h \in Handlers : RequestStep(h)
            \/ \E h \in Handlers, p \in Active :
                   \/ \E i \in Ips : BeginSendCode(h, p, i)
                   \/ \E c \in 1..codes : BeginLogin(h, p, c)
            \/ \E p \in Active : WindowExpires(p) \/ CodeExpires(p)
            \/ \E k \in Counters : CounterExpires(k)
        BY <1>3 DEF AccountNext
      <3>4. QED
        BY <2>3, <3>1, <3>2, <3>3, Zenon
    <2>5. QED
      BY <1>1, <1>3, <2>4 DEF migrationVars
  <1>4. ASSUME NEW m \in Runs, NEW next \in {Off} \cup Working \cup Finished,
               run' = [run EXCEPT ![m] = next], RunOK(next, users), UNCHANGED accountVars
        PROVE  TableInv' /\ RunInv'
    <2>1. TableInv' /\ Evolves(users, users') /\ users' = users
      BY <1>4, TableQuiet DEF accountVars, historyVars, reqVars
    <2>2. /\ run' \in [Runs -> {Off} \cup Working \cup Finished] /\ run'[m] = next
          /\ \A n \in Runs : n # m => run'[n] = run[n]
      BY <1>0, <1>4
    <2>3. QED
      BY <1>2, <1>4, <2>1, <2>2
  <1>5. ASSUME NEW m \in Runs, NEW dryRun \in BOOLEAN, Start(m, dryRun)
        PROVE  TableInv' /\ RunInv'
    <2> DEFINE next == [step |-> "fetch", dry |-> dryRun, last |-> 0, batch |-> <<>>, errors |-> FALSE]
    <2>1. run' = [run EXCEPT ![m] = next] /\ UNCHANGED accountVars
      BY <1>5 DEF Start
    <2>2. next \in Working
      BY DEF Working
    <2>3. RunOK(next, users)
      BY <1>0 DEF RunOK, UpTo
    <2> HIDE DEF next
    <2>4. QED
      BY <1>4, <2>1, <2>2, <2>3
  <1>6. ASSUME NEW m \in Runs, Crash(m)
        PROVE  TableInv' /\ RunInv'
    <2>1. run' = [run EXCEPT ![m] = Off] /\ UNCHANGED accountVars
      BY <1>6 DEF Crash
    <2>2. RunOK(Off, users)
      BY DEF RunOK, Off
    <2>3. QED
      BY <1>4, <2>1, <2>2
  <1>7. ASSUME NEW m \in Runs, FetchBatch(m)
        PROVE  TableInv' /\ RunInv'
    <2>1. TableInv' /\ Evolves(users, users') /\ users' = users
      BY <1>7, TableQuiet DEF FetchBatch, accountVars, historyVars, reqVars
    <2>2. RunOK(run[m], users)
      BY DEF RunInv
    <2>3. QED
      BY <1>0, <1>2, <1>7, <2>1, <2>2, FetchKeeps
  <1>8. ASSUME NEW m \in Runs, run[m].step = "rows", TableInv', Evolves(users, users'),
               NEW failed \in BOOLEAN, run' = AfterRow(m, failed),
               Clean(run[m]) /\ ~failed => UpToDate(users'[Head(run[m].batch).id])
        PROVE  RunInv'
    <2>1. users' \in Seq(Rows) /\ RunOK(run[m], users) /\ run[m] \in {Off} \cup Working \cup Finished
      BY <1>0, <1>8 DEF TableInv, RunInv
    <2>2. RunOK(run[m], users')
      BY <1>0, <1>8, <2>1, RunEvolves
    <2>3. /\ AfterRow(m, failed) \in [Runs -> {Off} \cup Working \cup Finished]
          /\ RunOK(AfterRow(m, failed)[m], users')
          /\ \A n \in Runs : n # m => AfterRow(m, failed)[n] = run[n]
      BY <1>0, <1>8, <2>1, <2>2, AfterRowKeeps
    <2>4. QED
      BY <1>2, <1>8, <2>3
  <1>9. ASSUME NEW m \in Runs, MigrateRow(m)
        PROVE  TableInv' /\ RunInv'
    <2>1. run[m].step = "rows" /\ UNCHANGED <<pc, req, early>>
      BY <1>9 DEF MigrateRow, reqVars, historyVars
    <2>2. TableInv' /\ Evolves(users, users')
      <3>1. CASE users' = users
        BY <2>1, <3>1, TableQuiet
      <3>2. CASE users' # users
        BY <1>9, <2>1, <3>2, MigrateRowEffect, MigratedKeeps
      <3>3. QED
        BY <3>1, <3>2
    <2>3. PICK failed \in BOOLEAN :
                 /\ run' = AfterRow(m, failed)
                 /\ Clean(run[m]) /\ ~failed => UpToDate(users'[Head(run[m].batch).id])
      BY <1>9, MigrateRowEffect
    <2>4. RunInv'
      <3>1. CASE failed = TRUE
        BY <1>8, <2>1, <2>2, <2>3, <3>1
      <3>2. CASE failed = FALSE
        BY <1>8, <2>1, <2>2, <2>3, <3>2
      <3>3. QED
        BY <3>1, <3>2
    <2>5. QED
      BY <2>2, <2>4
  <1>10. ASSUME NEW m \in Runs, MigrateRowFails(m)
         PROVE  TableInv' /\ RunInv'
    <2>1. run[m].step = "rows" /\ UNCHANGED <<users, pc, req, early>> /\ run' = AfterRow(m, TRUE)
      BY <1>10 DEF MigrateRowFails, reqVars, historyVars
    <2>2. TableInv' /\ Evolves(users, users')
      BY <2>1, TableQuiet
    <2>3. QED
      BY <1>8, <2>1, <2>2
  <1>11. CASE UNCHANGED vars
    <2>1. UNCHANGED <<users, pc, req, early, run>>
      BY <1>11 DEF vars, accountVars, historyVars, reqVars, migrationVars
    <2>2. QED
      BY <1>1, <2>1, TableQuiet
  <1>12. QED
    BY <1>3, <1>5, <1>6, <1>7, <1>9, <1>10, <1>11 DEF Next, MigrationStep

\* The table the server starts with: one row for each phone registered before.
LEMMA InitialTable == Init => TableInv /\ RunInv
  <1> SUFFICES ASSUME Init PROVE TableInv /\ RunInv
    OBVIOUS
  <1>0. PICK old \in SUBSET Legacy : \E ids \in [1..Cardinality(old) -> old] :
            /\ \A p \in old : \E i \in DOMAIN ids : ids[i] = p
            /\ users = [i \in DOMAIN ids |-> LegacyRow(ids[i])]
    BY DEF Init, AccountInit
  <1>1. PICK ids \in [1..Cardinality(old) -> old] :
            /\ \A p \in old : \E i \in DOMAIN ids : ids[i] = p
            /\ users = [i \in DOMAIN ids |-> LegacyRow(ids[i])]
    BY <1>0
  <1>2. IsFiniteSet(old) /\ Cardinality(old) \in Nat /\ old \subseteq Phones
    BY AccountConstants, FS_Subset, FS_CardinalityType
  <1>3. PICK n \in Nat : n = Cardinality(old)
    BY <1>2
  <1>4. ids \in [1..n -> old] /\ DOMAIN ids = 1..n /\ users = [i \in 1..n |-> LegacyRow(ids[i])]
    BY <1>1, <1>3
  <1>5. \A i, j \in 1..n : ids[i] = ids[j] => i = j
    <2>1. IsFiniteSet(1..n) /\ Cardinality(1..n) = n
      BY FS_Interval
    <2>2. ids \in Surjection(1..n, old)
      BY <1>1, <1>4 DEF Surjection
    <2>3. ids \in Injection(1..n, old)
      BY <1>3, <2>1, <2>2, FS_Surjection
    <2>4. QED
      BY <1>4, <2>3, Zenon DEF Injection, IsInjective
  <1>6. \A p \in Phones : /\ LegacyRow(p) \in Rows /\ LegacyRow(p).phone = p
                          /\ LegacyRow(p).hash = OldHash(p)
    <2>1. TAKE p \in Phones
    <2>2. LegacyRow(p) = [phone |-> p, enc |-> <<>>, hash |-> OldHash(p)]
      BY DEF LegacyRow, OldHash
    <2>3. <<>> \in {<<>>, Target} /\ OldHash(p) \in {OldHash(p), HashPhone(p)}
      OBVIOUS
    <2>4. [phone |-> p, enc |-> <<>>, hash |-> OldHash(p)] \in Rows
      BY <2>3, RowMade
    <2>5. QED
      BY <2>2, <2>4
  <1>7. /\ users \in Seq(Rows) /\ DOMAIN users = 1..n
        /\ \A i \in 1..n : users[i].phone = ids[i] /\ users[i].hash = OldHash(ids[i])
    BY <1>2, <1>4, <1>6
  <1>8. UniqueHashes /\ OneAccountPerPhone
    <2>1. \A i, j \in 1..n : users[i].hash = users[j].hash => i = j
      BY <1>5, <1>7, HashOf
    <2>2. \A i, j \in 1..n : users[i].phone = users[j].phone => i = j
      BY <1>5, <1>7
    <2>3. QED
      BY <1>7, <2>1, <2>2 DEF UniqueHashes, OneAccountPerPhone
  <1>9. CreateInv
    BY DEF Init, AccountInit, CreateInv
  <1>10. RunInv
    BY DEF Init, RunInv, RunOK, Off
  <1>11. QED
    BY <1>7, <1>8, <1>9, <1>10 DEF TableInv

\* The table and the runs are always as described.
LEMMA MigrationInvariance == Spec => [](TableInv /\ RunInv)
  BY InitialTable, MigrationStepKeeps, ReqInvariance, PTL DEF Spec

\* Whatever runs crash, repeat or overlap, and whatever requests write meanwhile,
\* no phone is encrypted twice and no hash is one of ciphertext: the command is
\* idempotent (cmd/migrate-phone/main.go:6).
THEOREM PhonesStayReadable == Spec => []PhoneReadable
  <1>1. TableInv => PhoneReadable
    <2> SUFFICES ASSUME TableInv, NEW i \in DOMAIN users
                 PROVE  users[i].enc \in {<<>>, <<Key>>} /\ users[i].hash.layers = <<>>
      BY DEF PhoneReadable
    <2>1. users[i] \in Rows
      BY DEF TableInv
    <2>2. QED
      BY <2>1, RowFields, HashOf DEF Target
  <1>2. QED
    BY <1>1, MigrationInvariance, PTL

\* A real run that ends without errors has brought every row up to date, those
\* written meanwhile included (cmd/migrate-phone/main.go:87-160).
THEOREM CompletedMigration == Spec => []MigrationComplete
  <1>1. TableInv /\ RunInv => MigrationComplete
    <2> SUFFICES ASSUME TableInv, RunInv, NEW m \in Runs, run[m].step = "done", ~run[m].dry,
                        ~run[m].errors, NEW i \in DOMAIN users
                 PROVE  Updated(users[i]) = users[i]
      BY DEF MigrationComplete
    <2>1. users[i] \in Rows /\ i \in 1..Len(users)
      BY DEF TableInv
    <2>2. UpToDate(users[i])
      BY <2>1 DEF RunInv, RunOK, Clean, UpTo
    <2>3. QED
      BY <2>1, <2>2, UpdatedRow
  <1>2. QED
    BY <1>1, MigrationInvariance, PTL

\* A phone has one account, unless its user logged in before his row was hashed
\* with the pepper (user_service.go:177).
THEOREM OneAccount == Spec => []OneAccountPerPhone
  <1>1. TableInv => OneAccountPerPhone
    BY DEF TableInv
  <1>2. QED
    BY <1>1, MigrationInvariance, PTL

=============================================================================
