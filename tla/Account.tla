------------------------------- MODULE Account -------------------------------
(***************************************************************************)
(* SendCode and Login of internal/service/user_service.go over the Redis   *)
(* keys of internal/cache/user_cache.go (code, window, daily counters) and *)
(* the users table (internal/repository/user_repository.go), whose phone   *)
(* columns are written with pkg/crypto/phone.go.                           *)
(*                                                                         *)
(* A request takes one step per round trip.  Keys expire at any time: the  *)
(* order of the TTLs is not used.  A code is a number; codes are distinct. *)
(***************************************************************************)
EXTENDS Integers, Sequences, FiniteSets

CONSTANTS
    Phones,
    Active,         \* the phones requests are about
    Ips,            \* client addresses
    Handlers,       \* request handlers
    PhoneLimit,     \* SMSPerPhonePerDay
    IpLimit,        \* SMSPerIPPerDay
    Key, Pepper,    \* cfg.Encryption, or None where it is empty
    Legacy,         \* phones whose user may have registered before encryption came
    Split,          \* TRUE: FindByPhoneHash reads a replica
    None,
    MaxRequests,    \* bound on the number of requests
    MaxFaults       \* bound on failing commands and statements

ASSUME AccountAssumption ==
    /\ Active \subseteq Phones
    /\ Phones \cap Ips = {}     \* sms:limit and sms:ip are different keys
    /\ Legacy \subseteq Phones
    /\ IsFiniteSet(Legacy)
    /\ PhoneLimit \in Nat
    /\ IpLimit \in Nat
    /\ Split \in BOOLEAN
    /\ MaxRequests \in Nat
    /\ MaxFaults \in Nat

VARIABLES
    window,     \* phones with a sms:window key
    daily,      \* daily[k]: value of the counter sms:limit or sms:ip, 0 if absent
    ttl,        \* the counters with an expiry
    code,       \* code[p]: sms:code, or NoCode
    users,      \* the users table: row i has id i
    pc,         \* pc[h]: the next step of handler h
    req,        \* req[h]: its request
    codes,      \* number of codes generated
    started,    \* number of requests begun
    faults,     \* number of failures so far
    sms,        \* history: sms[k]: messages sent to phone or for address k
    lives,      \* history: lives[k]: counters k has had
    windows,    \* history: windows[p]: windows opened for p
    uses,       \* history: uses[c]: Logins that verified code c
    contested,  \* history: codes with two verifications before a DEL, or whose
                \* DEL failed
    stuck,      \* history: counters whose EXPIRE failed
    early       \* history: phones that logged in while their row still had the
                \* hash without the pepper

smsVars == <<window, daily, ttl, code, codes>>
reqVars == <<pc, req, started>>
historyVars == <<sms, lives, windows, uses, contested, stuck, early>>
accountVars == <<smsVars, users, reqVars, faults, historyVars>>

Counters == Phones \cup Ips
Codes == 1..MaxRequests
NoCode == 0

-----------------------------------------------------------------------------
(* pkg/crypto *)

\* A stored phone: the number under layers of encryption, outermost key first.
Encrypt(layers, key) == <<key>> \o layers

\* DecryptPhone fails on plaintext and on another key's ciphertext.
Decryptable(layers, key) == layers # <<>> /\ Head(layers) = key

\* SHA-256 of the decrypted text and the pepper: injective, so the pair itself.
Hash(phone, layers, pepper) == [phone |-> phone, layers |-> layers, pepper |-> pepper]

HashPhone(p) == Hash(p, <<>>, Pepper)

NewRow(p) == [phone |-> p, enc |-> Encrypt(<<>>, Key), hash |-> HashPhone(p)]

\* A row as Login wrote it before encryption and pepper were introduced.
LegacyRow(p) == [phone |-> p, enc |-> <<>>, hash |-> Hash(p, <<>>, None)]

Found(p) == \E i \in DOMAIN users : users[i].hash = HashPhone(p)

-----------------------------------------------------------------------------

Steps == {"idle", "window", "phoneIncr", "phoneExpire", "ipIncr", "ipExpire", "save",
          "send", "sendDel", "verify", "loginDel", "find", "create"}
NoRequest == [phone |-> None, ip |-> None, code |-> NoCode]

AccountInit ==
    /\ window = {}
    /\ daily = [k \in Counters |-> 0]
    /\ ttl = {}
    /\ code = [p \in Phones |-> NoCode]
    /\ \E old \in SUBSET Legacy : \E ids \in [1..Cardinality(old) -> old] :
          /\ \A p \in old : \E i \in DOMAIN ids : ids[i] = p
          /\ users = [i \in DOMAIN ids |-> LegacyRow(ids[i])]
    /\ pc = [h \in Handlers |-> "idle"]
    /\ req = [h \in Handlers |-> NoRequest]
    /\ codes = 0
    /\ started = 0
    /\ faults = 0
    /\ sms = [k \in Counters |-> 0]
    /\ lives = [k \in Counters |-> 0]
    /\ windows = [p \in Phones |-> 0]
    /\ uses = [c \in Codes |-> 0]
    /\ contested = {}
    /\ stuck = {}
    /\ early = {}

AccountTypeOK ==
    /\ window \subseteq Phones
    /\ daily \in [Counters -> Nat]
    /\ ttl \subseteq Counters
    /\ \A k \in ttl : daily[k] > 0
    /\ code \in [Phones -> Codes \cup {NoCode}]
    /\ \A i, j \in DOMAIN users : users[i].hash = users[j].hash => i = j
    /\ pc \in [Handlers -> Steps]
    /\ codes \in 0..MaxRequests
    /\ started \in 0..MaxRequests
    /\ faults \in 0..MaxFaults
    /\ contested \subseteq Codes
    /\ stuck \subseteq Counters
    /\ early \subseteq Phones

Goto(h, step) == pc' = [pc EXCEPT ![h] = step] /\ UNCHANGED <<req, started>>
Return(h) ==
    /\ pc' = [pc EXCEPT ![h] = "idle"]
    /\ req' = [req EXCEPT ![h] = NoRequest]
    /\ UNCHANGED started

Fault == faults < MaxFaults /\ faults' = faults + 1

-----------------------------------------------------------------------------
(* SendCode *)

BeginSendCode(h, p, i) ==
    /\ pc[h] = "idle"
    /\ started < MaxRequests
    /\ started' = started + 1
    /\ pc' = [pc EXCEPT ![h] = "window"]
    /\ req' = [req EXCEPT ![h] = [phone |-> p, ip |-> i, code |-> NoCode]]
    /\ UNCHANGED <<smsVars, users, faults, historyVars>>

\* CheckAndConsumeSMSWindow: SETNX.
ConsumeWindow(h) ==
    LET p == req[h].phone
    IN  /\ pc[h] = "window"
        /\ IF p \in window
             THEN Return(h) /\ UNCHANGED <<window, windows>>
             ELSE /\ window' = window \cup {p}
                  /\ windows' = [windows EXCEPT ![p] = @ + 1]
                  /\ Goto(h, "phoneIncr")
        /\ UNCHANGED <<daily, ttl, code, codes, users, faults, sms, lives, uses,
                       contested, stuck, early>>

\* The counter the next step of h is about, and its limit.
Counter(h) == IF pc[h] \in {"phoneIncr", "phoneExpire"} THEN req[h].phone ELSE req[h].ip
Limit(h) == IF pc[h] \in {"phoneIncr", "phoneExpire"} THEN PhoneLimit ELSE IpLimit

\* Where a request that is within its limit goes on.
NextCheck(h) == IF pc[h] \in {"phoneIncr", "phoneExpire"} THEN "ipIncr" ELSE "save"

\* Variant: the counter is compared before it is incremented.
WithinBefore(n, limit) == n - 1 <= limit

Within(n, limit) == n <= limit

\* incrAndCheck: the first INCR of a counter is followed by EXPIRE.
Incr(h) ==
    LET k == Counter(h)
        n == daily[k] + 1
    IN  /\ pc[h] \in {"phoneIncr", "ipIncr"}
        /\ daily' = [daily EXCEPT ![k] = n]
        /\ lives' = [lives EXCEPT ![k] = IF n = 1 THEN @ + 1 ELSE @]
        /\ IF n = 1
             THEN Goto(h, IF pc[h] = "phoneIncr" THEN "phoneExpire" ELSE "ipExpire")
             ELSE IF Within(n, Limit(h)) THEN Goto(h, NextCheck(h)) ELSE Return(h)
        /\ UNCHANGED <<window, ttl, code, codes, users, faults, sms, windows, uses,
                       contested, stuck, early>>

\* INCR took effect but its reply is lost.
IncrReplyLost(h) ==
    LET k == Counter(h)
    IN  /\ Fault
        /\ pc[h] \in {"phoneIncr", "ipIncr"}
        /\ daily' = [daily EXCEPT ![k] = @ + 1]
        /\ lives' = [lives EXCEPT ![k] = IF daily[k] = 0 THEN @ + 1 ELSE @]
        /\ stuck' = IF daily[k] = 0 THEN stuck \cup {k} ELSE stuck
        /\ Return(h)
        /\ UNCHANGED <<window, ttl, code, codes, users, sms, windows, uses, contested, early>>

\* Variant: EXPIRE is sent with the wrong key.
ExpireOther(h) ==
    /\ pc[h] \in {"phoneExpire", "ipExpire"}
    /\ ttl' = IF daily[req[h].phone] > 0 THEN ttl \cup {req[h].phone} ELSE ttl
    /\ IF Within(1, Limit(h)) THEN Goto(h, NextCheck(h)) ELSE Return(h)
    /\ UNCHANGED <<window, daily, code, codes, users, faults, historyVars>>

Expire(h) ==
    /\ pc[h] \in {"phoneExpire", "ipExpire"}
    /\ ttl' = IF daily[Counter(h)] > 0 THEN ttl \cup {Counter(h)} ELSE ttl
    /\ IF Within(1, Limit(h)) THEN Goto(h, NextCheck(h)) ELSE Return(h)
    /\ UNCHANGED <<window, daily, code, codes, users, faults, historyVars>>

\* The request fails and the counter is left without an expiry.
ExpireFails(h) ==
    /\ Fault
    /\ pc[h] \in {"phoneExpire", "ipExpire"}
    /\ stuck' = stuck \cup {Counter(h)}
    /\ Return(h)
    /\ UNCHANGED <<smsVars, users, sms, lives, windows, uses, contested, early>>

SaveSMSCode(h) ==
    /\ pc[h] = "save"
    /\ codes' = codes + 1
    /\ code' = [code EXCEPT ![req[h].phone] = codes + 1]
    /\ pc' = [pc EXCEPT ![h] = "send"]
    /\ req' = [req EXCEPT ![h].code = codes + 1]
    /\ UNCHANGED <<window, daily, ttl, started, users, faults, historyVars>>

SendSMS(h) ==
    /\ pc[h] = "send"
    /\ sms' = [k \in Counters |->
                 IF k \in {req[h].phone, req[h].ip} THEN sms[k] + 1 ELSE sms[k]]
    /\ Return(h)
    /\ UNCHANGED <<smsVars, users, faults, lives, windows, uses, contested, stuck, early>>

\* The provider refuses: the code is deleted, whichever it is by then.
SendSMSFails(h) ==
    /\ Fault
    /\ pc[h] = "send"
    /\ Goto(h, "sendDel")
    /\ UNCHANGED <<smsVars, users, historyVars>>

DeleteUnsentCode(h) ==
    /\ pc[h] = "sendDel"
    /\ code' = [code EXCEPT ![req[h].phone] = NoCode]
    /\ Return(h)
    /\ UNCHANGED <<window, daily, ttl, codes, users, faults, historyVars>>

-----------------------------------------------------------------------------
(* Login *)

BeginLogin(h, p, c) ==
    /\ pc[h] = "idle"
    /\ started < MaxRequests
    /\ started' = started + 1
    /\ pc' = [pc EXCEPT ![h] = "verify"]
    /\ req' = [req EXCEPT ![h] = [phone |-> p, ip |-> None, code |-> c]]
    /\ UNCHANGED <<smsVars, users, faults, historyVars>>

\* GetSMSCode and the comparison.
VerifyCode(h) ==
    LET c == req[h].code
    IN  /\ pc[h] = "verify"
        /\ IF code[req[h].phone] = c
             THEN /\ Goto(h, "loginDel")
                  /\ uses' = [uses EXCEPT ![c] = @ + 1]
                  /\ contested' = IF \E g \in Handlers : pc[g] = "loginDel" /\ req[g].code = c
                                    THEN contested \cup {c} ELSE contested
             ELSE Return(h) /\ UNCHANGED <<uses, contested>>
        /\ UNCHANGED <<smsVars, users, faults, sms, lives, windows, stuck, early>>

\* Variant: the code stays until it expires.
DeleteSMSCodeSkipped(h) ==
    /\ pc[h] = "loginDel"
    /\ Goto(h, "find")
    /\ UNCHANGED <<smsVars, users, faults, historyVars>>

DeleteSMSCode(h) ==
    /\ pc[h] = "loginDel"
    /\ code' = [code EXCEPT ![req[h].phone] = NoCode]
    /\ Goto(h, "find")
    /\ UNCHANGED <<window, daily, ttl, codes, users, faults, historyVars>>

\* A failed DEL is only logged.
DeleteSMSCodeFails(h) ==
    /\ Fault
    /\ pc[h] = "loginDel"
    /\ contested' = contested \cup {req[h].code}
    /\ Goto(h, "find")
    /\ UNCHANGED <<smsVars, users, sms, lives, windows, uses, stuck, early>>

\* What FindByPhoneHash may find: a replica may not have the row or its present
\* hash yet, however long ago it was written.
Findable(p) == IF Split THEN {Found(p), FALSE} ELSE {Found(p)}

\* A user that is found gets tokens (unless banned).  A user that is not found
\* is registered, which needs a key.
FindUser(h) ==
    LET p == req[h].phone
    IN  /\ pc[h] = "find"
        /\ \E found \in Findable(p) :
              IF found \/ Key = None THEN Return(h) ELSE Goto(h, "create")
        /\ early' = IF ~Found(p) /\ (\E i \in DOMAIN users : users[i].hash = LegacyRow(p).hash)
                      THEN early \cup {p} ELSE early
        /\ UNCHANGED <<smsVars, users, faults, sms, lives, windows, uses, contested, stuck>>

\* Variant: no unique key on phone_hash.
CreateUserDuplicate(h) ==
    /\ pc[h] = "create"
    /\ users' = Append(users, NewRow(req[h].phone))
    /\ Return(h)
    /\ UNCHANGED <<smsVars, faults, historyVars>>

\* INSERT: the unique key on phone_hash turns a second registration into an error.
CreateUser(h) ==
    /\ pc[h] = "create"
    /\ IF Found(req[h].phone)
         THEN UNCHANGED users
         ELSE users' = Append(users, NewRow(req[h].phone))
    /\ Return(h)
    /\ UNCHANGED <<smsVars, faults, historyVars>>

\* Any other command or statement fails, and the request with it.
RequestFails(h) ==
    /\ Fault
    /\ pc[h] \in {"window", "phoneIncr", "ipIncr", "save", "sendDel", "verify", "find", "create"}
    /\ Return(h)
    /\ UNCHANGED <<smsVars, users, historyVars>>

-----------------------------------------------------------------------------
(* Expiry *)

WindowExpires(p) ==
    /\ p \in window
    /\ window' = window \ {p}
    /\ UNCHANGED <<daily, ttl, code, codes, users, reqVars, faults, historyVars>>

CounterExpires(k) ==
    /\ k \in ttl
    /\ ttl' = ttl \ {k}
    /\ daily' = [daily EXCEPT ![k] = 0]
    /\ UNCHANGED <<window, code, codes, users, reqVars, faults, historyVars>>

CodeExpires(p) ==
    /\ code[p] # NoCode
    /\ code' = [code EXCEPT ![p] = NoCode]
    /\ UNCHANGED <<window, daily, ttl, codes, users, reqVars, faults, historyVars>>

-----------------------------------------------------------------------------

RequestStep(h) ==
    \/ ConsumeWindow(h)
    \/ Incr(h)
    \/ IncrReplyLost(h)
    \/ Expire(h)
    \/ ExpireFails(h)
    \/ SaveSMSCode(h)
    \/ SendSMS(h)
    \/ SendSMSFails(h)
    \/ DeleteUnsentCode(h)
    \/ VerifyCode(h)
    \/ DeleteSMSCode(h)
    \/ DeleteSMSCodeFails(h)
    \/ FindUser(h)
    \/ CreateUser(h)
    \/ RequestFails(h)

AccountNext ==
    \/ \E h \in Handlers :
          \/ \E p \in Active, i \in Ips : BeginSendCode(h, p, i)
          \/ \E p \in Active, c \in 1..codes : BeginLogin(h, p, c)
          \/ RequestStep(h)
    \/ \E p \in Active : WindowExpires(p) \/ CodeExpires(p)
    \/ \E k \in Counters : CounterExpires(k)

-----------------------------------------------------------------------------
(* Properties *)

\* user_service.go:92, the three limits: however requests overlap, fail and
\* outlive the keys they consumed, no more messages go out than windows were
\* opened for the phone, and than the daily limits allow for the counters the
\* phone and the address have had.
SmsLimits ==
    /\ \A p \in Phones : sms[p] <= windows[p] /\ sms[p] <= PhoneLimit * lives[p]
    /\ \A i \in Ips : sms[i] <= IpLimit * lives[i]

\* user_cache.go:131-143: a daily counter that will never expire locks the phone
\* or the address out for good.  It exists only while the request that created
\* it has yet to send EXPIRE, or after that EXPIRE failed.
CounterWillExpire ==
    \A k \in Counters \ stuck :
        daily[k] > 0 =>
            \/ k \in ttl
            \/ \E h \in Handlers : pc[h] \in {"phoneExpire", "ipExpire"} /\ Counter(h) = k

\* user_cache.go:76, "one-time use": a code is verified twice only by Logins that
\* both read it before either deleted it, or after a DEL that failed.
CodeSingleUse == \A c \in Codes \ contested : uses[c] <= 1

=============================================================================
