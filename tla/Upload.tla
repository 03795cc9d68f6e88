-------------------------------- MODULE Upload --------------------------------
(***************************************************************************)
(* Presign and Callback of internal/service/upload_service.go over the     *)
(* nonces of internal/cache/upload_cache.go, behind the middleware the     *)
(* router puts in front of them: Auth for both, RateLimit for presign.     *)
(*                                                                         *)
(* Presign n makes object n and nonce n: both are random and never repeat. *)
(***************************************************************************)
EXTENDS RateLimit

CONSTANTS PresignTTL

ASSUME UploadAssumption == PresignTTL \in Nat \ {0}

Nonces == 1..MaxRequests

VARIABLES
    nonce,      \* nonce[n]: upload:nonce:n
    signed,     \* signed[n]: when the upload URL of object n expires
    presigned,  \* number of upload URLs signed
    answered,   \* history: nonces a client was given
    taken,      \* history: nonces GETDEL has found
    redeemed    \* history: redeemed[n]: the users a callback for n succeeded for

uploadVars == <<nonce, signed, presigned, answered, taken, redeemed>>
vars == <<sessionVars, limitVars, uploadVars>>

NoNonce == [user |-> None, object |-> 0, until |-> 0]

Steps == {"idle", "findUser", "blacklist", "ban", "authed", "revoke", "count", "record",
          "allowed", "save"}

TypeOK ==
    /\ now \in 0..MaxTime
    /\ token \in [Tokens -> [user : Users \cup {None}, exp : Nat]]
    /\ issued \in 0..MaxTokens
    /\ blacklist \in [Tokens -> Nat]
    /\ banned \subseteq Bannable
    /\ pc \in [Handlers -> Steps]
    /\ started \in 0..MaxRequests
    /\ faults \in 0..MaxFaults
    /\ loggedOut \subseteq Tokens
    /\ slots \in [Users -> SUBSET Nat]
    /\ slotsUntil \in [Users -> Nat]
    /\ nonce \in [Nonces -> [user : Users \cup {None}, object : Nonces \cup {0}, until : Nat]]
    /\ presigned \in 0..MaxRequests
    /\ answered \subseteq 1..presigned
    /\ taken \subseteq 1..presigned

Init ==
    /\ SessionInit
    /\ LimitInit
    /\ nonce = [n \in Nonces |-> NoNonce]
    /\ signed = [n \in Nonces |-> 0]
    /\ presigned = 0
    /\ answered = {}
    /\ taken = {}
    /\ redeemed = [n \in Nonces |-> <<>>]

-----------------------------------------------------------------------------
(* Presign *)

\* The size and purpose checks may refuse the request; else a URL is signed.
SignUrl(h) ==
    /\ pc[h] = "allowed"
    /\ \/ Return(h) /\ UNCHANGED <<signed, presigned>>
       \/ /\ presigned' = presigned + 1
          /\ signed' = [signed EXCEPT ![presigned + 1] = now + PresignTTL]
          /\ pc' = [pc EXCEPT ![h] = "save"]
          /\ req' = [req EXCEPT ![h].item = presigned + 1]
          /\ UNCHANGED started
    /\ UNCHANGED <<now, tokenVars, faults, limitVars, nonce, answered, taken, redeemed>>

\* Variant: the nonce is kept for less than the URL is valid.
NonceShort(h) == [user |-> req[h].user, object |-> req[h].item, until |-> now + PresignTTL - 1]

\* The record a callback will be checked against.
Nonce(h) == [user |-> req[h].user, object |-> req[h].item, until |-> now + PresignTTL]

SaveNonce(h) ==
    /\ pc[h] = "save"
    /\ nonce' = [nonce EXCEPT ![req[h].item] = Nonce(h)]
    /\ answered' = answered \cup {req[h].item}
    /\ Return(h)
    /\ UNCHANGED <<now, tokenVars, faults, limitVars, signed, presigned, taken, redeemed>>

\* Presign fails; the nonce may have been stored all the same.
SaveNonceFails(h) ==
    /\ Fault
    /\ pc[h] = "save"
    /\ nonce' = [nonce EXCEPT ![req[h].item] = Nonce(h)] \/ UNCHANGED nonce
    /\ Return(h)
    /\ UNCHANGED <<now, tokenVars, limitVars, signed, presigned, answered, taken, redeemed>>

-----------------------------------------------------------------------------
(* Callback *)

Present(n) == now < nonce[n].until

\* Variant: GET instead of GETDEL.
TakeNonceGet(n) == UNCHANGED nonce /\ taken' = taken \cup {n}

\* GETDEL of a nonce that is there.
TakeNonce(n) ==
    /\ nonce' = [nonce EXCEPT ![n] = NoNonce]
    /\ taken' = taken \cup {n}

\* An absent nonce and one of another user are answered alike; the latter is
\* consumed as well.
Callback(h) ==
    LET n == req[h].item
    IN  /\ pc[h] = "authed"
        /\ req[h].op = "callback"
        /\ IF Present(n)
             THEN /\ TakeNonce(n)
                  /\ redeemed' = IF nonce[n].user = req[h].user
                                   THEN [redeemed EXCEPT ![n] =
                                           Append(@, [user |-> req[h].user, url |-> nonce[n].object])]
                                   ELSE redeemed
             ELSE UNCHANGED <<nonce, taken, redeemed>>
        /\ Return(h)
        /\ UNCHANGED <<now, tokenVars, faults, limitVars, signed, presigned, answered>>

\* GETDEL fails, or its reply is lost and the nonce with it.
CallbackFails(h) ==
    LET n == req[h].item
    IN  /\ Fault
        /\ pc[h] = "authed"
        /\ req[h].op = "callback"
        /\ \/ UNCHANGED <<nonce, taken>>
           \/ Present(n) /\ TakeNonce(n)
        /\ Return(h)
        /\ UNCHANGED <<now, tokenVars, limitVars, signed, presigned, answered, redeemed>>

UploadStep(h) ==
    \/ SignUrl(h)
    \/ SaveNonce(h)
    \/ SaveNonceFails(h)
    \/ Callback(h)
    \/ CallbackFails(h)

Next ==
    \/ SessionNext /\ UNCHANGED <<limitVars, uploadVars>>
    \/ \E h \in Handlers :
          \/ \E k \in Access :
                /\ Begin(h, "presign", k, 0) \/ \E n \in answered : Begin(h, "callback", k, n)
                /\ UNCHANGED <<limitVars, uploadVars>>
          \/ LimitStep(h) /\ UNCHANGED uploadVars
          \/ UploadStep(h)

Spec == Init /\ [][Next]_vars

-----------------------------------------------------------------------------
(* Properties *)

\* upload_service.go:138-142: of all callbacks for one nonce, simultaneous or
\* repeated after an error, at most one succeeds; it is one of the user who asked
\* for the upload and it is given the URL that was signed for him.
NonceSingleUse ==
    \A n \in Nonces :
        /\ Len(redeemed[n]) <= 1
        /\ \A i \in DOMAIN redeemed[n] : redeemed[n][i].url = n /\ n \in taken

\* upload.go:39-41: a client that has been given an upload URL can finish with
\* a callback as long as the URL is valid: the nonce is gone earlier only if a
\* GETDEL has found it.
NonceOutlivesUrl ==
    \A n \in answered \ taken : now < signed[n] => Present(n)

=============================================================================
