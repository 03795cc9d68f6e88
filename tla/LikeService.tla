----------------------------- MODULE LikeService -----------------------------
(***************************************************************************)
(* Like and Unlike of internal/service/like_service.go over the Redis keys *)
(* of internal/cache/like_cache.go: the membership set like:set:{post} and *)
(* the counter like:cnt:{post}.                                            *)
(*                                                                         *)
(* A request takes one step per round trip: find the post, probe the set,  *)
(* mutate, publish.  AddLike is one Lua script and so one step; RemoveLike *)
(* is a pipeline (SREM) followed by a script (DECR clamped at zero), and   *)
(* so two.  An expired or absent counter reads as 0 everywhere in the code *)
(* and is represented by 0.                                                *)
(***************************************************************************)
EXTENDS Integers, Sequences, FiniteSets

CONSTANTS
    Users, Posts,
    Handlers,       \* request handler goroutines
    UserOf,         \* UserOf[h]: the authenticated user of h's requests
    MaxRequests,    \* bound on the number of requests
    RedisMayFail,   \* TRUE: a Redis round trip, or FindByID, may return an error
    PublishMayFail, \* TRUE: the bus may refuse an event
    Expiry          \* TRUE: the 7-day TTLs may run out

ASSUME LikeServiceAssumption ==
    /\ IsFiniteSet(Users)
    /\ IsFiniteSet(Handlers)
    /\ UserOf \in [Handlers -> Users]
    /\ MaxRequests \in Nat
    /\ RedisMayFail \in BOOLEAN
    /\ PublishMayFail \in BOOLEAN
    /\ Expiry \in BOOLEAN

VARIABLES
    live,       \* posts that are not soft-deleted
    likeSet,    \* likeSet[p]: members of like:set:{p}
    likeCnt,    \* likeCnt[p]: value of like:cnt:{p}
    pc,         \* pc[h]: the next step of handler h
    post,       \* post[h]: the post of h's current request
    started,    \* number of requests begun
    events,     \* history: events[u][p] is the sequence of events published
    surplus,    \* history: surplus[p] counts the members the set of p lost
                \* without a DECR, since the counter last expired
    spoiled     \* history: posts on which two requests of one user have
                \* overlapped, a write or publish failed, or a key expired

vars == <<live, likeSet, likeCnt, pc, post, started, events, surplus, spoiled>>

Steps == {"idle", "findLike", "findUnlike", "probeLike", "probeUnlike", "add",
          "srem", "decr", "pubLike", "pubUnlike"}

TypeOK ==
    /\ live \subseteq Posts
    /\ likeSet \in [Posts -> SUBSET Users]
    /\ likeCnt \in [Posts -> Nat]
    /\ pc \in [Handlers -> Steps]
    /\ post \in [Handlers -> Posts]
    /\ started \in Nat
    /\ events \in [Users -> [Posts -> Seq({"like", "unlike"})]]
    /\ surplus \in [Posts -> Nat]
    /\ spoiled \subseteq Posts

Init ==
    /\ live = Posts
    /\ likeSet = [p \in Posts |-> {}]
    /\ likeCnt = [p \in Posts |-> 0]
    /\ pc = [h \in Handlers |-> "idle"]
    /\ post \in [Handlers -> Posts]
    /\ started = 0
    /\ events = [u \in Users |-> [p \in Posts |-> <<>>]]
    /\ surplus = [p \in Posts |-> 0]
    /\ spoiled = {}

-----------------------------------------------------------------------------

Goto(h, step) == pc' = [pc EXCEPT ![h] = step]

\* Another request of h's user on post p is in progress.
Overlaps(h, p) ==
    \E g \in Handlers : g # h /\ UserOf[g] = UserOf[h] /\ post[g] = p /\ pc[g] # "idle"

Spoil(p) == spoiled' = spoiled \cup {p}

BeginRequest(h, p) ==
    /\ pc[h] = "idle"
    /\ started < MaxRequests
    /\ started' = started + 1
    /\ post' = [post EXCEPT ![h] = p]
    /\ \E step \in {"findLike", "findUnlike"} : Goto(h, step)
    /\ spoiled' = spoiled \cup {q \in {p} : Overlaps(h, p)}
    /\ UNCHANGED <<live, likeSet, likeCnt, events, surplus>>

\* postRepo.FindByID: a soft-deleted post ends the request.
FindByID(h) ==
    /\ \/ pc[h] = "findLike"   /\ Goto(h, IF post[h] \in live THEN "probeLike" ELSE "idle")
       \/ pc[h] = "findUnlike" /\ Goto(h, IF post[h] \in live THEN "probeUnlike" ELSE "idle")
    /\ UNCHANGED <<live, likeSet, likeCnt, post, started, events, surplus, spoiled>>

\* Variant: Like skips the idempotency probe.
HasLikedUnprobedLike(h) ==
    /\ LET liked == UserOf[h] \in likeSet[post[h]]
       IN  \/ pc[h] = "probeLike"   /\ Goto(h, "add")
           \/ pc[h] = "probeUnlike" /\ Goto(h, IF liked THEN "srem" ELSE "idle")
    /\ UNCHANGED <<live, likeSet, likeCnt, post, started, events, surplus, spoiled>>

\* Variant: Unlike skips the idempotency probe.
HasLikedUnprobedUnlike(h) ==
    /\ LET liked == UserOf[h] \in likeSet[post[h]]
       IN  \/ pc[h] = "probeLike"   /\ Goto(h, IF liked THEN "idle" ELSE "add")
           \/ pc[h] = "probeUnlike" /\ Goto(h, "srem")
    /\ UNCHANGED <<live, likeSet, likeCnt, post, started, events, surplus, spoiled>>

\* HasLiked: the request that would change nothing returns here.
HasLiked(h) ==
    /\ LET liked == UserOf[h] \in likeSet[post[h]]
       IN  \/ pc[h] = "probeLike"   /\ Goto(h, IF liked THEN "idle" ELSE "add")
           \/ pc[h] = "probeUnlike" /\ Goto(h, IF liked THEN "srem" ELSE "idle")
    /\ UNCHANGED <<live, likeSet, likeCnt, post, started, events, surplus, spoiled>>

\* Variant: the pipeline AddLike was before Step 13, which always INCRs.
AddLikePipeline(u, p) ==
    /\ likeSet' = [likeSet EXCEPT ![p] = @ \cup {u}]
    /\ likeCnt' = [likeCnt EXCEPT ![p] = @ + 1]

\* The effect of addLikeScript: INCR only when SADD inserted the member.
AddLikeScript(u, p) ==
    /\ likeSet' = [likeSet EXCEPT ![p] = @ \cup {u}]
    /\ likeCnt' = [likeCnt EXCEPT ![p] = IF u \in likeSet[p] THEN @ ELSE @ + 1]

AddLike(h) ==
    /\ pc[h] = "add"
    /\ AddLikeScript(UserOf[h], post[h])
    /\ Goto(h, "pubLike")
    /\ UNCHANGED <<live, post, started, events, surplus, spoiled>>

\* First half of RemoveLike: the SREM pipeline.
RemoveLikeSRem(h) ==
    /\ pc[h] = "srem"
    /\ likeSet' = [likeSet EXCEPT ![post[h]] = @ \ {UserOf[h]}]
    /\ Goto(h, "decr")
    /\ UNCHANGED <<live, likeCnt, post, started, events, surplus, spoiled>>

\* Variant: a naked DECR.
RemoveLikeNakedDecr(h) ==
    /\ pc[h] = "decr"
    /\ likeCnt' = [likeCnt EXCEPT ![post[h]] = @ - 1]
    /\ Goto(h, "pubUnlike")
    /\ UNCHANGED <<live, likeSet, post, started, events, surplus, spoiled>>

\* Second half: decrClampScript.  It does not know what SREM removed.
RemoveLikeDecr(h) ==
    /\ pc[h] = "decr"
    /\ likeCnt' = [likeCnt EXCEPT ![post[h]] = IF @ = 0 THEN 0 ELSE @ - 1]
    /\ Goto(h, "pubUnlike")
    /\ UNCHANGED <<live, likeSet, post, started, events, surplus, spoiled>>

Publish(h, kind) ==
    /\ events' = [events EXCEPT ![UserOf[h]][post[h]] = Append(@, kind)]
    /\ Goto(h, "idle")
    /\ UNCHANGED <<live, likeSet, likeCnt, post, started, surplus, spoiled>>

PublishLikeEvent(h) == pc[h] = "pubLike" /\ Publish(h, "like")

PublishUnlikeEvent(h) == pc[h] = "pubUnlike" /\ Publish(h, "unlike")

(***************************************************************************)
(* A Redis error ends the request with a 500 and publishes nothing.  The   *)
(* error may be a lost reply: the command may have been carried out.       *)
(***************************************************************************)
ReadFails(h) ==
    /\ RedisMayFail
    /\ pc[h] \in {"findLike", "findUnlike", "probeLike", "probeUnlike"}
    /\ Goto(h, "idle")
    /\ UNCHANGED <<live, likeSet, likeCnt, post, started, events, surplus, spoiled>>

AddLikeFails(h) ==
    /\ RedisMayFail
    /\ pc[h] = "add"
    /\ AddLikeScript(UserOf[h], post[h]) \/ UNCHANGED <<likeSet, likeCnt>>
    /\ Goto(h, "idle")
    /\ Spoil(post[h])
    /\ UNCHANGED <<live, post, started, events, surplus>>

\* The pipeline's error skips the DECR.
RemoveLikeSRemFails(h) ==
    /\ RedisMayFail
    /\ pc[h] = "srem"
    /\ \/ /\ likeSet' = [likeSet EXCEPT ![post[h]] = @ \ {UserOf[h]}]
          /\ surplus' = [surplus EXCEPT ![post[h]] = @ + 1]
       \/ UNCHANGED <<likeSet, surplus>>
    /\ Goto(h, "idle")
    /\ Spoil(post[h])
    /\ UNCHANGED <<live, likeCnt, post, started, events>>

RemoveLikeDecrFails(h) ==
    /\ RedisMayFail
    /\ pc[h] = "decr"
    /\ \/ /\ likeCnt' = [likeCnt EXCEPT ![post[h]] = IF @ = 0 THEN 0 ELSE @ - 1]
          /\ UNCHANGED surplus
       \/ /\ surplus' = [surplus EXCEPT ![post[h]] = @ + 1]
          /\ UNCHANGED likeCnt
    /\ Goto(h, "idle")
    /\ Spoil(post[h])
    /\ UNCHANGED <<live, likeSet, post, started, events>>

\* A refused event is logged; the change in Redis stays.
PublishFails(h) ==
    /\ PublishMayFail
    /\ pc[h] \in {"pubLike", "pubUnlike"}
    /\ Goto(h, "idle")
    /\ Spoil(post[h])
    /\ UNCHANGED <<live, likeSet, likeCnt, post, started, events, surplus>>

-----------------------------------------------------------------------------
(* The environment *)

SoftDelete(p) ==
    /\ p \in live
    /\ live' = live \ {p}
    /\ UNCHANGED <<likeSet, likeCnt, pc, post, started, events, surplus, spoiled>>

\* The two keys have a TTL each.  Like refreshes both at once, a repeated Like
\* the set's alone, Unlike the counter's a round trip after the set's: either
\* key may be the first to go.
ExpireCounter(p) ==
    /\ Expiry
    /\ Spoil(p)
    /\ likeCnt' = [likeCnt EXCEPT ![p] = 0]
    /\ surplus' = [surplus EXCEPT ![p] = 0]
    /\ UNCHANGED <<live, likeSet, pc, post, started, events>>

ExpireSet(p) ==
    /\ Expiry
    /\ Spoil(p)
    /\ likeSet' = [likeSet EXCEPT ![p] = {}]
    /\ surplus' = [surplus EXCEPT ![p] = @ + Cardinality(likeSet[p])]
    /\ UNCHANGED <<live, likeCnt, pc, post, started, events>>

HandlerStep(h) ==
    \/ FindByID(h)
    \/ HasLiked(h)
    \/ AddLike(h)
    \/ RemoveLikeSRem(h)
    \/ RemoveLikeDecr(h)
    \/ PublishLikeEvent(h)
    \/ PublishUnlikeEvent(h)

HandlerFails(h) ==
    \/ ReadFails(h)
    \/ AddLikeFails(h)
    \/ RemoveLikeSRemFails(h)
    \/ RemoveLikeDecrFails(h)
    \/ PublishFails(h)

Next ==
    \/ \E h \in Handlers, p \in Posts : BeginRequest(h, p)
    \/ \E h \in Handlers : HandlerStep(h) \/ HandlerFails(h)
    \/ \E p \in Posts : SoftDelete(p) \/ ExpireCounter(p) \/ ExpireSet(p)

Spec == Init /\ [][Next]_vars

-----------------------------------------------------------------------------
(* Properties *)

\* The handlers between SREM and DECR on post p.
Owing(p) == {h \in Handlers : pc[h] = "decr" /\ post[h] = p}

\* The counter never shows more likes than the set has members, except for
\* the unlikes that are between their SREM and their DECR, those whose DECR was
\* lost to a Redis error, and members lost to expiry: the over-count of
\* like_cache.go:162-164 is gone since AddLike skips INCR for a member that was
\* already there.
CountNeverAhead ==
    \A p \in Posts :
        likeCnt[p] <= Cardinality(likeSet[p]) + Cardinality(Owing(p)) + surplus[p]

\* As long as no user's requests on the post overlap, Redis does not fail and
\* no key expires, the counter is exact whatever other users do meanwhile: the
\* clamp at zero never hides a decrement, and no decrement is made for a member
\* that was not removed.
CountExact ==
    \A p \in Posts \ spoiled :
        likeCnt[p] = Cardinality(likeSet[p]) + Cardinality(Owing(p))

Alternates(q) ==
    \A i \in DOMAIN q : q[i] = IF i % 2 = 1 THEN "like" ELSE "unlike"

\* Net number of likes the published events of u on p amount to.
Balance(u, p) == Len(events[u][p]) % 2

\* like_service.go:14-18: events reflect real state changes.  On a post whose
\* users' requests do not overlap, and without errors or expiry, the events of
\* a user alternate like, unlike, like ..., and once the user's handlers are
\* idle they add up to the user's membership in the set.
EventsReflectStateChanges ==
    \A u \in Users, p \in Posts \ spoiled :
        /\ Alternates(events[u][p])
        /\ (\A h \in Handlers : UserOf[h] = u => pc[h] = "idle") =>
              (Balance(u, p) = 1 <=> u \in likeSet[p])

=============================================================================
