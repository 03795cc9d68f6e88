-------------------------- MODULE LikeServiceProofs --------------------------
(***************************************************************************)
(* Proofs about LikeService, for any users, posts, handlers and number of  *)
(* requests.                                                               *)
(***************************************************************************)
EXTENDS LikeService, TLAPS, FiniteSetTheorems

\* Every variable keeps its type; the counter never goes below zero.
LEMMA TypeStep == TypeOK /\ [Next]_vars => TypeOK'
  <1> SUFFICES ASSUME TypeOK, [Next]_vars PROVE TypeOK'
    OBVIOUS
  <1> USE LikeServiceAssumption DEF TypeOK, Steps, Goto, Spoil
  <1>1. ASSUME NEW h \in Handlers, NEW p \in Posts, BeginRequest(h, p) PROVE TypeOK'
    BY <1>1 DEF BeginRequest
  <1>2. ASSUME NEW h \in Handlers, FindByID(h) \/ HasLiked(h) \/ ReadFails(h) \/ PublishFails(h) PROVE TypeOK'
    BY <1>2 DEF FindByID, HasLiked, ReadFails, PublishFails
  <1>3. ASSUME NEW h \in Handlers, AddLike(h) \/ AddLikeFails(h) PROVE TypeOK'
    <2>1. /\ post[h] \in Posts /\ UserOf[h] \in Users
          /\ likeSet[post[h]] \cup {UserOf[h]} \in SUBSET Users
          /\ likeCnt[post[h]] \in Nat /\ likeCnt[post[h]] + 1 \in Nat
      OBVIOUS
    <2>2. CASE AddLikeScript(UserOf[h], post[h])
      <3>1. likeSet' \in [Posts -> SUBSET Users]
        BY <2>1, <2>2 DEF AddLikeScript
      <3>2. likeCnt' \in [Posts -> Nat]
        BY <2>1, <2>2 DEF AddLikeScript
      <3>3. QED
        BY <1>3, <3>1, <3>2 DEF AddLike, AddLikeFails
    <2>3. CASE UNCHANGED <<likeSet, likeCnt>>
      BY <1>3, <2>3 DEF AddLike, AddLikeFails
    <2>4. QED
      BY <1>3, <2>2, <2>3 DEF AddLike, AddLikeFails
  <1>4. ASSUME NEW h \in Handlers, RemoveLikeSRem(h) \/ RemoveLikeSRemFails(h) PROVE TypeOK'
    <2>1. /\ post[h] \in Posts
          /\ likeSet[post[h]] \ {UserOf[h]} \in SUBSET Users
          /\ surplus[post[h]] + 1 \in Nat
      OBVIOUS
    <2>2. likeSet' \in [Posts -> SUBSET Users]
      BY <1>4, <2>1 DEF RemoveLikeSRem, RemoveLikeSRemFails
    <2>3. surplus' \in [Posts -> Nat]
      BY <1>4, <2>1 DEF RemoveLikeSRem, RemoveLikeSRemFails
    <2>4. QED
      BY <1>4, <2>2, <2>3 DEF RemoveLikeSRem, RemoveLikeSRemFails
  <1>5. ASSUME NEW h \in Handlers, RemoveLikeDecr(h) \/ RemoveLikeDecrFails(h) PROVE TypeOK'
    <2>1. /\ post[h] \in Posts
          /\ (IF likeCnt[post[h]] = 0 THEN 0 ELSE likeCnt[post[h]] - 1) \in Nat
          /\ surplus[post[h]] + 1 \in Nat
      OBVIOUS
    <2>2. likeCnt' \in [Posts -> Nat]
      BY <1>5, <2>1 DEF RemoveLikeDecr, RemoveLikeDecrFails
    <2>3. surplus' \in [Posts -> Nat]
      BY <1>5, <2>1 DEF RemoveLikeDecr, RemoveLikeDecrFails
    <2>4. CASE RemoveLikeDecr(h)
      BY <2>4, <2>2, <2>3 DEF RemoveLikeDecr
    <2>5. CASE RemoveLikeDecrFails(h)
      BY <2>1, <2>5, <2>2, <2>3 DEF RemoveLikeDecrFails
    <2>6. QED
      BY <1>5, <2>4, <2>5
  <1>6. ASSUME NEW h \in Handlers, PublishLikeEvent(h) \/ PublishUnlikeEvent(h) PROVE TypeOK'
    <2>1. PICK kind \in {"like", "unlike"} : Publish(h, kind)
      BY <1>6 DEF PublishLikeEvent, PublishUnlikeEvent
    <2>2. Append(events[UserOf[h]][post[h]], kind) \in Seq({"like", "unlike"})
      OBVIOUS
    <2>3. events' \in [Users -> [Posts -> Seq({"like", "unlike"})]]
      BY <2>1, <2>2 DEF Publish
    <2>4. QED
      BY <2>1, <2>3 DEF Publish
  <1>7. ASSUME NEW p \in Posts, SoftDelete(p) \/ ExpireCounter(p) \/ ExpireSet(p)
        PROVE  TypeOK'
    <2>1. CASE SoftDelete(p)
      BY <2>1 DEF SoftDelete
    <2>2. CASE ExpireCounter(p)
      BY <2>2 DEF ExpireCounter
    <2>3. CASE ExpireSet(p)
      <3>1. IsFiniteSet(likeSet[p])
        BY FS_Subset
      <3>2. Cardinality(likeSet[p]) \in Nat
        BY <3>1, FS_CardinalityType
      <3>3. surplus' \in [Posts -> Nat]
        BY <2>3, <3>2 DEF ExpireSet
      <3>4. likeSet' \in [Posts -> SUBSET Users]
        BY <2>3 DEF ExpireSet
      <3>5. QED
        BY <2>3, <3>3, <3>4 DEF ExpireSet
    <2>4. QED
      BY <1>7, <2>1, <2>2, <2>3
  <1>8. CASE UNCHANGED vars
    BY <1>8 DEF vars
  <1>9. QED
    BY <1>1, <1>2, <1>3, <1>4, <1>5, <1>6, <1>7, <1>8 DEF Next, HandlerStep, HandlerFails

\* The counter is a natural number in every state: the clamp of decrClampScript
\* makes a negative count unreachable however unlikes interleave.
THEOREM TypeCorrectness == Spec => []TypeOK
  <1>1. Init => TypeOK
    BY LikeServiceAssumption DEF Init, TypeOK, Steps
  <1>2. QED
    BY <1>1, TypeStep, PTL DEF Spec

-----------------------------------------------------------------------------

\* The sets that are counted are finite.
LEMMA Finite ==
  ASSUME TypeOK, NEW p \in Posts
  PROVE  /\ IsFiniteSet(likeSet[p]) /\ Cardinality(likeSet[p]) \in Nat
         /\ IsFiniteSet(Owing(p)) /\ Cardinality(Owing(p)) \in Nat
  <1>1. likeSet[p] \in SUBSET Users /\ Owing(p) \in SUBSET Handlers
    BY DEF TypeOK, Owing
  <1>2. IsFiniteSet(likeSet[p]) /\ IsFiniteSet(Owing(p))
    BY <1>1, FS_Subset, LikeServiceAssumption
  <1>3. QED
    BY <1>2, FS_CardinalityType

\* A step of h that neither enters nor leaves the gap between SREM and DECR
\* leaves the debtors of every post alone.
LEMMA OwingSame ==
  ASSUME TypeOK, NEW h \in Handlers, NEW step, Goto(h, step),
         pc[h] # "decr", step # "decr",
         \A g \in Handlers : g # h => post'[g] = post[g]
  PROVE  \A p \in Posts : Owing(p)' = Owing(p)
  BY DEF TypeOK, Owing, Goto

\* The SREM of h adds h to the debtors of its post.
LEMMA OwingEnter ==
  ASSUME TypeOK, NEW h \in Handlers, pc[h] = "srem", Goto(h, "decr"), post' = post
  PROVE  /\ h \notin Owing(post[h])
         /\ \A p \in Posts :
              Owing(p)' = IF p = post[h] THEN Owing(p) \cup {h} ELSE Owing(p)
  BY DEF TypeOK, Owing, Goto

\* The DECR of h, done or failed, takes h from the debtors of its post.
LEMMA OwingLeave ==
  ASSUME TypeOK, NEW h \in Handlers, NEW step, step # "decr",
         pc[h] = "decr", Goto(h, step), post' = post
  PROVE  /\ h \in Owing(post[h])
         /\ \A p \in Posts :
              Owing(p)' = IF p = post[h] THEN Owing(p) \ {h} ELSE Owing(p)
  BY DEF TypeOK, Owing, Goto

\* Taking a user out of a finite set loses at most one member.
LEMMA RemoveCard ==
  ASSUME NEW S, NEW u, IsFiniteSet(S)
  PROVE  /\ Cardinality(S \ {u}) \in Nat
         /\ Cardinality(S \ {u}) >= Cardinality(S) - 1
  <1>1. IsFiniteSet(S \ {u}) /\ Cardinality(S) \in Nat
    BY FS_RemoveElement, FS_CardinalityType
  <1>2. Cardinality(S \ {u}) \in Nat
    BY <1>1, FS_CardinalityType
  <1>3. Cardinality(S \ {u}) = IF u \in S THEN Cardinality(S) - 1 ELSE Cardinality(S)
    BY FS_RemoveElement
  <1>4. QED
    BY <1>1, <1>2, <1>3

\* What one post contributes to CountNeverAhead.
Behind(p) == likeCnt[p] <= Cardinality(likeSet[p]) + Cardinality(Owing(p)) + surplus[p]

\* CountNeverAhead is inductive: whatever an INCR adds to the counter the SADD
\* of the same script adds to the set, and a member that leaves is owed for.
LEMMA CountStep == TypeOK /\ CountNeverAhead /\ [Next]_vars => CountNeverAhead'
  <1> SUFFICES ASSUME TypeOK, CountNeverAhead, [Next]_vars, NEW p \in Posts
               PROVE  Behind(p)'
    BY DEF CountNeverAhead, Behind
  <1>a. TypeOK'
    BY TypeStep
  <1>b. /\ likeCnt[p] \in Nat /\ surplus[p] \in Nat
        /\ likeCnt'[p] \in Nat /\ surplus'[p] \in Nat
    BY <1>a DEF TypeOK
  <1>c. Behind(p)
    BY DEF CountNeverAhead, Behind
  <1>d. /\ IsFiniteSet(likeSet[p]) /\ Cardinality(likeSet[p]) \in Nat
        /\ IsFiniteSet(Owing(p)) /\ Cardinality(Owing(p)) \in Nat
    BY Finite
  <1>1. CASE likeCnt' = likeCnt /\ likeSet' = likeSet /\ surplus' = surplus
             /\ Owing(p)' = Owing(p)
    BY <1>1, <1>c DEF Behind
  <1>2. ASSUME NEW h \in Handlers, NEW q \in Posts, BeginRequest(h, q) PROVE Behind(p)'
    <2>1. PICK step \in {"findLike", "findUnlike"} : Goto(h, step)
      BY <1>2 DEF BeginRequest
    <2>2. \A g \in Handlers : g # h => post'[g] = post[g]
      BY <1>2 DEF BeginRequest, TypeOK
    <2>3. Owing(p)' = Owing(p)
      BY <1>2, <2>1, <2>2, OwingSame DEF BeginRequest
    <2>4. QED
      BY <1>1, <1>2, <2>3 DEF BeginRequest
  <1>3. ASSUME NEW h \in Handlers,
               FindByID(h) \/ HasLiked(h) \/ ReadFails(h) \/ PublishFails(h)
                 \/ PublishLikeEvent(h) \/ PublishUnlikeEvent(h)
        PROVE  Behind(p)'
    <2>1. /\ pc[h] # "decr"
          /\ \E step \in Steps : step # "decr" /\ Goto(h, step)
          /\ UNCHANGED <<post, likeCnt, likeSet, surplus>>
      BY <1>3 DEF FindByID, HasLiked, ReadFails, PublishFails, PublishLikeEvent,
                  PublishUnlikeEvent, Publish, Steps
    <2>2. Owing(p)' = Owing(p)
      BY <2>1, OwingSame
    <2>3. QED
      BY <1>1, <2>1, <2>2
  <1>4. ASSUME NEW h \in Handlers, AddLike(h) \/ AddLikeFails(h) PROVE Behind(p)'
    <2>1. /\ pc[h] # "decr"
          /\ \E step \in Steps : step # "decr" /\ Goto(h, step)
          /\ UNCHANGED <<post, surplus>>
      BY <1>4 DEF AddLike, AddLikeFails, Steps
    <2>2. Owing(p)' = Owing(p)
      BY <2>1, OwingSame
    <2>3. CASE UNCHANGED <<likeSet, likeCnt>>
      BY <1>1, <2>1, <2>2, <2>3
    <2>4. CASE AddLikeScript(UserOf[h], post[h]) /\ p # post[h]
      <3>1. likeSet'[p] = likeSet[p] /\ likeCnt'[p] = likeCnt[p]
        BY <2>4 DEF AddLikeScript, TypeOK
      <3>2. QED
        BY <2>1, <2>2, <3>1, <1>c DEF Behind
    <2>5. CASE AddLikeScript(UserOf[h], post[h]) /\ p = post[h]
      <3>1. /\ likeSet'[p] = likeSet[p] \cup {UserOf[h]}
            /\ likeCnt'[p] = IF UserOf[h] \in likeSet[p] THEN likeCnt[p] ELSE likeCnt[p] + 1
        BY <2>5 DEF AddLikeScript, TypeOK
      <3>2. Cardinality(likeSet'[p]) = IF UserOf[h] \in likeSet[p]
                                       THEN Cardinality(likeSet[p])
                                       ELSE Cardinality(likeSet[p]) + 1
        BY <3>1, <1>d, FS_AddElement
      <3>3. QED
        BY <2>1, <2>2, <3>1, <3>2, <1>b, <1>c, <1>d DEF Behind
    <2>6. QED
      BY <1>4, <2>3, <2>4, <2>5 DEF AddLike, AddLikeFails
  <1>5. ASSUME NEW h \in Handlers, RemoveLikeSRem(h) PROVE Behind(p)'
    <2>1. /\ h \notin Owing(post[h])
          /\ Owing(p)' = IF p = post[h] THEN Owing(p) \cup {h} ELSE Owing(p)
      BY <1>5, OwingEnter DEF RemoveLikeSRem
    <2>2. Cardinality(Owing(p)') =
            IF p = post[h] THEN Cardinality(Owing(p)) + 1 ELSE Cardinality(Owing(p))
      BY <2>1, <1>d, FS_AddElement
    <2>3. likeSet'[p] = IF p = post[h] THEN likeSet[p] \ {UserOf[h]} ELSE likeSet[p]
      BY <1>5 DEF RemoveLikeSRem, TypeOK
    <2>4. /\ Cardinality(likeSet'[p]) \in Nat
          /\ Cardinality(likeSet'[p]) >= Cardinality(likeSet[p]) - 1
          /\ p # post[h] => Cardinality(likeSet'[p]) = Cardinality(likeSet[p])
      <3>1. CASE p = post[h]
        <4>1. likeSet'[p] = likeSet[p] \ {UserOf[h]}
          BY <3>1, <2>3
        <4>2. QED
          BY <4>1, <3>1, <1>d, RemoveCard
      <3>2. CASE p # post[h]
        <4>1. likeSet'[p] = likeSet[p]
          BY <3>2, <2>3
        <4>2. QED
          BY <4>1, <1>d
      <3>3. QED
        BY <3>1, <3>2
    <2>5. QED
      BY <1>5, <2>2, <2>4, <1>b, <1>c, <1>d DEF Behind, RemoveLikeSRem
  <1>6. ASSUME NEW h \in Handlers, RemoveLikeSRemFails(h) PROVE Behind(p)'
    <2>1. Owing(p)' = Owing(p)
      BY <1>6, OwingSame DEF RemoveLikeSRemFails
    <2>2. CASE UNCHANGED <<likeSet, surplus>>
      BY <1>1, <1>6, <2>1, <2>2 DEF RemoveLikeSRemFails
    <2>3. CASE /\ likeSet' = [likeSet EXCEPT ![post[h]] = @ \ {UserOf[h]}]
               /\ surplus' = [surplus EXCEPT ![post[h]] = @ + 1]
      <3>1. /\ likeSet'[p] = IF p = post[h] THEN likeSet[p] \ {UserOf[h]} ELSE likeSet[p]
            /\ surplus'[p] = IF p = post[h] THEN surplus[p] + 1 ELSE surplus[p]
        BY <2>3 DEF TypeOK
      <3>2. /\ Cardinality(likeSet'[p]) \in Nat
            /\ Cardinality(likeSet'[p]) >= Cardinality(likeSet[p]) - 1
            /\ p # post[h] => Cardinality(likeSet'[p]) = Cardinality(likeSet[p])
        <4>1. CASE p = post[h]
          <5>1. likeSet'[p] = likeSet[p] \ {UserOf[h]}
            BY <4>1, <3>1
          <5>2. QED
            BY <5>1, <4>1, <1>d, RemoveCard
        <4>2. CASE p # post[h]
          <5>1. likeSet'[p] = likeSet[p]
            BY <4>2, <3>1
          <5>2. QED
            BY <5>1, <1>d
        <4>3. QED
          BY <4>1, <4>2
      <3>3. QED
        BY <1>6, <2>1, <3>1, <3>2, <1>b, <1>c, <1>d DEF Behind, RemoveLikeSRemFails
    <2>4. QED
      BY <1>6, <2>2, <2>3 DEF RemoveLikeSRemFails
  <1>7. ASSUME NEW h \in Handlers, RemoveLikeDecr(h) \/ RemoveLikeDecrFails(h)
        PROVE  Behind(p)'
    <2>1. /\ pc[h] = "decr" /\ UNCHANGED <<post, likeSet>>
          /\ \E step \in Steps : step # "decr" /\ Goto(h, step)
      BY <1>7 DEF RemoveLikeDecr, RemoveLikeDecrFails, Steps
    <2>2. /\ h \in Owing(post[h])
          /\ Owing(p)' = IF p = post[h] THEN Owing(p) \ {h} ELSE Owing(p)
      BY <2>1, OwingLeave
    <2>3. Cardinality(Owing(p)') =
            IF p = post[h] THEN Cardinality(Owing(p)) - 1 ELSE Cardinality(Owing(p))
      BY <2>2, <1>d, FS_RemoveElement
    <2>4. Cardinality(Owing(p)') \in Nat
      BY <1>a, <2>2, <1>d, FS_RemoveElement, FS_CardinalityType
    <2>5. \/ /\ surplus'[p] = surplus[p]
             /\ likeCnt'[p] = IF p = post[h] /\ likeCnt[p] # 0
                              THEN likeCnt[p] - 1 ELSE likeCnt[p]
          \/ /\ surplus'[p] = IF p = post[h] THEN surplus[p] + 1 ELSE surplus[p]
             /\ likeCnt'[p] = likeCnt[p]
      BY <1>7 DEF RemoveLikeDecr, RemoveLikeDecrFails, TypeOK
    <2>6. QED
      BY <2>1, <2>3, <2>4, <2>5, <1>b, <1>c, <1>d DEF Behind
  <1>8. ASSUME NEW q \in Posts, SoftDelete(q) \/ ExpireCounter(q) \/ ExpireSet(q)
        PROVE  Behind(p)'
    <2>1. Owing(p)' = Owing(p)
      BY <1>8 DEF SoftDelete, ExpireCounter, ExpireSet, Owing
    <2>2. CASE SoftDelete(q)
      BY <1>1, <2>1, <2>2 DEF SoftDelete
    <2>3. CASE ExpireCounter(q)
      <3>1. /\ likeSet' = likeSet
            /\ likeCnt'[p] = IF p = q THEN 0 ELSE likeCnt[p]
            /\ surplus'[p] = IF p = q THEN 0 ELSE surplus[p]
        BY <2>3 DEF ExpireCounter, TypeOK
      <3>2. QED
        BY <2>1, <3>1, <1>b, <1>c, <1>d DEF Behind
    <2>4. CASE ExpireSet(q)
      <3>1. /\ likeCnt' = likeCnt
            /\ likeSet'[p] = IF p = q THEN {} ELSE likeSet[p]
            /\ surplus'[p] = IF p = q THEN surplus[p] + Cardinality(likeSet[p]) ELSE surplus[p]
        BY <2>4 DEF ExpireSet, TypeOK
      <3>2. Cardinality(likeSet'[p]) = IF p = q THEN 0 ELSE Cardinality(likeSet[p])
        BY <3>1, FS_EmptySet
      <3>3. QED
        BY <2>1, <3>1, <3>2, <1>b, <1>c, <1>d DEF Behind
    <2>5. QED
      BY <1>8, <2>2, <2>3, <2>4
  <1>9. CASE UNCHANGED vars
    BY <1>9, <1>1 DEF vars, Owing
  <1>10. QED
    BY <1>2, <1>3, <1>4, <1>5, <1>6, <1>7, <1>8, <1>9 DEF Next, HandlerStep, HandlerFails

\* The Redis counter never shows more likes than the set has members, up to
\* the unlikes in flight and the members lost to errors and expiry.
THEOREM CountBound == Spec => []CountNeverAhead
  <1>1. Init => CountNeverAhead
    <2> SUFFICES ASSUME Init, NEW p \in Posts PROVE Behind(p)
      BY DEF CountNeverAhead, Behind
    <2>1. Owing(p) = {} /\ likeSet[p] = {} /\ likeCnt[p] = 0 /\ surplus[p] = 0
      BY DEF Init, Owing
    <2>2. QED
      BY <2>1, FS_EmptySet DEF Behind
  <1>2. QED
    BY <1>1, TypeCorrectness, CountStep, PTL DEF Spec

-----------------------------------------------------------------------------
(***************************************************************************)
(* Posts on which nothing went wrong: the counter is exact and the events  *)
(* tell the changes of the set.                                            *)
(***************************************************************************)

\* The steps of a request whose change of the set has not been published.
Late == {"decr", "pubLike", "pubUnlike"}

\* A user has one request at a time on p, and what it is about to do or has done
\* fits the set.
Clean(p) ==
    /\ \A g, h \in Handlers :
          g # h /\ UserOf[g] = UserOf[h] /\ post[g] = p /\ post[h] = p => pc[g] = "idle" \/ pc[h] = "idle"
    /\ \A h \in Handlers : post[h] = p =>
          /\ pc[h] \in {"add", "decr", "pubUnlike"} => UserOf[h] \notin likeSet[p]
          /\ pc[h] \in {"srem", "pubLike"} => UserOf[h] \in likeSet[p]

Exact(p) == likeCnt[p] = Cardinality(likeSet[p]) + Cardinality(Owing(p))

\* The events of u tell its membership, up to a change that is about to be told.
Told(u, p) ==
    /\ Alternates(events[u][p])
    /\ \A h \in Handlers : UserOf[h] = u /\ post[h] = p =>
          /\ pc[h] = "pubLike" => Balance(u, p) = 0
          /\ pc[h] \in {"decr", "pubUnlike"} => Balance(u, p) = 1
    /\ (\A h \in Handlers : UserOf[h] = u /\ post[h] = p => pc[h] \notin Late) =>
          (Balance(u, p) = 1 <=> u \in likeSet[p])

Local(p) == Clean(p) /\ Exact(p) /\ \A u \in Users : Told(u, p)

LocalInv == \A p \in Posts \ spoiled : Local(p)

\* The lengths of the event sequences are natural numbers.
LEMMA EventTypes ==
    ASSUME TypeOK, NEW u \in Users, NEW p \in Posts
    PROVE  /\ events[u][p] \in Seq({"like", "unlike"}) /\ Len(events[u][p]) \in Nat
           /\ Balance(u, p) = 0 \/ Balance(u, p) = 1
  <1>1. events[u][p] \in Seq({"like", "unlike"})
    BY DEF TypeOK
  <1>2. Len(events[u][p]) \in Nat
    BY <1>1
  <1>3. \A n \in Nat : n % 2 = 0 \/ n % 2 = 1
    OBVIOUS
  <1>4. QED
    BY <1>1, <1>2, <1>3 DEF Balance

\* An event that fits the balance continues the alternation.
LEMMA AlternatesOn ==
    ASSUME NEW q \in Seq({"like", "unlike"}), Alternates(q), NEW kind,
           kind = IF Len(q) % 2 = 0 THEN "like" ELSE "unlike"
    PROVE  /\ Alternates(Append(q, kind))
           /\ Len(q) % 2 = 0 => Len(Append(q, kind)) % 2 = 1
           /\ Len(q) % 2 = 1 => Len(Append(q, kind)) % 2 = 0
  <1>0. Len(q) \in Nat /\ kind \in {"like", "unlike"} /\ DOMAIN q = 1..Len(q)
    OBVIOUS
  <1> DEFINE s == Append(q, kind)
  <1>1. /\ Len(s) = Len(q) + 1 /\ DOMAIN s = 1..(Len(q) + 1)
        /\ \A i \in 1..Len(q) : s[i] = q[i]
        /\ s[Len(q) + 1] = kind
    BY <1>0
  <1> HIDE DEF s
  <1>2. (Len(q) + 1) % 2 = 1 <=> Len(q) % 2 = 0
    BY <1>0
  <1>3. (Len(q) % 2 = 1 => (Len(q) + 1) % 2 = 0) /\ (Len(q) % 2 = 0 \/ Len(q) % 2 = 1)
    BY <1>0
  <1>4. ASSUME NEW i \in DOMAIN s
        PROVE  s[i] = IF i % 2 = 1 THEN "like" ELSE "unlike"
    <2>1. CASE i = Len(q) + 1
      BY <1>1, <1>2, <2>1
    <2>2. CASE i # Len(q) + 1
      <3>1. i \in 1..Len(q)
        BY <1>0, <1>1, <2>2
      <3>2. QED
        BY <1>0, <1>1, <3>1 DEF Alternates
    <2>3. QED
      BY <2>1, <2>2
  <1>5. Alternates(s)
    BY <1>4 DEF Alternates
  <1>6. QED
    BY <1>1, <1>2, <1>3, <1>5 DEF s

\* What publishing does to the events.
LEMMA PublishEffect ==
    ASSUME TypeOK, NEW h \in Handlers, NEW kind, Publish(h, kind), NEW u \in Users, NEW p \in Posts
    PROVE  events'[u][p] = IF u = UserOf[h] /\ p = post[h] THEN Append(events[u][p], kind) ELSE events[u][p]
  <1> DEFINE me == UserOf[h]
             here == post[h]
             line == [events[me] EXCEPT ![here] = Append(@, kind)]
  <1>1. me \in Users /\ here \in Posts
    BY LikeServiceAssumption DEF TypeOK
  <1>2. events' = [events EXCEPT ![me] = line]
    BY DEF Publish
  <1>3. DOMAIN events = Users /\ DOMAIN events[me] = Posts
    BY <1>1 DEF TypeOK
  <1> HIDE DEF me, here
  <1>4. line[p] = IF p = here THEN Append(events[me][p], kind) ELSE events[me][p]
    BY <1>3
  <1> HIDE DEF line
  <1>5. events'[u] = IF u = me THEN line ELSE events[u]
    BY <1>2, <1>3
  <1>6. QED
    BY <1>4, <1>5 DEF me, here

\* A step of a request on another post.
LEMMA Elsewhere ==
    ASSUME TypeOK, NEW h \in Handlers, HandlerStep(h) \/ HandlerFails(h), NEW p \in Posts, p # post[h], Local(p)
    PROVE  Local(p)'
  <1>1. post' = post /\ \A g \in Handlers : g # h => pc'[g] = pc[g]
    BY DEF HandlerStep, HandlerFails, FindByID, HasLiked, AddLike, RemoveLikeSRem, RemoveLikeDecr,
           PublishLikeEvent, PublishUnlikeEvent, Publish, ReadFails, AddLikeFails, RemoveLikeSRemFails,
           RemoveLikeDecrFails, PublishFails, Goto, TypeOK
  <1>2. likeSet'[p] = likeSet[p] /\ likeCnt'[p] = likeCnt[p]
    <2>1. CASE AddLike(h) \/ AddLikeFails(h)
      BY <2>1 DEF AddLike, AddLikeFails, AddLikeScript, TypeOK
    <2>2. CASE RemoveLikeSRem(h) \/ RemoveLikeSRemFails(h) \/ RemoveLikeDecr(h) \/ RemoveLikeDecrFails(h)
      BY <2>2 DEF RemoveLikeSRem, RemoveLikeSRemFails, RemoveLikeDecr, RemoveLikeDecrFails, TypeOK
    <2>3. QED
      BY <2>1, <2>2 DEF HandlerStep, HandlerFails, FindByID, HasLiked, PublishLikeEvent, PublishUnlikeEvent,
             Publish, ReadFails, PublishFails
  <1>3. \A u \in Users : events'[u][p] = events[u][p]
    <2>1. CASE PublishLikeEvent(h) \/ PublishUnlikeEvent(h)
      BY <2>1, PublishEffect DEF PublishLikeEvent, PublishUnlikeEvent
    <2>2. CASE UNCHANGED events
      BY <2>2
    <2>3. QED
      BY <2>1, <2>2 DEF HandlerStep, HandlerFails, FindByID, HasLiked, AddLike, RemoveLikeSRem, RemoveLikeDecr,
             ReadFails, AddLikeFails, RemoveLikeSRemFails, RemoveLikeDecrFails, PublishFails
  <1>4. Owing(p)' = Owing(p)
    BY <1>1 DEF Owing
  <1>5. Clean(p)'
    BY <1>1, <1>2 DEF Clean, Local
  <1>6. Exact(p)'
    BY <1>2, <1>4 DEF Exact, Local
  <1>7. ASSUME NEW u \in Users PROVE Told(u, p)'
    BY <1>1, <1>2, <1>3 DEF Told, Local, Balance
  <1>8. QED
    BY <1>5, <1>6, <1>7 DEF Local

\* A step of a request that changes nothing but where it stands.
LEMMA MovesOnly ==
    ASSUME TypeOK, NEW h \in Handlers, NEW step, Goto(h, step), NEW p \in Posts, Local(p),
           pc[h] \notin Late, step \notin Late, UNCHANGED <<post, likeSet, likeCnt, events>>,
           pc[h] # "idle" \/ step = "idle",
           post[h] = p /\ step = "add" => UserOf[h] \notin likeSet[p],
           post[h] = p /\ step = "srem" => UserOf[h] \in likeSet[p]
    PROVE  Local(p)'
  <1>1. pc'[h] = step /\ \A g \in Handlers : g # h => pc'[g] = pc[g]
    BY DEF Goto, TypeOK
  <1>2. Owing(p)' = Owing(p)
    BY <1>1 DEF Owing, Late
  <1>3. Clean(p)'
    BY <1>1 DEF Clean, Local, Late
  <1>4. Exact(p)'
    BY <1>2 DEF Exact, Local
  <1>5. ASSUME NEW u \in Users PROVE Told(u, p)'
    BY <1>1 DEF Told, Local, Balance, Late
  <1>6. QED
    BY <1>3, <1>4, <1>5 DEF Local

\* A request that begins alone.
LEMMA BeginsClean ==
    ASSUME TypeOK, NEW h \in Handlers, NEW q \in Posts, BeginRequest(h, q), NEW p \in Posts, p \notin spoiled',
           Local(p)
    PROVE  Local(p)'
  <1>1. PICK step \in {"findLike", "findUnlike"} : Goto(h, step)
    BY DEF BeginRequest
  <1>2. /\ pc'[h] = step /\ pc[h] = "idle" /\ post'[h] = q
        /\ \A g \in Handlers : g # h => pc'[g] = pc[g] /\ post'[g] = post[g]
    BY <1>1 DEF Goto, TypeOK, BeginRequest
  <1>3. UNCHANGED <<likeSet, likeCnt, events>> /\ (p = q => ~Overlaps(h, p))
    BY DEF BeginRequest
  <1>4. Owing(p)' = Owing(p)
    BY <1>2 DEF Owing
  <1>5. Clean(p)'
    <2>1. ASSUME NEW g \in Handlers, NEW k \in Handlers, g # k, UserOf[g] = UserOf[k], post'[g] = p, post'[k] = p
          PROVE  pc'[g] = "idle" \/ pc'[k] = "idle"
      BY <1>2, <1>3, <2>1 DEF Clean, Local, Overlaps
    <2>2. ASSUME NEW g \in Handlers, post'[g] = p
          PROVE  /\ pc'[g] \in {"add", "decr", "pubUnlike"} => UserOf[g] \notin likeSet[p]
                 /\ pc'[g] \in {"srem", "pubLike"} => UserOf[g] \in likeSet[p]
      BY <1>2, <2>2 DEF Clean, Local
    <2>3. QED
      BY <1>3, <2>1, <2>2 DEF Clean
  <1>6. Exact(p)'
    BY <1>3, <1>4 DEF Exact, Local
  <1>7. ASSUME NEW u \in Users PROVE Told(u, p)'
    BY <1>2, <1>3 DEF Told, Local, Balance, Late
  <1>8. QED
    BY <1>5, <1>6, <1>7 DEF Local

\* AddLike by a user alone on the post: the member is new and so is the INCR.
LEMMA AddsClean ==
    ASSUME TypeOK, TypeOK', NEW h \in Handlers, AddLike(h), NEW p \in Posts, p = post[h], Local(p)
    PROVE  Local(p)'
  <1> DEFINE me == UserOf[h]
  <1>0. me \in Users
    BY LikeServiceAssumption
  <1>1. /\ pc[h] = "add" /\ pc'[h] = "pubLike" /\ UNCHANGED <<post, events>>
        /\ \A g \in Handlers : g # h => pc'[g] = pc[g]
    BY DEF AddLike, Goto, TypeOK
  <1>2. me \notin likeSet[p]
    BY <1>1 DEF Local, Clean
  <1>3. likeSet'[p] = likeSet[p] \cup {me} /\ likeCnt'[p] = likeCnt[p] + 1
    BY <1>2 DEF AddLike, AddLikeScript, TypeOK
  <1>4. \A g \in Handlers : g # h /\ UserOf[g] = me /\ post[g] = p => pc[g] = "idle"
    BY <1>1 DEF Local, Clean
  <1>5. Clean(p)'
    <2>1. \A g, k \in Handlers :
             g # k /\ UserOf[g] = UserOf[k] /\ post[g] = p /\ post[k] = p => pc'[g] = "idle" \/ pc'[k] = "idle"
      BY <1>1, <1>4 DEF Local, Clean
    <2>2. ASSUME NEW g \in Handlers, post[g] = p
          PROVE  /\ pc'[g] \in {"add", "decr", "pubUnlike"} => UserOf[g] \notin likeSet'[p]
                 /\ pc'[g] \in {"srem", "pubLike"} => UserOf[g] \in likeSet'[p]
      BY <1>1, <1>3, <1>4, <2>2 DEF Local, Clean
    <2>3. QED
      BY <1>1, <2>1, <2>2 DEF Clean
  <1>6. Exact(p)'
    <2>1. Owing(p)' = Owing(p)
      BY <1>1 DEF Owing
    <2>2. /\ IsFiniteSet(likeSet[p]) /\ Cardinality(likeSet[p]) \in Nat /\ Cardinality(Owing(p)) \in Nat
      BY Finite
    <2>3. Cardinality(likeSet'[p]) = Cardinality(likeSet[p]) + 1
      <3>1. PICK S, x : S = likeSet[p] /\ x = me
        OBVIOUS
      <3>2. likeSet'[p] = S \cup {x} /\ x \notin S /\ IsFiniteSet(S)
        BY <1>2, <1>3, <2>2, <3>1
      <3>3. Cardinality(S \cup {x}) = Cardinality(S) + 1
        BY <3>2, FS_AddElement
      <3>4. QED
        BY <3>1, <3>2, <3>3
    <2>4. QED
      BY <1>3, <2>1, <2>2, <2>3 DEF Exact, Local
  <1>7. ASSUME NEW u \in Users PROVE Told(u, p)'
    <2>1. CASE u = me
      <3>1. \A g \in Handlers : UserOf[g] = u /\ post[g] = p => pc[g] \notin Late
        BY <1>1, <1>4, <2>1 DEF Late
      <3>2. Balance(u, p) = 0
        BY <1>2, <2>1, <3>1, EventTypes DEF Local, Told
      <3>3. \A g \in Handlers : UserOf[g] = u /\ post[g] = p => g = h \/ pc'[g] = "idle"
        BY <1>1, <1>4, <2>1
      <3>4. Balance(u, p)' = 0 /\ Alternates(events'[u][p])
        BY <1>1, <3>2 DEF Balance, Local, Told
      <3>5. QED
        BY <1>1, <2>1, <3>3, <3>4 DEF Told, Late
    <2>2. CASE u # me
      BY <1>1, <1>3, <2>2 DEF Told, Local, Balance
    <2>3. QED
      BY <2>1, <2>2
  <1>8. QED
    BY <1>5, <1>6, <1>7 DEF Local

\* SREM by a user alone on the post: the member leaves and is owed for.
LEMMA RemovesClean ==
    ASSUME TypeOK, TypeOK', NEW h \in Handlers, RemoveLikeSRem(h), NEW p \in Posts, p = post[h], Local(p)
    PROVE  Local(p)'
  <1> DEFINE me == UserOf[h]
  <1>0. me \in Users
    BY LikeServiceAssumption
  <1>1. /\ pc[h] = "srem" /\ pc'[h] = "decr" /\ UNCHANGED <<post, events, likeCnt>>
        /\ \A g \in Handlers : g # h => pc'[g] = pc[g]
    BY DEF RemoveLikeSRem, Goto, TypeOK
  <1>2. me \in likeSet[p]
    BY <1>1 DEF Local, Clean
  <1>3. likeSet'[p] = likeSet[p] \ {me}
    BY DEF RemoveLikeSRem, TypeOK
  <1>4. \A g \in Handlers : g # h /\ UserOf[g] = me /\ post[g] = p => pc[g] = "idle"
    BY <1>1 DEF Local, Clean
  <1>5. Clean(p)'
    <2>1. \A g, k \in Handlers :
             g # k /\ UserOf[g] = UserOf[k] /\ post[g] = p /\ post[k] = p => pc'[g] = "idle" \/ pc'[k] = "idle"
      BY <1>1, <1>4 DEF Local, Clean
    <2>2. ASSUME NEW g \in Handlers, post[g] = p
          PROVE  /\ pc'[g] \in {"add", "decr", "pubUnlike"} => UserOf[g] \notin likeSet'[p]
                 /\ pc'[g] \in {"srem", "pubLike"} => UserOf[g] \in likeSet'[p]
      BY <1>1, <1>3, <1>4, <2>2 DEF Local, Clean
    <2>3. QED
      BY <1>1, <2>1, <2>2 DEF Clean
  <1>6. Exact(p)'
    <2>1. h \notin Owing(p) /\ Owing(p)' = Owing(p) \cup {h}
      BY <1>1, OwingEnter DEF RemoveLikeSRem
    <2>2. /\ IsFiniteSet(likeSet[p]) /\ Cardinality(likeSet[p]) \in Nat
          /\ IsFiniteSet(Owing(p)) /\ Cardinality(Owing(p)) \in Nat
      BY Finite
    <2>3. Cardinality(likeSet'[p]) = Cardinality(likeSet[p]) - 1
      <3>1. PICK S, x : S = likeSet[p] /\ x = me
        OBVIOUS
      <3>2. likeSet'[p] = S \ {x} /\ x \in S /\ IsFiniteSet(S)
        BY <1>2, <1>3, <2>2, <3>1
      <3>3. Cardinality(S \ {x}) = Cardinality(S) - 1
        BY <3>2, FS_RemoveElement
      <3>4. QED
        BY <3>1, <3>2, <3>3
    <2>4. Cardinality(Owing(p)') = Cardinality(Owing(p)) + 1
      BY <2>1, <2>2, FS_AddElement
    <2>5. QED
      BY <1>1, <2>2, <2>3, <2>4 DEF Exact, Local
  <1>7. ASSUME NEW u \in Users PROVE Told(u, p)'
    <2>1. CASE u = me
      <3>1. \A g \in Handlers : UserOf[g] = u /\ post[g] = p => pc[g] \notin Late
        BY <1>1, <1>4, <2>1 DEF Late
      <3>2. Balance(u, p) = 1
        BY <1>2, <2>1, <3>1 DEF Local, Told
      <3>3. \A g \in Handlers : UserOf[g] = u /\ post[g] = p => g = h \/ pc'[g] = "idle"
        BY <1>1, <1>4, <2>1
      <3>4. Balance(u, p)' = 1 /\ Alternates(events'[u][p])
        BY <1>1, <3>2 DEF Balance, Local, Told
      <3>5. QED
        BY <1>1, <2>1, <3>3, <3>4 DEF Told, Late
    <2>2. CASE u # me
      BY <1>1, <1>3, <2>2 DEF Told, Local, Balance
    <2>3. QED
      BY <2>1, <2>2
  <1>8. QED
    BY <1>5, <1>6, <1>7 DEF Local

\* The DECR: the member that is owed for keeps the counter above zero.
LEMMA DecrementsClean ==
    ASSUME TypeOK, TypeOK', NEW h \in Handlers, RemoveLikeDecr(h), NEW p \in Posts, p = post[h], Local(p)
    PROVE  Local(p)'
  <1>1. /\ pc[h] = "decr" /\ pc'[h] = "pubUnlike" /\ UNCHANGED <<post, events, likeSet>>
        /\ \A g \in Handlers : g # h => pc'[g] = pc[g]
    BY DEF RemoveLikeDecr, Goto, TypeOK
  <1>2. likeCnt'[p] = IF likeCnt[p] = 0 THEN 0 ELSE likeCnt[p] - 1
    BY DEF RemoveLikeDecr, TypeOK
  <1>3. Clean(p)'
    BY <1>1 DEF Local, Clean
  <1>4. Exact(p)'
    <2>1. h \in Owing(p) /\ Owing(p)' = Owing(p) \ {h}
      BY <1>1, OwingLeave DEF RemoveLikeDecr
    <2>2. /\ Cardinality(likeSet[p]) \in Nat /\ IsFiniteSet(Owing(p)) /\ Cardinality(Owing(p)) \in Nat
      BY Finite
    <2>3. Cardinality(Owing(p)') = Cardinality(Owing(p)) - 1
      BY <2>1, <2>2, FS_RemoveElement
    <2>4. Cardinality(Owing(p)) # 0
      BY <2>1, <2>2, FS_EmptySet
    <2>5. QED
      BY <1>1, <1>2, <2>2, <2>3, <2>4 DEF Exact, Local
  <1>5. ASSUME NEW u \in Users PROVE Told(u, p)'
    BY <1>1 DEF Told, Local, Balance, Late
  <1>6. QED
    BY <1>3, <1>4, <1>5 DEF Local

\* An event is published for the change just made, by the user's only request.
LEMMA PublishesClean ==
    ASSUME TypeOK, TypeOK', NEW h \in Handlers, PublishLikeEvent(h) \/ PublishUnlikeEvent(h),
           NEW p \in Posts, p = post[h], Local(p)
    PROVE  Local(p)'
  <1> DEFINE me == UserOf[h]
  <1>0. me \in Users
    BY LikeServiceAssumption
  <1>1. PICK kind \in {"like", "unlike"} :
           /\ Publish(h, kind)
           /\ kind = "like" => pc[h] = "pubLike"
           /\ kind = "unlike" => pc[h] = "pubUnlike"
    BY DEF PublishLikeEvent, PublishUnlikeEvent
  <1>2. /\ pc'[h] = "idle" /\ UNCHANGED <<post, likeSet, likeCnt>>
        /\ \A g \in Handlers : g # h => pc'[g] = pc[g]
    BY <1>1 DEF Publish, Goto, TypeOK
  <1>3. pc[h] \in {"pubLike", "pubUnlike"}
    BY <1>1
  <1>4. \A g \in Handlers : g # h /\ UserOf[g] = me /\ post[g] = p => pc[g] = "idle"
    BY <1>3 DEF Local, Clean
  <1>5. Clean(p)'
    BY <1>2 DEF Local, Clean
  <1>6. Exact(p)'
    <2>1. Owing(p)' = Owing(p)
      BY <1>2, <1>3 DEF Owing
    <2>2. QED
      BY <1>2, <2>1 DEF Exact, Local
  <1>7. Told(me, p)'
    <2>1. /\ events'[me][p] = Append(events[me][p], kind)
      BY <1>0, <1>1, PublishEffect
    <2>2. events[me][p] \in Seq({"like", "unlike"}) /\ Alternates(events[me][p])
      BY <1>0, EventTypes DEF Local, Told
    <2>3. /\ kind = "like" => Balance(me, p) = 0 /\ me \in likeSet[p]
          /\ kind = "unlike" => Balance(me, p) = 1 /\ me \notin likeSet[p]
      BY <1>0, <1>1 DEF Local, Told, Clean
    <2>4. kind = IF Len(events[me][p]) % 2 = 0 THEN "like" ELSE "unlike"
      <3>1. PICK b : b = Len(events[me][p]) % 2
        OBVIOUS
      <3>2. (kind = "like" => b = 0) /\ (kind = "unlike" => b = 1)
        BY <2>3, <3>1 DEF Balance
      <3>3. kind = IF b = 0 THEN "like" ELSE "unlike"
        BY <3>2
      <3>4. QED
        BY <3>1, <3>3
    <2>5. /\ Alternates(events'[me][p])
          /\ kind = "like" => Len(events'[me][p]) % 2 = 1
          /\ kind = "unlike" => Len(events'[me][p]) % 2 = 0
      <3> DEFINE q == events[me][p]
      <3>1. q \in Seq({"like", "unlike"}) /\ Alternates(q) /\ events'[me][p] = Append(q, kind)
            /\ kind = IF Len(q) % 2 = 0 THEN "like" ELSE "unlike"
        BY <2>1, <2>2, <2>4
      <3>2. (kind = "like" => Len(q) % 2 = 0) /\ (kind = "unlike" => Len(q) % 2 = 1)
        BY <2>3 DEF Balance
      <3> HIDE DEF q
      <3>3. QED
        BY <3>1, <3>2, AlternatesOn
    <2>6. \A g \in Handlers : UserOf[g] = me /\ post'[g] = p => pc'[g] = "idle"
      BY <1>2, <1>4
    <2>7. Balance(me, p)' = 1 <=> me \in likeSet'[p]
      <3>1. PICK b : b = Len(events'[me][p]) % 2
        OBVIOUS
      <3>2. (kind = "like" => b = 1) /\ (kind = "unlike" => b = 0)
        BY <2>5, <3>1
      <3>3. b = 1 <=> me \in likeSet'[p]
        BY <1>2, <2>3, <3>2
      <3>4. QED
        BY <3>1, <3>3 DEF Balance
    <2>8. QED
      BY <2>5, <2>6, <2>7 DEF Told
  <1>8. ASSUME NEW u \in Users, u # me PROVE Told(u, p)'
    <2>1. events'[u][p] = events[u][p]
      BY <1>1, <1>8, PublishEffect
    <2>2. QED
      BY <1>2, <1>8, <2>1 DEF Told, Local, Balance
  <1>9. QED
    BY <1>5, <1>6, <1>7, <1>8 DEF Local

\* Every step keeps it.
LEMMA LocalStep == TypeOK /\ LocalInv /\ [Next]_vars => LocalInv'
  <1> SUFFICES ASSUME TypeOK, LocalInv, [Next]_vars, NEW p \in Posts, p \notin spoiled'
               PROVE  Local(p)'
    BY DEF LocalInv
  <1>a. TypeOK'
    BY TypeStep
  <1>b. spoiled \subseteq spoiled'
    BY DEF Next, HandlerStep, HandlerFails, BeginRequest, FindByID, HasLiked, AddLike, RemoveLikeSRem,
           RemoveLikeDecr, PublishLikeEvent, PublishUnlikeEvent, Publish, ReadFails, AddLikeFails,
           RemoveLikeSRemFails, RemoveLikeDecrFails, PublishFails, SoftDelete, ExpireCounter, ExpireSet,
           Spoil, vars
  <1>c. Local(p)
    BY <1>b DEF LocalInv
  <1>1. ASSUME NEW h \in Handlers, NEW q \in Posts, BeginRequest(h, q)
        PROVE  Local(p)'
    BY <1>1, <1>c, BeginsClean
  <1>2. ASSUME NEW h \in Handlers, HandlerStep(h) \/ HandlerFails(h)
        PROVE  Local(p)'
    <2>1. CASE p # post[h]
      BY <1>2, <1>c, <2>1, Elsewhere
    <2>2. CASE p = post[h]
      <3>1. CASE FindByID(h) \/ ReadFails(h)
        <4>1. \E step : /\ Goto(h, step) /\ step \in {"probeLike", "probeUnlike", "idle"}
                        /\ pc[h] \in {"findLike", "findUnlike", "probeLike", "probeUnlike"}
          BY <3>1 DEF FindByID, ReadFails
        <4>2. UNCHANGED <<post, likeSet, likeCnt, events>>
          BY <3>1 DEF FindByID, ReadFails
        <4>3. QED
          BY <1>c, <4>1, <4>2, MovesOnly DEF Late
      <3>2. CASE HasLiked(h)
        <4>1. \E step : /\ Goto(h, step) /\ step \in {"add", "srem", "idle"}
                        /\ pc[h] \in {"probeLike", "probeUnlike"}
                        /\ step = "add" => UserOf[h] \notin likeSet[post[h]]
                        /\ step = "srem" => UserOf[h] \in likeSet[post[h]]
          BY <3>2 DEF HasLiked
        <4>2. UNCHANGED <<post, likeSet, likeCnt, events>>
          BY <3>2 DEF HasLiked
        <4>3. QED
          BY <1>c, <2>2, <4>1, <4>2, MovesOnly DEF Late
      <3>3. CASE AddLike(h)
        BY <1>a, <1>c, <2>2, <3>3, AddsClean
      <3>4. CASE RemoveLikeSRem(h)
        BY <1>a, <1>c, <2>2, <3>4, RemovesClean
      <3>5. CASE RemoveLikeDecr(h)
        BY <1>a, <1>c, <2>2, <3>5, DecrementsClean
      <3>6. CASE PublishLikeEvent(h) \/ PublishUnlikeEvent(h)
        BY <1>a, <1>c, <2>2, <3>6, PublishesClean
      <3>7. CASE AddLikeFails(h) \/ RemoveLikeSRemFails(h) \/ RemoveLikeDecrFails(h) \/ PublishFails(h)
        BY <2>2, <3>7 DEF AddLikeFails, RemoveLikeSRemFails, RemoveLikeDecrFails, PublishFails, Spoil
      <3>8. QED
        BY <1>2, <3>1, <3>2, <3>3, <3>4, <3>5, <3>6, <3>7 DEF HandlerStep, HandlerFails
    <2>3. QED
      BY <2>1, <2>2
  <1>3. ASSUME NEW q \in Posts, SoftDelete(q) \/ ExpireCounter(q) \/ ExpireSet(q)
        PROVE  Local(p)'
    <2>1. UNCHANGED <<pc, post, events>> /\ likeSet'[p] = likeSet[p] /\ likeCnt'[p] = likeCnt[p]
      BY <1>3 DEF SoftDelete, ExpireCounter, ExpireSet, Spoil, TypeOK
    <2>2. QED
      BY <1>c, <2>1 DEF Local, Clean, Exact, Told, Owing, Balance
  <1>4. CASE UNCHANGED vars
    BY <1>4, <1>c DEF vars, Local, Clean, Exact, Told, Owing, Balance
  <1>5. QED
    BY <1>1, <1>2, <1>3, <1>4 DEF Next

\* On posts where nothing went wrong, everything fits.
LEMMA LocalInvariance == Spec => []LocalInv
  <1>1. Init => LocalInv
    <2> SUFFICES ASSUME Init, NEW p \in Posts PROVE Local(p)
      BY DEF LocalInv
    <2>1. Clean(p)
      BY DEF Init, Clean
    <2>2. Exact(p)
      <3>1. Owing(p) = {} /\ likeSet[p] = {} /\ likeCnt[p] = 0
        BY DEF Init, Owing
      <3>2. QED
        BY <3>1, FS_EmptySet DEF Exact
    <2>3. ASSUME NEW u \in Users PROVE Told(u, p)
      <3>1. events[u][p] = <<>> /\ likeSet[p] = {} /\ \A h \in Handlers : pc[h] = "idle"
        BY DEF Init
      <3>2. Balance(u, p) = 0 /\ Alternates(events[u][p])
        BY <3>1 DEF Balance, Alternates
      <3>3. QED
        BY <3>1, <3>2 DEF Told
    <2>4. QED
      BY <2>1, <2>2, <2>3 DEF Local
  <1>2. QED
    BY <1>1, TypeCorrectness, LocalStep, PTL DEF Spec

\* CountExact (like_service.go Like and Unlike over like_cache.go AddLike and
\* RemoveLike): without overlapping requests of one user, errors and expiry the
\* counter of a post is exact, whatever the other users do.
THEOREM CountIsExact == Spec => []CountExact
  <1>1. LocalInv => CountExact
    BY DEF LocalInv, Local, Exact, CountExact
  <1>2. QED
    BY <1>1, LocalInvariance, PTL

\* EventsReflectStateChanges (like_service.go:14-18): under the same conditions the
\* events of a user on a post alternate, and add up to its membership once its
\* requests are over.
THEOREM EventsTellChanges == Spec => []EventsReflectStateChanges
  <1>1. LocalInv => EventsReflectStateChanges
    BY DEF LocalInv, Local, Told, EventsReflectStateChanges, Late
  <1>2. QED
    BY <1>1, LocalInvariance, PTL

=============================================================================
