--------------------------- MODULE LikeFlushProofs ---------------------------
(***************************************************************************)
(* Proofs about LikeFlush, for any users, finitely many posts, any batch   *)
(* size and any number of events and failures: which rows the table holds, *)
(* that the counts are the rows, and that they add up.                     *)
(***************************************************************************)
EXTENDS LikeFlush, TLAPS, FiniteSetTheorems, SequenceTheorems, NaturalsInduction,
        WellFoundedInduction

-----------------------------------------------------------------------------
(***************************************************************************)
(* State that every step keeps.                                            *)
(***************************************************************************)

BaseInv ==
    /\ likes \subseteq Pairs /\ IsFiniteSet(likes)
    /\ likeBuf \in Seq(Pairs) /\ unlikeBuf \in Seq(Pairs)
    /\ step \in Steps
    /\ step \in {"delete", "decr"} => likeBuf = <<>>
    /\ faults \in Nat
    /\ partial \in BOOLEAN
    /\ last \in [Pairs -> {"none", "like", "unlike"}]

\* The range of a sequence is finite, and so is the empty one's.
LEMMA RangeFinite ==
    ASSUME NEW S, NEW q \in Seq(S)
    PROVE  /\ IsFiniteSet(Range(q)) /\ Range(q) \subseteq S
           /\ q = <<>> => Range(q) = {}
  <1>1. DOMAIN q = 1..Len(q) /\ Len(q) \in Nat /\ q \in [1..Len(q) -> S]
    OBVIOUS
  <1>2. Range(q) \subseteq S
    BY <1>1 DEF Range
  <1>3. IsFiniteSet(1..Len(q))
    BY <1>1, FS_Interval
  <1>4. q \in Surjection(1..Len(q), Range(q))
    BY <1>1 DEF Surjection, Range
  <1>5. IsFiniteSet(Range(q))
    BY <1>3, <1>4, FS_Surjection
  <1>6. q = <<>> => Range(q) = {}
    BY DEF Range
  <1>7. QED
    BY <1>2, <1>5, <1>6

\* The range of a sequence with one more.
LEMMA RangeAppend ==
    ASSUME NEW S, NEW q \in Seq(S), NEW x \in S
    PROVE  Range(Append(q, x)) = Range(q) \cup {x} /\ Append(q, x) \in Seq(S)
  <1> DEFINE s == Append(q, x)
  <1>1. DOMAIN q = 1..Len(q) /\ Len(q) \in Nat
    OBVIOUS
  <1>2. /\ s \in Seq(S) /\ DOMAIN s = 1..(Len(q) + 1) /\ s[Len(q) + 1] = x
        /\ \A i \in 1..Len(q) : s[i] = q[i]
    BY <1>1
  <1> HIDE DEF s
  <1>3. \A i : i \in 1..(Len(q) + 1) <=> i \in 1..Len(q) \/ i = Len(q) + 1
    BY <1>1
  <1>4. Range(s) = Range(q) \cup {x}
    BY <1>1, <1>2, <1>3 DEF Range
  <1>5. QED
    BY <1>2, <1>4 DEF s

\* What receiving an event does to the buffers.
LEMMA Receives ==
    ASSUME BaseInv, NEW x \in Pairs, NEW kind \in {"like", "unlike"}, LoopRecv(x, kind)
    PROVE  /\ likeBuf' \in Seq(Pairs) /\ unlikeBuf' \in Seq(Pairs)
           /\ Range(likeBuf') = IF kind = "like" THEN Range(likeBuf) \cup {x} ELSE Range(likeBuf)
           /\ Range(unlikeBuf') = IF kind = "unlike" THEN Range(unlikeBuf) \cup {x} ELSE Range(unlikeBuf)
  <1>1. /\ likeBuf' = IF kind = "like" THEN Append(likeBuf, x) ELSE likeBuf
        /\ unlikeBuf' = IF kind = "unlike" THEN Append(unlikeBuf, x) ELSE unlikeBuf
    BY DEF LoopRecv
  <1>2. likeBuf \in Seq(Pairs) /\ unlikeBuf \in Seq(Pairs)
    BY DEF BaseInv
  <1>3. CASE kind = "like"
    <2>1. likeBuf' = Append(likeBuf, x) /\ unlikeBuf' = unlikeBuf
      BY <1>1, <1>3
    <2>2. Range(Append(likeBuf, x)) = Range(likeBuf) \cup {x} /\ Append(likeBuf, x) \in Seq(Pairs)
      BY <1>2, RangeAppend
    <2>3. QED
      BY <1>2, <1>3, <2>1, <2>2, Zenon
  <1>4. CASE kind = "unlike"
    <2>1. unlikeBuf' = Append(unlikeBuf, x) /\ likeBuf' = likeBuf
      BY <1>1, <1>4
    <2>2. Range(Append(unlikeBuf, x)) = Range(unlikeBuf) \cup {x} /\ Append(unlikeBuf, x) \in Seq(Pairs)
      BY <1>2, RangeAppend
    <2>3. QED
      BY <1>2, <1>4, <2>1, <2>2, Zenon
  <1>5. QED
    BY <1>3, <1>4

\* Every step keeps the types that matter here.
LEMMA BaseStep == BaseInv /\ [Next]_vars => BaseInv'
  <1> SUFFICES ASSUME BaseInv, [Next]_vars PROVE BaseInv'
    OBVIOUS
  <1>0. /\ likes \subseteq Pairs /\ IsFiniteSet(likes) /\ likeBuf \in Seq(Pairs) /\ unlikeBuf \in Seq(Pairs)
        /\ faults \in Nat /\ <<>> \in Seq(Pairs)
        /\ "insert" \in Steps /\ "incr" \in Steps /\ "delete" \in Steps
        /\ "decr" \in Steps /\ "select" \in Steps
    BY DEF BaseInv, Steps
  <1>r. /\ IsFiniteSet(Range(likeBuf)) /\ Range(likeBuf) \subseteq Pairs
        /\ IsFiniteSet(Range(unlikeBuf)) /\ Range(unlikeBuf) \subseteq Pairs
    BY <1>0, RangeFinite
  <1>u. /\ IsFiniteSet(likes \cup Range(likeBuf)) /\ likes \cup Range(likeBuf) \subseteq Pairs
        /\ IsFiniteSet(likes \ Range(unlikeBuf)) /\ likes \ Range(unlikeBuf) \subseteq Pairs
    BY <1>0, <1>r, FS_Union, FS_Difference
  <1>1. ASSUME NEW x \in Pairs, NEW kind \in {"like", "unlike"}, LoopRecv(x, kind)
        PROVE  BaseInv'
    <2>1. likeBuf' \in Seq(Pairs) /\ unlikeBuf' \in Seq(Pairs)
      BY <1>1, Receives
    <2>2. last' \in [Pairs -> {"none", "like", "unlike"}]
      BY <1>1 DEF LoopRecv, BaseInv
    <2>3. step' \in {"select", "insert"} /\ UNCHANGED <<likes, faults, partial>>
      BY <1>1 DEF LoopRecv, StartFlush
    <2>4. QED
      BY <1>0, <2>1, <2>2, <2>3 DEF BaseInv
  <1>2. CASE LoopTick
    BY <1>0, <1>2 DEF LoopTick, StartFlush, BaseInv
  <1>3. CASE BatchInsert
    <2>1. partial' \in BOOLEAN
      BY <1>3 DEF BatchInsert, Apportion
    <2>2. QED
      BY <1>0, <1>3, <1>u, <2>1 DEF BatchInsert, BaseInv
  <1>4. CASE BatchDelete
    <2>1. partial' \in BOOLEAN
      BY <1>4 DEF BatchDelete, Apportion
    <2>2. QED
      BY <1>0, <1>4, <1>u, <2>1 DEF BatchDelete, BaseInv
  <1>5. ASSUME NEW p \in Posts, IncrPostLikeCount(p) \/ DecrPostLikeCount(p)
        PROVE  BaseInv'
    BY <1>5 DEF IncrPostLikeCount, DecrPostLikeCount, UpdatePost, BaseInv
  <1>6. CASE LikesFlushed
    BY <1>0, <1>6 DEF LikesFlushed, EndLikes, BaseInv
  <1>7. CASE UnlikesFlushed
    BY <1>0, <1>7 DEF UnlikesFlushed, EndUnlikes, BaseInv
  <1>8. CASE BatchInsertFails
    <2>1. likes' \subseteq Pairs /\ IsFiniteSet(likes')
      BY <1>0, <1>8, <1>u DEF BatchInsertFails
    <2>2. faults' \in Nat
      BY <1>0, <1>8 DEF BatchInsertFails, Fault
    <2>3. QED
      BY <1>0, <1>8, <2>1, <2>2 DEF BatchInsertFails, EndLikes, BaseInv
  <1>9. CASE BatchDeleteFails
    <2>1. likes' \subseteq Pairs /\ IsFiniteSet(likes')
      BY <1>0, <1>9, <1>u DEF BatchDeleteFails
    <2>2. faults' \in Nat
      BY <1>0, <1>9 DEF BatchDeleteFails, Fault
    <2>3. QED
      BY <1>0, <1>9, <2>1, <2>2 DEF BatchDeleteFails, EndUnlikes, BaseInv
  <1>10. ASSUME NEW p \in Posts, UpdateFails(p)
         PROVE  BaseInv'
    <2>1. faults' \in Nat
      BY <1>0, <1>10 DEF UpdateFails, Fault
    <2>2. QED
      BY <1>0, <1>10, <2>1 DEF UpdateFails, EndLikes, EndUnlikes, BaseInv
  <1>11. CASE UNCHANGED vars
    BY <1>11 DEF vars, BaseInv
  <1>12. QED
    BY <1>1, <1>2, <1>3, <1>4, <1>5, <1>6, <1>7, <1>8, <1>9, <1>10, <1>11 DEF Next

\* Types, for any users and posts.
LEMMA BaseInvariance == Spec => []BaseInv
  <1>1. Init => BaseInv
    <2> SUFFICES ASSUME Init PROVE BaseInv
      OBVIOUS
    <2>1. likes = {} /\ likeBuf = <<>> /\ unlikeBuf = <<>> /\ step = "select" /\ faults = 0
      BY DEF Init
    <2>2. last \in [Pairs -> {"none", "like", "unlike"}]
      BY DEF Init
    <2>3. partial \in BOOLEAN
      BY DEF Init
    <2>4. <<>> \in Seq(Pairs) /\ IsFiniteSet({}) /\ "select" \in Steps
      BY FS_EmptySet DEF Steps
    <2>5. QED
      BY <2>1, <2>2, <2>3, <2>4 DEF BaseInv
  <1>2. QED
    BY <1>1, BaseStep, PTL DEF Spec

-----------------------------------------------------------------------------
(***************************************************************************)
(* The last event of a pair.                                               *)
(***************************************************************************)

Agree(x) == x \in likes <=> last[x] = "like"

\* Between flushes: the last event of a pair in the buffers is one of them.
Resting(x) ==
    /\ x \in Range(likeBuf) /\ x \notin Range(unlikeBuf) => last[x] = "like"
    /\ x \in Range(unlikeBuf) /\ x \notin Range(likeBuf) => last[x] = "unlike"
    /\ x \notin unsettled /\ x \notin Waiting => Agree(x)

\* During a flush: each half settles the pairs of its buffer.
Flushing(x) ==
    /\ x \in Range(likeBuf) => x \notin Range(unlikeBuf) /\ last[x] = "like"
    /\ x \in Range(unlikeBuf) => last[x] = "unlike"
    /\ x \notin Waiting => Agree(x)
    /\ step = "incr" /\ x \in Range(likeBuf) => x \in likes
    /\ step = "decr" /\ x \in Range(unlikeBuf) => x \notin likes

LastInv ==
    /\ AtRest => \A x \in Pairs : Resting(x)
    /\ ~AtRest => \A x \in Pairs \ unsettled : Flushing(x)

\* Every step keeps it.
LEMMA LastStep == BaseInv /\ BaseInv' /\ LastInv /\ [Next]_vars => LastInv'
  <1> SUFFICES ASSUME BaseInv, BaseInv', LastInv, [Next]_vars PROVE LastInv'
    OBVIOUS
  <1>0. /\ step = "select" => \A x \in Pairs : Resting(x)
        /\ step # "select" => \A x \in Pairs \ unsettled : Flushing(x)
    BY DEF LastInv, AtRest
  <1>e. Range(<<>>) = {}
    BY DEF Range
  <1>1. ASSUME NEW y \in Pairs, NEW kind \in {"like", "unlike"}, LoopRecv(y, kind)
        PROVE  LastInv'
    <2>1. /\ Range(likeBuf') = IF kind = "like" THEN Range(likeBuf) \cup {y} ELSE Range(likeBuf)
          /\ Range(unlikeBuf') = IF kind = "unlike" THEN Range(unlikeBuf) \cup {y} ELSE Range(unlikeBuf)
      BY <1>1, Receives
    <2>2. /\ step = "select" /\ likes' = likes /\ last' = [last EXCEPT ![y] = kind]
          /\ \/ StartFlush(Range(likeBuf'), Range(unlikeBuf'))
             \/ UNCHANGED <<step, unsettled>>
      BY <1>1 DEF LoopRecv
    <2>3. \A x \in Pairs : last'[x] = IF x = y THEN kind ELSE last[x]
      BY <2>2 DEF BaseInv
    <2>4. ASSUME NEW x \in Pairs
          PROVE  /\ x \in Range(likeBuf') /\ x \notin Range(unlikeBuf') => last'[x] = "like"
                 /\ x \in Range(unlikeBuf') /\ x \notin Range(likeBuf') => last'[x] = "unlike"
                 /\ x \notin unsettled /\ x \notin Waiting' => Agree(x)'
      <3>1. Resting(x)
        BY <1>0, <2>2
      <3>2. CASE x = y
        BY <2>1, <2>3, <3>2 DEF Waiting
      <3>3. CASE x # y
        BY <2>1, <2>2, <2>3, <3>1, <3>3 DEF Resting, Waiting, Agree
      <3>4. QED
        BY <3>2, <3>3
    <2>5. CASE UNCHANGED <<step, unsettled>>
      BY <2>2, <2>4, <2>5 DEF LastInv, Resting, AtRest
    <2>6. CASE StartFlush(Range(likeBuf'), Range(unlikeBuf'))
      <3>1. step' = "insert"
            /\ unsettled' = (unsettled \ (Range(likeBuf') \cup Range(unlikeBuf')))
                               \cup (Range(likeBuf') \cap Range(unlikeBuf'))
        BY <2>6 DEF StartFlush
      <3>2. ASSUME NEW x \in Pairs, x \notin unsettled'
            PROVE  Flushing(x)'
        BY <2>4, <3>1, <3>2 DEF Flushing, Waiting
      <3>3. QED
        BY <3>1, <3>2 DEF LastInv, AtRest
    <2>7. QED
      BY <2>2, <2>5, <2>6
  <1>2. CASE LoopTick
    <2>1. /\ step = "select" /\ UNCHANGED <<likes, likeBuf, unlikeBuf, last>> /\ step' = "insert"
          /\ unsettled' = (unsettled \ (Range(likeBuf) \cup Range(unlikeBuf)))
                             \cup (Range(likeBuf) \cap Range(unlikeBuf))
      BY <1>2 DEF LoopTick, StartFlush
    <2>2. ASSUME NEW x \in Pairs, x \notin unsettled'
          PROVE  Flushing(x)'
      <3>1. Resting(x)
        BY <1>0, <2>1
      <3>2. QED
        BY <2>1, <2>2, <3>1 DEF Flushing, Resting, Waiting, Agree
    <2>3. QED
      BY <2>1, <2>2 DEF LastInv, AtRest
  <1>3. CASE BatchInsert
    <2>1. /\ step = "insert" /\ step' = "incr" /\ likes' = likes \cup Range(likeBuf)
          /\ UNCHANGED <<likeBuf, unlikeBuf, last, unsettled>>
      BY <1>3 DEF BatchInsert
    <2>2. ASSUME NEW x \in Pairs \ unsettled
          PROVE  Flushing(x)'
      <3>1. Flushing(x)
        BY <1>0, <2>1
      <3>2. QED
        BY <2>1, <3>1 DEF Flushing, Waiting, Agree
    <2>3. QED
      BY <2>1, <2>2 DEF LastInv, AtRest
  <1>4. CASE BatchDelete
    <2>1. /\ step = "delete" /\ step' = "decr" /\ likes' = likes \ Range(unlikeBuf)
          /\ UNCHANGED <<likeBuf, unlikeBuf, last, unsettled>>
      BY <1>4 DEF BatchDelete
    <2>2. ASSUME NEW x \in Pairs \ unsettled
          PROVE  Flushing(x)'
      <3>1. Flushing(x)
        BY <1>0, <2>1
      <3>2. QED
        BY <2>1, <3>1 DEF Flushing, Waiting, Agree
    <2>3. QED
      BY <2>1, <2>2 DEF LastInv, AtRest
  <1>5. ASSUME NEW p \in Posts, IncrPostLikeCount(p) \/ DecrPostLikeCount(p)
        PROVE  LastInv'
    BY <1>5 DEF IncrPostLikeCount, DecrPostLikeCount, UpdatePost, LastInv, AtRest, Resting,
       Flushing, Waiting, Agree
  \* The like half ends, done or failed after its INSERT.
  <1>6. ASSUME step \in {"insert", "incr"}, step = "insert" => likeBuf = <<>>, EndLikes,
               UNCHANGED <<likes, last, unsettled>>
        PROVE  LastInv'
    <2>1. step' = "delete" /\ likeBuf' = <<>> /\ unlikeBuf' = unlikeBuf
      BY <1>6 DEF EndLikes
    <2>2. ASSUME NEW x \in Pairs \ unsettled
          PROVE  Flushing(x)'
      <3>1. Flushing(x)
        BY <1>0, <1>6
      <3>2. step = "incr" \/ x \notin Range(likeBuf)
        BY <1>6, <1>e
      <3>3. QED
        BY <1>6, <1>e, <2>1, <3>1, <3>2 DEF Flushing, Waiting, Agree
    <2>3. QED
      BY <1>6, <2>1, <2>2 DEF LastInv, AtRest
  \* The unlike half ends, done or failed after its DELETE.
  <1>7. ASSUME step \in {"delete", "decr"}, step = "delete" => unlikeBuf = <<>>, EndUnlikes,
               UNCHANGED <<likes, last, unsettled>>
        PROVE  LastInv'
    <2>1. step' = "select" /\ likeBuf' = <<>> /\ unlikeBuf' = <<>> /\ likeBuf = <<>>
      BY <1>7 DEF EndUnlikes, BaseInv
    <2>2. ASSUME NEW x \in Pairs, x \notin unsettled
          PROVE  Agree(x)'
      <3>1. Flushing(x)
        BY <1>0, <1>7, <2>2
      <3>2. step = "decr" \/ x \notin Range(unlikeBuf)
        BY <1>7, <1>e
      <3>3. QED
        BY <1>7, <1>e, <2>1, <3>1, <3>2 DEF Flushing, Waiting, Agree
    <2>3. \A x \in Pairs : Resting(x)'
      BY <1>7, <1>e, <2>1, <2>2 DEF Resting
    <2>4. QED
      BY <2>1, <2>3 DEF LastInv, AtRest
  <1>8. CASE BatchInsertFails
    <2>1. /\ step = "insert" /\ step' = "delete" /\ likeBuf' = <<>> /\ UNCHANGED <<unlikeBuf, last>>
          /\ likes' = likes \/ likes' = likes \cup Range(likeBuf)
          /\ unsettled' = unsettled \cup Range(likeBuf)
      BY <1>8 DEF BatchInsertFails, EndLikes
    <2>2. ASSUME NEW x \in Pairs, x \notin unsettled'
          PROVE  Flushing(x)'
      <3>1. Flushing(x) /\ x \notin Range(likeBuf)
        BY <1>0, <2>1, <2>2
      <3>2. QED
        BY <1>e, <2>1, <3>1 DEF Flushing, Waiting, Agree
    <2>3. QED
      BY <2>1, <2>2 DEF LastInv, AtRest
  <1>9. CASE BatchDeleteFails
    <2>1. /\ step = "delete" /\ step' = "select" /\ likeBuf' = <<>> /\ unlikeBuf' = <<>> /\ likeBuf = <<>>
          /\ last' = last
          /\ likes' = likes \/ likes' = likes \ Range(unlikeBuf)
          /\ unsettled' = unsettled \cup Range(unlikeBuf)
      BY <1>9 DEF BatchDeleteFails, EndUnlikes, BaseInv
    <2>2. ASSUME NEW x \in Pairs, x \notin unsettled'
          PROVE  Agree(x)'
      <3>1. Flushing(x) /\ x \notin Range(unlikeBuf)
        BY <1>0, <2>1, <2>2
      <3>2. QED
        BY <1>e, <2>1, <3>1 DEF Flushing, Waiting, Agree
    <2>3. \A x \in Pairs : Resting(x)'
      BY <1>e, <2>1, <2>2 DEF Resting
    <2>4. QED
      BY <2>1, <2>3 DEF LastInv, AtRest
  <1>10. CASE LikesFlushed
    BY <1>6, <1>10 DEF LikesFlushed
  <1>11. CASE UnlikesFlushed
    BY <1>7, <1>11 DEF UnlikesFlushed
  <1>12. ASSUME NEW p \in Posts, UpdateFails(p)
         PROVE  LastInv'
    BY <1>6, <1>7, <1>12 DEF UpdateFails
  <1>13. CASE UNCHANGED vars
    BY <1>13 DEF vars, LastInv, AtRest, Resting, Flushing, Waiting, Agree
  <1>14. QED
    BY <1>1, <1>2, <1>3, <1>4, <1>5, <1>8, <1>9, <1>10, <1>11, <1>12, <1>13 DEF Next

\* LastEventWins (like_consumer.go flushWithCtx over like_repository.go BatchInsert and
\* BatchDelete): between flushes a pair's row follows its last event, unless the event
\* still waits or the last flush of the pair failed or held both kinds.
THEOREM LastEventDecides == Spec => []LastEventWins
  <1>1. Init => LastInv
    <2>1. Range(<<>>) = {}
      BY DEF Range
    <2>2. QED
      BY <2>1 DEF Init, LastInv, AtRest, Resting, Agree
  <1>2. LastInv => LastEventWins
    BY DEF LastInv, AtRest, Resting, Agree, LastEventWins
  <1>3. QED
    BY <1>1, <1>2, BaseInvariance, LastStep, PTL DEF Spec

-----------------------------------------------------------------------------
(***************************************************************************)
(* Counts while every event had its effect.                                *)
(***************************************************************************)

\* What the UPDATE loop still owes to the count of p.
Balanced(p) ==
    CASE step = "incr" -> likeCount[p] + deltas[p] = Rows(p)
      [] step = "decr" -> likeCount[p] = Rows(p) + deltas[p]
      [] OTHER         -> likeCount[p] = Rows(p) /\ deltas[p] = 0

CountInv ==
    faults = 0 /\ ~partial =>
       /\ likeCount \in [Posts -> Nat] /\ deltas \in [Posts -> Nat]
       /\ \A p \in Posts : Balanced(p)

\* The rows of p in a set of pairs.
RowsIn(S, p) == Cardinality({x \in S : x[2] = p})

\* A batch with as many effects as events: no pair occurs twice in it, every pair
\* had its effect, so the events per post are the pairs per post.
LEMMA FullEffect ==
    ASSUME NEW q \in Seq(Pairs), NEW T \in SUBSET Range(q), Cardinality(T) >= Len(q)
    PROVE  /\ T = Range(q)
           /\ PerPost(q) \in [Posts -> Nat]
           /\ \A p \in Posts : PerPost(q)[p] = RowsIn(T, p)
  <1>1. DOMAIN q = 1..Len(q) /\ Len(q) \in Nat /\ q \in [1..Len(q) -> Pairs]
    OBVIOUS
  <1>2. IsFiniteSet(1..Len(q)) /\ Cardinality(1..Len(q)) = Len(q)
    BY <1>1, FS_Interval
  <1>3. q \in Surjection(1..Len(q), Range(q))
    BY <1>1 DEF Surjection, Range
  <1>4. /\ IsFiniteSet(Range(q)) /\ Cardinality(Range(q)) <= Len(q)
        /\ Cardinality(Range(q)) = Len(q) => q \in Injection(1..Len(q), Range(q))
    BY <1>2, <1>3, FS_Surjection
  <1>5. /\ IsFiniteSet(T) /\ Cardinality(T) <= Cardinality(Range(q))
        /\ Cardinality(Range(q)) = Cardinality(T) => Range(q) = T
    BY <1>4, FS_Subset
  <1>6. Cardinality(T) \in Nat /\ Cardinality(Range(q)) \in Nat
    BY <1>4, <1>5, FS_CardinalityType
  <1>7. T = Range(q) /\ q \in Injection(1..Len(q), Range(q))
    BY <1>1, <1>4, <1>5, <1>6
  <1>8. \A i, j \in 1..Len(q) : q[i] = q[j] => i = j
    BY <1>7 DEF Injection, IsInjective
  <1>9. ASSUME NEW p \in Posts
        PROVE  /\ PerPost(q)[p] \in Nat
               /\ PerPost(q)[p] = RowsIn(T, p)
    <2> DEFINE I == {i \in DOMAIN q : q[i][2] = p}
               X == {x \in T : x[2] = p}
               f == [i \in I |-> q[i]]
    <2>1. I \in SUBSET (1..Len(q))
      BY <1>1
    <2>2. IsFiniteSet(I)
      BY <1>2, <2>1, FS_Subset
    <2>3. f \in [I -> X]
      BY <1>1, <1>7 DEF Range
    <2>4. \A x \in X : \E i \in I : f[i] = x
      <3>1. SUFFICES ASSUME NEW x \in X PROVE \E i \in I : f[i] = x
        OBVIOUS
      <3>2. PICK i \in DOMAIN q : q[i] = x
        BY <1>7 DEF Range
      <3>3. i \in I
        BY <3>2
      <3>4. QED
        BY <3>2, <3>3
    <2>5. \A i, j \in I : f[i] = f[j] => i = j
      BY <1>8, <2>1
    <2> HIDE DEF f, X, I
    <2>6. f \in Bijection(I, X)
      BY <2>3, <2>4, <2>5 DEF Bijection, Injection, Surjection, IsInjective
    <2>7. Cardinality(X) = Cardinality(I)
      BY <2>2, <2>6, FS_Bijection DEF ExistsBijection
    <2>8. PerPost(q)[p] = Cardinality(I)
      BY DEF PerPost, I
    <2>9. Cardinality(I) \in Nat
      BY <2>2, FS_CardinalityType
    <2>10. QED
      BY <2>7, <2>8, <2>9 DEF X, RowsIn
  <1>10. PerPost(q) \in [Posts -> Nat]
    <2>1. PerPost(q) = [p \in Posts |-> PerPost(q)[p]]
      BY DEF PerPost
    <2>2. QED
      BY <1>9, <2>1
  <1>11. QED
    BY <1>7, <1>9, <1>10

\* The rows of a post when rows that were not there are added, or rows that were
\* there are removed.
LEMMA RowsChange ==
    ASSUME NEW L, IsFiniteSet(L), NEW T, IsFiniteSet(T), NEW p
    PROVE  /\ RowsIn(L, p) \in Nat /\ RowsIn(T, p) \in Nat
           /\ T \cap L = {} => RowsIn(L \cup T, p) = RowsIn(L, p) + RowsIn(T, p)
           /\ T \cap L = T => RowsIn(L \ T, p) + RowsIn(T, p) = RowsIn(L, p)
  <1> DEFINE A == {x \in L : x[2] = p}
             B == {x \in T : x[2] = p}
  <1>1. A \in SUBSET L /\ B \in SUBSET T
    OBVIOUS
  <1>2. IsFiniteSet(A) /\ IsFiniteSet(B)
    BY <1>1, FS_Subset
  <1>3. RowsIn(L, p) = Cardinality(A) /\ RowsIn(T, p) = Cardinality(B)
    BY DEF RowsIn
  <1>4. Cardinality(A) \in Nat /\ Cardinality(B) \in Nat
    BY <1>2, FS_CardinalityType
  <1>5. ASSUME T \cap L = {}
        PROVE  RowsIn(L \cup T, p) = Cardinality(A) + Cardinality(B)
    <2>1. {x \in L \cup T : x[2] = p} = A \cup B /\ A \cap B = {}
      BY <1>5
    <2>2. RowsIn(L \cup T, p) = Cardinality(A \cup B)
      BY <2>1 DEF RowsIn
    <2> HIDE DEF A, B
    <2>3. Cardinality(A \cup B) = Cardinality(A) + Cardinality(B) - Cardinality(A \cap B)
      BY <1>2, FS_Union
    <2>4. Cardinality(A \cap B) = 0
      BY <2>1, FS_EmptySet
    <2>5. QED
      BY <1>4, <2>2, <2>3, <2>4
  <1>6. ASSUME T \cap L = T
        PROVE  RowsIn(L \ T, p) + Cardinality(B) = Cardinality(A)
    <2>1. {x \in L \ T : x[2] = p} = A \ B /\ A \cap B = B
      BY <1>6
    <2>2. RowsIn(L \ T, p) = Cardinality(A \ B)
      BY <2>1 DEF RowsIn
    <2> HIDE DEF A, B
    <2>3. Cardinality(A \ B) = Cardinality(A) - Cardinality(A \cap B)
      BY <1>2, FS_Difference
    <2>4. Cardinality(A \cap B) = Cardinality(B)
      BY <2>1, Zenon
    <2>5. QED
      BY <1>4, <2>2, <2>3, <2>4
  <1>7. QED
    BY <1>3, <1>4, <1>5, <1>6

\* When every event of a batch had its effect, the deltas are the events per post.
LEMMA FullApportion ==
    ASSUME NEW q \in Seq(Pairs), q # <<>>, NEW real \in Nat, Apportion(q, real), ~partial',
           partial \in BOOLEAN
    PROVE  real >= Len(q) /\ deltas' = PerPost(q) /\ ~partial
  <1>1. Len(q) \in Nat /\ Len(q) > 0
    OBVIOUS
  <1>2. ~partial /\ ~(real < Len(q))
    BY DEF Apportion
  <1>3. real >= Len(q) /\ ~(real <= 0)
    BY <1>1, <1>2
  <1>4. PICK order : deltas' = scaleDeltas(PerPost(q), Len(q), real, order)
    BY DEF Apportion
  <1>5. QED
    BY <1>2, <1>3, <1>4 DEF scaleDeltas

\* Every step keeps the counts balanced.
LEMMA CountStep == BaseInv /\ CountInv /\ [Next]_vars => CountInv'
  <1> SUFFICES ASSUME BaseInv, CountInv, [Next]_vars, faults' = 0, ~partial'
               PROVE  /\ likeCount' \in [Posts -> Nat] /\ deltas' \in [Posts -> Nat]
                      /\ \A p \in Posts : Balanced(p)'
    BY DEF CountInv
  <1>0. /\ faults \in Nat /\ partial \in BOOLEAN /\ IsFiniteSet(likes)
        /\ likeBuf \in Seq(Pairs) /\ unlikeBuf \in Seq(Pairs)
    BY DEF BaseInv
  <1>r. \A p \in Posts : Rows(p) = RowsIn(likes, p) /\ Rows(p)' = RowsIn(likes', p)
    BY DEF Rows, RowsIn
  <1>c. ASSUME faults = 0, ~partial
        PROVE  /\ likeCount \in [Posts -> Nat] /\ deltas \in [Posts -> Nat]
               /\ \A p \in Posts : Balanced(p)
    BY <1>c DEF CountInv
  <1>n. NoDeltas \in [Posts -> Nat] /\ \A p \in Posts : NoDeltas[p] = 0
    BY DEF NoDeltas
  <1>f. ~Fault
    BY <1>0 DEF Fault
  <1>1. ASSUME UNCHANGED <<likes, likeCount, deltas, faults, partial>>,
               step \in {"select", "insert", "delete"}, step' \in {"select", "insert", "delete"}
        PROVE  /\ likeCount' \in [Posts -> Nat] /\ deltas' \in [Posts -> Nat]
               /\ \A p \in Posts : Balanced(p)'
    <2>1. /\ likeCount \in [Posts -> Nat] /\ deltas \in [Posts -> Nat]
          /\ \A p \in Posts : likeCount[p] = Rows(p) /\ deltas[p] = 0
      BY <1>1, <1>c DEF Balanced
    <2>2. QED
      BY <1>1, <1>r, <2>1 DEF Balanced
  <1>2. ASSUME NEW x \in Pairs, NEW kind \in {"like", "unlike"}, LoopRecv(x, kind)
        PROVE  /\ likeCount' \in [Posts -> Nat] /\ deltas' \in [Posts -> Nat]
               /\ \A p \in Posts : Balanced(p)'
    BY <1>1, <1>2 DEF LoopRecv, StartFlush
  <1>3. CASE LoopTick
    BY <1>1, <1>3 DEF LoopTick, StartFlush
  <1>4. CASE BatchInsert
    <2>1. PICK T : T = Range(likeBuf) \ likes
      OBVIOUS
    <2>2. /\ step = "insert" /\ step' = "incr" /\ likeBuf # <<>> /\ faults' = faults
          /\ likeCount' = likeCount /\ likes' = likes \cup Range(likeBuf)
          /\ Apportion(likeBuf, Cardinality(T))
      BY <1>4, <2>1 DEF BatchInsert
    <2>3. IsFiniteSet(Range(likeBuf)) /\ T \in SUBSET Range(likeBuf)
      BY <1>0, <2>1, RangeFinite
    <2>4. IsFiniteSet(T) /\ Cardinality(T) \in Nat
      BY <2>3, FS_Subset, FS_CardinalityType
    <2>5. Cardinality(T) >= Len(likeBuf) /\ deltas' = PerPost(likeBuf) /\ ~partial
      BY <1>0, <2>2, <2>4, FullApportion
    <2>6. /\ T = Range(likeBuf) /\ PerPost(likeBuf) \in [Posts -> Nat]
          /\ \A p \in Posts : PerPost(likeBuf)[p] = RowsIn(T, p)
      BY <1>0, <2>3, <2>5, FullEffect
    <2>7. T \cap likes = {} /\ likes' = likes \cup T
      BY <2>1, <2>2, <2>6
    <2>8. ASSUME NEW p \in Posts
          PROVE  Balanced(p)'
      <3>1. likeCount[p] = Rows(p)
        BY <1>c, <2>2, <2>5 DEF Balanced
      <3>2. RowsIn(likes \cup T, p) = RowsIn(likes, p) + RowsIn(T, p)
        BY <1>0, <2>4, <2>7, RowsChange
      <3>3. Rows(p)' = Rows(p) + deltas'[p]
        BY <1>r, <2>5, <2>6, <2>7, <3>2
      <3>4. QED
        BY <2>2, <3>1, <3>3 DEF Balanced
    <2>9. QED
      BY <1>c, <2>2, <2>5, <2>6, <2>8
  <1>5. CASE BatchDelete
    <2>1. PICK T : T = Range(unlikeBuf) \cap likes
      OBVIOUS
    <2>2. /\ step = "delete" /\ step' = "decr" /\ unlikeBuf # <<>> /\ faults' = faults
          /\ likeCount' = likeCount /\ likes' = likes \ Range(unlikeBuf)
          /\ Apportion(unlikeBuf, Cardinality(T))
      BY <1>5, <2>1 DEF BatchDelete
    <2>3. IsFiniteSet(Range(unlikeBuf)) /\ T \in SUBSET Range(unlikeBuf)
      BY <1>0, <2>1, RangeFinite
    <2>4. IsFiniteSet(T) /\ Cardinality(T) \in Nat
      BY <2>3, FS_Subset, FS_CardinalityType
    <2>5. Cardinality(T) >= Len(unlikeBuf) /\ deltas' = PerPost(unlikeBuf) /\ ~partial
      BY <1>0, <2>2, <2>4, FullApportion
    <2>6. /\ T = Range(unlikeBuf) /\ PerPost(unlikeBuf) \in [Posts -> Nat]
          /\ \A p \in Posts : PerPost(unlikeBuf)[p] = RowsIn(T, p)
      BY <1>0, <2>3, <2>5, FullEffect
    <2>7. T \cap likes = T /\ likes' = likes \ T
      BY <2>1, <2>2, <2>6
    <2>8. ASSUME NEW p \in Posts
          PROVE  Balanced(p)'
      <3>1. likeCount[p] = Rows(p)
        BY <1>c, <2>2, <2>5 DEF Balanced
      <3>2. RowsIn(likes \ T, p) + RowsIn(T, p) = RowsIn(likes, p)
        BY <1>0, <2>4, <2>7, RowsChange
      <3>3. RowsIn(likes, p) \in Nat /\ RowsIn(T, p) \in Nat
        BY <1>0, <2>4, RowsChange
      <3>4. Rows(p) = Rows(p)' + deltas'[p]
        BY <1>r, <2>5, <2>6, <2>7, <3>2, <3>3
      <3>5. QED
        BY <2>2, <3>1, <3>4 DEF Balanced
    <2>9. QED
      BY <1>c, <2>2, <2>5, <2>6, <2>8
  <1>6. ASSUME NEW q \in Posts, IncrPostLikeCount(q)
        PROVE  /\ likeCount' \in [Posts -> Nat] /\ deltas' \in [Posts -> Nat]
               /\ \A p \in Posts : Balanced(p)'
    <2>1. /\ step = "incr" /\ step' = "incr" /\ UNCHANGED <<likes, faults, partial>>
          /\ likeCount' = [likeCount EXCEPT ![q] = @ + deltas[q]]
          /\ deltas' = [deltas EXCEPT ![q] = 0]
      BY <1>6 DEF IncrPostLikeCount, UpdatePost, Incremented
    <2>2. /\ likeCount \in [Posts -> Nat] /\ deltas \in [Posts -> Nat]
          /\ \A p \in Posts : likeCount[p] + deltas[p] = Rows(p)
      BY <1>c, <2>1 DEF Balanced
    <2>3. likeCount' \in [Posts -> Nat] /\ deltas' \in [Posts -> Nat]
      BY <2>1, <2>2
    <2>4. ASSUME NEW p \in Posts
          PROVE  likeCount'[p] + deltas'[p] = Rows(p)'
      <3>1. Rows(p)' = Rows(p)
        BY <1>r, <2>1
      <3>2. QED
        BY <2>1, <2>2, <3>1
    <2>5. QED
      BY <2>1, <2>3, <2>4 DEF Balanced
  <1>7. ASSUME NEW q \in Posts, DecrPostLikeCount(q)
        PROVE  /\ likeCount' \in [Posts -> Nat] /\ deltas' \in [Posts -> Nat]
               /\ \A p \in Posts : Balanced(p)'
    <2>1. /\ step = "decr" /\ step' = "decr" /\ UNCHANGED <<likes, faults, partial>>
          /\ likeCount' = [likeCount EXCEPT ![q] = IF @ < deltas[q] THEN 0 ELSE @ - deltas[q]]
          /\ deltas' = [deltas EXCEPT ![q] = 0]
      BY <1>7 DEF DecrPostLikeCount, UpdatePost, Decremented
    <2>2. /\ likeCount \in [Posts -> Nat] /\ deltas \in [Posts -> Nat]
          /\ \A p \in Posts : likeCount[p] = Rows(p) + deltas[p]
      BY <1>c, <2>1 DEF Balanced
    <2>3. \A p \in Posts : Rows(p) \in Nat /\ Rows(p)' = Rows(p)
      BY <1>0, <1>r, <2>1, RowsChange
    <2>4. likeCount' \in [Posts -> Nat] /\ deltas' \in [Posts -> Nat]
      BY <2>1, <2>2
    <2>5. ASSUME NEW p \in Posts
          PROVE  likeCount'[p] = Rows(p)' + deltas'[p]
      BY <2>1, <2>2, <2>3
    <2>6. QED
      BY <2>1, <2>4, <2>5 DEF Balanced
  <1>8. ASSUME UNCHANGED <<likes, likeCount, deltas, faults, partial>>, deltas = NoDeltas,
               step \in {"incr", "decr"}, step' \in {"select", "delete"}
        PROVE  /\ likeCount' \in [Posts -> Nat] /\ deltas' \in [Posts -> Nat]
               /\ \A p \in Posts : Balanced(p)'
    <2>1. /\ likeCount \in [Posts -> Nat] /\ deltas \in [Posts -> Nat]
          /\ \A p \in Posts : Balanced(p)
      BY <1>8, <1>c
    <2>2. ASSUME NEW p \in Posts
          PROVE  likeCount[p] = Rows(p) /\ deltas[p] = 0
      <3>1. deltas[p] = 0 /\ Rows(p) \in Nat
        BY <1>0, <1>8, <1>n, <1>r, RowsChange
      <3>2. QED
        BY <1>8, <2>1, <3>1 DEF Balanced
    <2>3. QED
      BY <1>8, <1>r, <2>1, <2>2 DEF Balanced
  <1>9. CASE LikesFlushed
    BY <1>1, <1>8, <1>9 DEF LikesFlushed, EndLikes
  <1>10. CASE UnlikesFlushed
    BY <1>1, <1>8, <1>10 DEF UnlikesFlushed, EndUnlikes
  <1>11. CASE BatchInsertFails \/ BatchDeleteFails \/ \E p \in Posts : UpdateFails(p)
    BY <1>f, <1>11 DEF BatchInsertFails, BatchDeleteFails, UpdateFails
  <1>12. CASE UNCHANGED vars
    <2>1. UNCHANGED <<likes, likeCount, deltas, faults, partial, step>>
      BY <1>12 DEF vars
    <2>2. QED
      BY <1>c, <1>r, <2>1 DEF Balanced
  <1>13. QED
    BY <1>2, <1>3, <1>4, <1>5, <1>6, <1>7, <1>9, <1>10, <1>11, <1>12 DEF Next

\* CountsMatchRows (like_consumer.go flushWithCtx, IncrPostLikeCount and
\* DecrPostLikeCount): while no statement failed and every event changed its row, the
\* like count of each post is its number of rows whenever the loop is between flushes.
THEOREM CountsAreRows == Spec => []CountsMatchRows
  <1>1. Init => CountInv
    <2> SUFFICES ASSUME Init
                 PROVE  /\ likeCount \in [Posts -> Nat] /\ deltas \in [Posts -> Nat]
                        /\ \A p \in Posts : Balanced(p)
      BY DEF CountInv
    <2>1. likes = {} /\ likeCount = NoDeltas /\ deltas = NoDeltas /\ step = "select"
      BY DEF Init
    <2>2. ASSUME NEW p \in Posts
          PROVE  likeCount[p] = 0 /\ deltas[p] = 0 /\ Rows(p) = 0
      <3>1. {x \in likes : x[2] = p} = {}
        BY <2>1
      <3>2. Rows(p) = 0
        BY <3>1, FS_EmptySet DEF Rows
      <3>3. QED
        BY <2>1, <3>2 DEF NoDeltas
    <2>3. NoDeltas \in [Posts -> Nat]
      BY DEF NoDeltas
    <2>4. QED
      BY <2>1, <2>2, <2>3 DEF Balanced
  <1>2. CountInv => CountsMatchRows
    BY DEF CountInv, CountsMatchRows, AtRest, Balanced
  <1>3. QED
    BY <1>1, <1>2, BaseInvariance, CountStep, PTL DEF Spec

-----------------------------------------------------------------------------
(***************************************************************************)
(* Sums over finite sets.  SumFunctionOnSet is a fold, and a fold is a     *)
(* recursive function: its equation has to be derived first.  Induction is *)
(* by a smallest counterexample.                                           *)
(***************************************************************************)

\* A set of naturals has a least member.
LEMMA LeastNat ==
    ASSUME NEW T, T \subseteq Nat, T # {}
    PROVE  \E x \in T : \A y \in T : x <= y
  <1> DEFINE R == OpToRel(<, Nat)
  <1>1. IsWellFoundedOn(R, Nat)
    BY NatLessThanWellFounded
  <1>2. \A x, y \in Nat : y < x => <<y, x>> \in R
    BY DEF OpToRel
  <1> HIDE DEF R
  <1>3. PICK x \in T : \A y \in T : ~(<<y, x>> \in R)
    BY <1>1, WFMin
  <1>4. \A y \in T : ~(y < x)
    BY <1>2, <1>3
  <1>5. \A y \in T : x <= y
    BY <1>4
  <1>6. QED
    BY <1>5

\* A nonempty set of finite sets has a member none of whose proper subsets is in it.
LEMMA SmallestSet ==
    ASSUME NEW U, IsFiniteSet(U), NEW G \in SUBSET (SUBSET U), G # {}
    PROVE  \E A \in G : \A B \in SUBSET A : B # A => B \notin G
  <1>1. \A A \in G : IsFiniteSet(A) /\ Cardinality(A) \in Nat
    BY FS_Subset, FS_CardinalityType
  <1> DEFINE T == {Cardinality(A) : A \in G}
  <1>2. T \subseteq Nat /\ T # {}
    BY <1>1
  <1>3. PICK n \in T : \A m \in T : n <= m
    <2> HIDE DEF T
    <2> QED
      BY <1>2, LeastNat
  <1>4. PICK A \in G : n = Cardinality(A)
    BY <1>3
  <1>5. ASSUME NEW B \in SUBSET A, B # A, B \in G
        PROVE  FALSE
    <2>1. Cardinality(B) <= Cardinality(A) /\ Cardinality(B) # Cardinality(A)
      BY <1>1, <1>4, <1>5, FS_Subset
    <2>2. Cardinality(A) <= Cardinality(B)
      BY <1>3, <1>4, <1>5
    <2>3. QED
      BY <1>1, <1>4, <1>5, <2>1, <2>2
  <1>6. QED
    BY <1>4, <1>5

\* The element the fold takes next, and the equation of its recursive function.
Taken(s) == CHOOSE x \in s : TRUE
Body(f, g, s) == IF s = {} THEN 0 ELSE f[Taken(s)] + g[s \ {Taken(s)}]
Solves(g, f, D) == g = [s \in D |-> Body(f, g, s)]
Iter(f, S) == CHOOSE g : Solves(g, f, SUBSET S)

\* A nonempty set has the element that is taken from it.
LEMMA TakenIn == ASSUME NEW s, s # {} PROVE Taken(s) \in s
  BY DEF Taken

\* The sum is the value of the recursive function.
LEMMA SumIsIter ==
    ASSUME NEW f, NEW S
    PROVE  SumFunctionOnSet(f, S) = Iter(f, S)[S]
  BY DEF SumFunctionOnSet, FoldFunctionOnSet, MapThenFoldSet, Iter, Solves, Body, Taken

\* Such a function exists: one for the sets of up to k elements gives one for k + 1.
LEMMA SolutionExists ==
    ASSUME NEW f, NEW S, IsFiniteSet(S)
    PROVE  \E g : Solves(g, f, SUBSET S)
  <1> DEFINE Sub(k) == {s \in SUBSET S : Cardinality(s) <= k}
             Bad == {k \in Nat : ~\E g : Solves(g, f, Sub(k))}
  <1>1. \A s \in SUBSET S : IsFiniteSet(s) /\ Cardinality(s) \in Nat
    BY FS_Subset, FS_CardinalityType
  <1>2. Bad = {}
    <2>1. SUFFICES ASSUME Bad # {} PROVE FALSE
      OBVIOUS
    <2>2. PICK k \in Bad : \A j \in Bad : k <= j
      <3>1. Bad \subseteq Nat
        OBVIOUS
      <3> HIDE DEF Bad
      <3>2. QED
        BY <2>1, <3>1, LeastNat
    <2>3. k \in Nat /\ ~\E g : Solves(g, f, Sub(k))
      OBVIOUS
    <2>4. CASE k = 0
      <3>1. \A s \in Sub(k) : s = {}
        BY <1>1, <2>4, FS_EmptySet
      <3> DEFINE g == [s \in Sub(k) |-> 0]
      <3>2. g = [s \in Sub(k) |-> Body(f, g, s)]
        BY <3>1 DEF Body
      <3>3. QED
        BY <2>3, <3>2 DEF Solves
    <2>5. CASE k # 0
      <3>1. k - 1 \in Nat /\ k - 1 \notin Bad
        <4>1. k - 1 \in Nat /\ ~(k <= k - 1)
          BY <2>3, <2>5
        <4> HIDE DEF Bad
        <4>2. QED
          BY <2>2, <4>1
      <3>2. PICK g : Solves(g, f, Sub(k - 1))
        BY <3>1
      <3>3. \A s \in Sub(k - 1) : g[s] = Body(f, g, s)
        BY <3>2 DEF Solves
      <3> DEFINE h == [s \in Sub(k) |-> Body(f, g, s)]
      <3>4. ASSUME NEW s \in Sub(k)
            PROVE  Body(f, g, s) = Body(f, h, s)
        <4>1. CASE s = {}
          BY <4>1 DEF Body
        <4>2. CASE s # {}
          <5>1. PICK u : u = s \ {Taken(s)}
            OBVIOUS
          <5>2. Taken(s) \in s
            BY <4>2, TakenIn
          <5>3. u \in SUBSET S /\ Cardinality(u) = Cardinality(s) - 1
            BY <1>1, <5>1, <5>2, FS_RemoveElement
          <5>4. u \in Sub(k - 1) /\ u \in Sub(k)
            BY <1>1, <2>3, <5>3
          <5>5. h[u] = g[u]
            BY <3>3, <5>4
          <5> HIDE DEF h
          <5>6. QED
            BY <4>2, <5>1, <5>5 DEF Body
        <4>3. QED
          BY <4>1, <4>2
      <3>5. h = [s \in Sub(k) |-> Body(f, h, s)]
        BY <3>4
      <3>6. QED
        BY <2>3, <3>5 DEF Solves
    <2>6. QED
      BY <2>4, <2>5
  <1>3. Cardinality(S) \in Nat
    BY FS_CardinalityType
  <1>4. Sub(Cardinality(S)) = SUBSET S
    BY <1>1, FS_Subset
  <1>5. QED
    BY <1>2, <1>3, <1>4

\* Two of them agree where both are defined.
LEMMA SolutionsAgree ==
    ASSUME NEW f, NEW S, IsFiniteSet(S), NEW T \in SUBSET S, NEW g, NEW h,
           Solves(g, f, SUBSET S), Solves(h, f, SUBSET T)
    PROVE  g[T] = h[T]
  <1> DEFINE G == {s \in SUBSET T : g[s] # h[s]}
  <1>1. SUFFICES ASSUME G # {} PROVE FALSE
    OBVIOUS
  <1>2. \A s \in SUBSET T : g[s] = Body(f, g, s) /\ h[s] = Body(f, h, s)
    BY DEF Solves
  <1>3. PICK A \in G : \A B \in SUBSET A : B # A => B \notin G
    <2>1. G \in SUBSET (SUBSET S)
      OBVIOUS
    <2> HIDE DEF G
    <2>2. QED
      BY <1>1, <2>1, SmallestSet
  <1>4. CASE A = {}
    BY <1>2, <1>4 DEF Body
  <1>5. CASE A # {}
    <2>1. PICK u : u = A \ {Taken(A)}
      OBVIOUS
    <2>2. u \in SUBSET A /\ u # A
      BY <1>5, <2>1, TakenIn
    <2>3. g[u] = h[u]
      BY <1>3, <2>2
    <2>4. QED
      BY <1>2, <1>5, <2>1, <2>3 DEF Body
  <1>6. QED
    BY <1>4, <1>5

\* The sum over a finite set, one element at a time.
LEMMA SumEquation ==
    ASSUME NEW f, NEW S, IsFiniteSet(S)
    PROVE  /\ SumFunctionOnSet(f, {}) = 0
           /\ S # {} => SumFunctionOnSet(f, S) = f[Taken(S)] + SumFunctionOnSet(f, S \ {Taken(S)})
  <1>1. ASSUME NEW A, IsFiniteSet(A) PROVE Solves(Iter(f, A), f, SUBSET A)
    BY <1>1, SolutionExists DEF Iter
  <1>2. ASSUME NEW A, IsFiniteSet(A) PROVE SumFunctionOnSet(f, A) = Body(f, Iter(f, A), A)
    <2>1. PICK g : g = Iter(f, A)
      OBVIOUS
    <2>2. g = [s \in SUBSET A |-> Body(f, g, s)]
      BY <1>1, <1>2, <2>1 DEF Solves
    <2>3. g[A] = Body(f, g, A)
      BY <2>2
    <2>4. QED
      BY <2>1, <2>3, SumIsIter
  <1>3. SumFunctionOnSet(f, {}) = 0
    BY <1>2, FS_EmptySet DEF Body
  <1>4. ASSUME S # {}
        PROVE  SumFunctionOnSet(f, S) = f[Taken(S)] + SumFunctionOnSet(f, S \ {Taken(S)})
    <2>1. PICK T : T = S \ {Taken(S)}
      OBVIOUS
    <2>2. T \in SUBSET S /\ IsFiniteSet(T)
      BY <2>1, FS_Subset
    <2>3. Iter(f, S)[T] = Iter(f, T)[T]
      <3>1. PICK g, h : g = Iter(f, S) /\ h = Iter(f, T)
        OBVIOUS
      <3>2. Solves(g, f, SUBSET S) /\ Solves(h, f, SUBSET T)
        BY <1>1, <2>2, <3>1
      <3>3. g[T] = h[T]
        BY <2>2, <3>2, SolutionsAgree
      <3>4. QED
        BY <3>1, <3>3
    <2>4. SumFunctionOnSet(f, S) = f[Taken(S)] + Iter(f, S)[T]
      BY <1>2, <1>4, <2>1 DEF Body
    <2>5. QED
      BY <2>1, <2>3, <2>4, SumIsIter
  <1>5. QED
    BY <1>3, <1>4

\* The sum is an integer, and any element may be taken first.
LEMMA SumRemove ==
    ASSUME NEW S, IsFiniteSet(S), NEW f, \A x \in S : f[x] \in Int
    PROVE  /\ SumFunctionOnSet(f, S) \in Int
           /\ \A x \in S : SumFunctionOnSet(f, S) = f[x] + SumFunctionOnSet(f, S \ {x})
  <1> DEFINE Good(A) == /\ SumFunctionOnSet(f, A) \in Int
                        /\ \A x \in A : SumFunctionOnSet(f, A) = f[x] + SumFunctionOnSet(f, A \ {x})
             G == {A \in SUBSET S : ~Good(A)}
  <1>1. SUFFICES ASSUME G # {} PROVE FALSE
    OBVIOUS
  <1>2. PICK A \in G : \A B \in SUBSET A : B # A => B \notin G
    <2>1. G \in SUBSET (SUBSET S)
      OBVIOUS
    <2> HIDE DEF G
    <2>2. QED
      BY <1>1, <2>1, SmallestSet
  <1>3. A \in SUBSET S /\ IsFiniteSet(A) /\ ~Good(A)
    BY FS_Subset
  <1>4. \A B \in SUBSET A : B # A => Good(B)
    BY <1>2, <1>3
  <1>5. CASE A = {}
    <2>1. SumFunctionOnSet(f, A) = 0
      BY <1>3, <1>5, SumEquation
    <2>2. QED
      BY <1>3, <1>5, <2>1
  <1>6. CASE A # {}
    <2>1. PICK p : p = Taken(A)
      OBVIOUS
    <2>2. p \in A
      BY <1>6, <2>1, TakenIn
    <2>3. SumFunctionOnSet(f, A) = f[p] + SumFunctionOnSet(f, A \ {p})
      BY <1>3, <1>6, <2>1, SumEquation
    <2>4. ASSUME NEW x \in A
          PROVE  /\ SumFunctionOnSet(f, A \ {x}) \in Int
                 /\ \A y \in A \ {x} : SumFunctionOnSet(f, A \ {x}) = f[y] + SumFunctionOnSet(f, (A \ {x}) \ {y})
      <3>1. A \ {x} \in SUBSET A /\ A \ {x} # A
        OBVIOUS
      <3>2. QED
        BY <1>4, <3>1
    <2>5. SumFunctionOnSet(f, A) \in Int
      BY <1>3, <2>2, <2>3, <2>4
    <2>6. ASSUME NEW x \in A
          PROVE  SumFunctionOnSet(f, A) = f[x] + SumFunctionOnSet(f, A \ {x})
      <3>1. CASE x = p
        BY <2>3, <3>1
      <3>2. CASE x # p
        <4>1. PICK C : C = (A \ {p}) \ {x}
          OBVIOUS
        <4>2. C = (A \ {x}) \ {p}
          BY <4>1
        <4>3. SumFunctionOnSet(f, A \ {p}) = f[x] + SumFunctionOnSet(f, C)
          BY <2>2, <2>4, <3>2, <4>1
        <4>4. SumFunctionOnSet(f, A \ {x}) = f[p] + SumFunctionOnSet(f, C)
          BY <2>2, <2>4, <3>2, <4>2
        <4>5. f[x] \in Int /\ f[p] \in Int
          BY <1>3, <2>2
        <4>6. SumFunctionOnSet(f, C) \in Int
          <5>1. C \in SUBSET A /\ C # A
            BY <4>1, <2>2
          <5>2. QED
            BY <1>4, <5>1
        <4>7. QED
          BY <2>3, <4>3, <4>4, <4>5, <4>6
      <3>3. QED
        BY <3>1, <3>2
    <2>7. QED
      BY <1>3, <2>5, <2>6
  <1>7. QED
    BY <1>5, <1>6

\* The sum depends on the terms only, and zeros add up to zero.
LEMMA SumSame ==
    ASSUME NEW S, IsFiniteSet(S), NEW f, NEW g, \A x \in S : f[x] \in Int /\ g[x] = f[x]
    PROVE  SumFunctionOnSet(g, S) = SumFunctionOnSet(f, S)
  <1> DEFINE G == {A \in SUBSET S : SumFunctionOnSet(g, A) # SumFunctionOnSet(f, A)}
  <1>1. SUFFICES ASSUME G # {} PROVE FALSE
    OBVIOUS
  <1>2. PICK A \in G : \A B \in SUBSET A : B # A => B \notin G
    <2>1. G \in SUBSET (SUBSET S)
      OBVIOUS
    <2> HIDE DEF G
    <2>2. QED
      BY <1>1, <2>1, SmallestSet
  <1>3. A \in SUBSET S /\ IsFiniteSet(A) /\ SumFunctionOnSet(g, A) # SumFunctionOnSet(f, A)
    BY FS_Subset
  <1>4. CASE A = {}
    <2>1. SumFunctionOnSet(g, A) = 0 /\ SumFunctionOnSet(f, A) = 0
      BY <1>3, <1>4, SumEquation
    <2>2. QED
      BY <1>3, <2>1
  <1>5. ASSUME NEW x \in A PROVE FALSE
    <2>1. PICK B : B = A \ {x}
      OBVIOUS
    <2>2. B \in SUBSET A /\ B # A /\ B \in SUBSET S
      BY <1>3, <2>1
    <2>3. SumFunctionOnSet(g, B) = SumFunctionOnSet(f, B)
      BY <1>2, <2>2
    <2>4. \A y \in A : f[y] \in Int /\ g[y] \in Int /\ g[y] = f[y]
      BY <1>3
    <2>5. /\ SumFunctionOnSet(f, A) = f[x] + SumFunctionOnSet(f, B)
          /\ SumFunctionOnSet(g, A) = g[x] + SumFunctionOnSet(g, B)
      BY <1>3, <2>1, <2>4, SumRemove
    <2>6. QED
      BY <1>3, <2>3, <2>4, <2>5
  <1>6. QED
    BY <1>4, <1>5

\* A sum of zeros.
LEMMA SumZero ==
    ASSUME NEW S, IsFiniteSet(S), NEW f, \A x \in S : f[x] = 0
    PROVE  SumFunctionOnSet(f, S) = 0
  <1> DEFINE G == {A \in SUBSET S : SumFunctionOnSet(f, A) # 0}
  <1>1. SUFFICES ASSUME G # {} PROVE FALSE
    OBVIOUS
  <1>2. PICK A \in G : \A B \in SUBSET A : B # A => B \notin G
    <2>1. G \in SUBSET (SUBSET S)
      OBVIOUS
    <2> HIDE DEF G
    <2>2. QED
      BY <1>1, <2>1, SmallestSet
  <1>3. A \in SUBSET S /\ IsFiniteSet(A) /\ SumFunctionOnSet(f, A) # 0
    BY FS_Subset
  <1>4. A # {}
    BY <1>3, SumEquation
  <1>5. PICK x \in A : TRUE
    BY <1>4
  <1>6. PICK B : B = A \ {x}
    OBVIOUS
  <1>7. B \in SUBSET A /\ B # A /\ B \in SUBSET S
    BY <1>3, <1>5, <1>6
  <1>8. SumFunctionOnSet(f, B) = 0
    BY <1>2, <1>7
  <1>9. \A y \in A : f[y] \in Int
    BY <1>3
  <1>10. SumFunctionOnSet(f, A) = f[x] + SumFunctionOnSet(f, B) /\ f[x] = 0
    BY <1>3, <1>5, <1>6, <1>9, SumRemove
  <1>11. QED
    BY <1>3, <1>8, <1>10

\* The sum of deltas or counts over the posts, when one of them changes.
LEMMA SumUpdate ==
    ASSUME NEW f \in [Posts -> Int], NEW g \in [Posts -> Int], NEW p \in Posts,
           \A x \in Posts \ {p} : g[x] = f[x]
    PROVE  /\ SumFunction(f) \in Int /\ SumFunction(g) \in Int
           /\ SumFunction(g) = SumFunction(f) - f[p] + g[p]
  <1>1. IsFiniteSet(Posts) /\ IsFiniteSet(Posts \ {p})
    BY PostsAssumption, FS_RemoveElement
  <1>2. SumFunction(f) = SumFunctionOnSet(f, Posts) /\ SumFunction(g) = SumFunctionOnSet(g, Posts)
    BY DEF SumFunction
  <1>3. /\ SumFunctionOnSet(f, Posts) \in Int
        /\ SumFunctionOnSet(f, Posts) = f[p] + SumFunctionOnSet(f, Posts \ {p})
    BY <1>1, SumRemove
  <1>4. /\ SumFunctionOnSet(g, Posts) \in Int
        /\ SumFunctionOnSet(g, Posts) = g[p] + SumFunctionOnSet(g, Posts \ {p})
    BY <1>1, SumRemove
  <1>5. SumFunctionOnSet(g, Posts \ {p}) = SumFunctionOnSet(f, Posts \ {p})
    BY <1>1, SumSame
  <1>6. SumFunctionOnSet(f, Posts \ {p}) \in Int
    BY <1>1, SumRemove
  <1>7. QED
    BY <1>2, <1>3, <1>4, <1>5, <1>6

-----------------------------------------------------------------------------
(***************************************************************************)
(* scaleDeltas hands out exactly what MySQL reported.  The loop over the   *)
(* buckets is a fold too.                                                  *)
(***************************************************************************)

\* One round of the loop, what it starts from, and the equation of the fold.
Round(perPost, raw, real, order, acc, i) ==
    IF acc.remaining <= 0 THEN acc
    ELSE LET b == order[i]
             share == (perPost[b] * real) \div raw
             d == IF i = Len(order) \/ share > acc.remaining
                  THEN acc.remaining ELSE share
         IN  [scaled |-> [acc.scaled EXCEPT ![b] = d],
              remaining |-> acc.remaining - d]
Start(real) == [scaled |-> NoDeltas, remaining |-> real]
Indices(order) == [i \in DOMAIN order |-> i]
Rounds(perPost, raw, real, order, g, s) ==
    IF s = {} THEN Start(real)
    ELSE Round(perPost, raw, real, order, g[s \ {Max(s)}], Indices(order)[Max(s)])
Loops(g, perPost, raw, real, order, D) ==
    g = [s \in D |-> Rounds(perPost, raw, real, order, g, s)]
Loop(perPost, raw, real, order) ==
    CHOOSE g : Loops(g, perPost, raw, real, order, SUBSET (DOMAIN Indices(order)))

\* scaleDeltas is the value of that function.
LEMMA DistributeIsLoop ==
    ASSUME NEW perPost, NEW raw, NEW real, NEW order
    PROVE  Distribute(perPost, raw, real, order)
             = Loop(perPost, raw, real, order)[DOMAIN Indices(order)].scaled
  BY DEF Distribute, FoldLeftDomain, FoldLeft, MapThenFoldSet, Loop, Loops, Rounds, Round,
         Start, Indices

\* A nonempty finite set of naturals has a largest element.
LEMMA MaxIn ==
    ASSUME NEW n \in Nat, NEW s \in SUBSET (1..n), s # {}
    PROVE  Max(s) \in s /\ \A y \in s : Max(s) >= y
  <1> DEFINE T == {k \in Nat : \A y \in s : y <= k}
  <1>1. T \subseteq Nat /\ n \in T
    OBVIOUS
  <1>2. PICK k \in T : \A j \in T : k <= j
    <2> HIDE DEF T
    <2> QED
      BY <1>1, LeastNat
  <1>3. k \in Nat /\ \A y \in s : y \in 1..n /\ y <= k
    OBVIOUS
  <1>4. k \in s
    <2>1. SUFFICES ASSUME k \notin s PROVE FALSE
      OBVIOUS
    <2>2. \A y \in s : y <= k - 1
      BY <1>3, <2>1
    <2>3. k - 1 \in Nat
      <3>1. PICK y \in s : TRUE
        OBVIOUS
      <3>2. y \in 1..n /\ y <= k - 1
        BY <1>3, <2>2
      <3>3. QED
        BY <1>3, <3>2
    <2>4. QED
      BY <1>2, <1>3, <2>2, <2>3
  <1>5. \E x \in s : \A y \in s : x >= y
    BY <1>3, <1>4
  <1>6. QED
    BY <1>5 DEF Max

\* The fold has a solution.
LEMMA LoopExists ==
    ASSUME NEW perPost, NEW raw, NEW real, NEW order, NEW n \in Nat
    PROVE  \E g : Loops(g, perPost, raw, real, order, SUBSET (1..n))
  <1> DEFINE Sub(k) == {s \in SUBSET (1..n) : Cardinality(s) <= k}
             Bad == {k \in Nat : ~\E g : Loops(g, perPost, raw, real, order, Sub(k))}
  <1>0. IsFiniteSet(1..n) /\ Cardinality(1..n) = n
    BY FS_Interval
  <1>1. \A s \in SUBSET (1..n) : IsFiniteSet(s) /\ Cardinality(s) \in Nat /\ Cardinality(s) <= n
    BY <1>0, FS_Subset, FS_CardinalityType
  <1>2. Bad = {}
    <2>1. SUFFICES ASSUME Bad # {} PROVE FALSE
      OBVIOUS
    <2>2. PICK k \in Bad : \A j \in Bad : k <= j
      <3>1. Bad \subseteq Nat
        OBVIOUS
      <3> HIDE DEF Bad
      <3>2. QED
        BY <2>1, <3>1, LeastNat
    <2>3. k \in Nat /\ ~\E g : Loops(g, perPost, raw, real, order, Sub(k))
      OBVIOUS
    <2>4. CASE k = 0
      <3>1. \A s \in Sub(k) : s = {}
        BY <1>1, <2>4, FS_EmptySet
      <3> DEFINE g == [s \in Sub(k) |-> Start(real)]
      <3>2. g = [s \in Sub(k) |-> Rounds(perPost, raw, real, order, g, s)]
        BY <3>1 DEF Rounds
      <3>3. QED
        BY <2>3, <3>2 DEF Loops
    <2>5. CASE k # 0
      <3>1. k - 1 \in Nat /\ k - 1 \notin Bad
        <4>1. k - 1 \in Nat /\ ~(k <= k - 1)
          BY <2>3, <2>5
        <4> HIDE DEF Bad
        <4>2. QED
          BY <2>2, <4>1
      <3>2. PICK g : Loops(g, perPost, raw, real, order, Sub(k - 1))
        BY <3>1
      <3>3. \A s \in Sub(k - 1) : g[s] = Rounds(perPost, raw, real, order, g, s)
        BY <3>2 DEF Loops
      <3> DEFINE h == [s \in Sub(k) |-> Rounds(perPost, raw, real, order, g, s)]
      <3>4. ASSUME NEW s \in Sub(k)
            PROVE  Rounds(perPost, raw, real, order, g, s) = Rounds(perPost, raw, real, order, h, s)
        <4>1. CASE s = {}
          BY <4>1 DEF Rounds
        <4>2. CASE s # {}
          <5>1. PICK u : u = s \ {Max(s)}
            OBVIOUS
          <5>2. Max(s) \in s
            BY <4>2, MaxIn
          <5>3. u \in SUBSET (1..n) /\ Cardinality(u) = Cardinality(s) - 1
            BY <1>1, <5>1, <5>2, FS_RemoveElement
          <5>4. u \in Sub(k - 1) /\ u \in Sub(k)
            BY <1>1, <2>3, <5>3
          <5>5. h[u] = g[u]
            BY <3>3, <5>4
          <5> HIDE DEF h
          <5>6. QED
            BY <4>2, <5>1, <5>5 DEF Rounds
        <4>3. QED
          BY <4>1, <4>2
      <3>5. h = [s \in Sub(k) |-> Rounds(perPost, raw, real, order, h, s)]
        BY <3>4
      <3>6. QED
        BY <2>3, <3>5 DEF Loops
    <2>6. QED
      BY <2>4, <2>5
  <1>3. Sub(n) = SUBSET (1..n)
    BY <1>1
  <1>4. QED
    BY <1>2, <1>3

\* The state of the loop after k rounds.
After(perPost, raw, real, order, k) == Loop(perPost, raw, real, order)[1..k]

\* It starts with everything to hand out and goes on round by round.
Unrolled(perPost, raw, real, order, n) ==
    /\ After(perPost, raw, real, order, 0) = Start(real)
    /\ \A k \in 0..(n - 1) :
          After(perPost, raw, real, order, k + 1)
            = Round(perPost, raw, real, order, After(perPost, raw, real, order, k), k + 1)
    /\ Distribute(perPost, raw, real, order) = After(perPost, raw, real, order, n).scaled

\* The fold over the indices of the order is that sequence of rounds.
LEMMA LoopRounds ==
    ASSUME NEW perPost, NEW raw, NEW real, NEW order, NEW n \in Nat, DOMAIN order = 1..n
    PROVE  Unrolled(perPost, raw, real, order, n)
  <1>1. DOMAIN Indices(order) = 1..n /\ \A i \in 1..n : Indices(order)[i] = i
    BY DEF Indices
  <1>2. PICK g : g = Loop(perPost, raw, real, order)
    OBVIOUS
  <1>3. Loops(g, perPost, raw, real, order, SUBSET (1..n))
    BY <1>1, <1>2, LoopExists DEF Loop
  <1>4. \A s \in SUBSET (1..n) : g[s] = Rounds(perPost, raw, real, order, g, s)
    <2>1. g = [s \in SUBSET (1..n) |-> Rounds(perPost, raw, real, order, g, s)]
      BY <1>3 DEF Loops
    <2>2. QED
      BY <2>1
  <1>5. g[{}] = Start(real)
    BY <1>4 DEF Rounds
  <1>6. 1..0 = {}
    OBVIOUS
  <1>7. ASSUME NEW k \in 0..(n - 1)
        PROVE  g[1..(k + 1)] = Round(perPost, raw, real, order, g[1..k], k + 1)
    <2>1. PICK s : s = 1..(k + 1)
      OBVIOUS
    <2>2. s \in SUBSET (1..n) /\ s # {} /\ k + 1 \in s /\ k + 1 \in 1..n
      <3>1. k \in Nat /\ k + 1 \in Nat /\ k + 1 >= 1 /\ k + 1 <= n
        OBVIOUS
      <3>2. k + 1 \in s /\ k + 1 \in 1..n
        BY <2>1, <3>1
      <3>3. \A i \in s : i \in 1..n
        BY <2>1, <3>1
      <3>4. QED
        BY <3>2, <3>3
    <2>3. Max(s) \in s /\ Max(s) >= k + 1
      BY <2>2, MaxIn
    <2>4. Max(s) = k + 1
      BY <2>1, <2>3
    <2>5. s \ {k + 1} = 1..k
      BY <2>1
    <2>6. g[s] = Round(perPost, raw, real, order, g[s \ {Max(s)}], Indices(order)[Max(s)])
      BY <1>4, <2>2 DEF Rounds
    <2>7. Indices(order)[k + 1] = k + 1
      BY <1>1, <2>2
    <2>8. QED
      BY <2>1, <2>4, <2>5, <2>6, <2>7
  <1>8. Distribute(perPost, raw, real, order) = g[1..n].scaled
    BY <1>1, <1>2, DistributeIsLoop
  <1>9. QED
    BY <1>2, <1>5, <1>6, <1>7, <1>8 DEF After, Unrolled

\* After k rounds: what was handed out and what remains is what MySQL reported, and
\* the buckets not visited have nothing yet; after the last round nothing remains.
Handed(acc, real, order, n, k) ==
    /\ acc.scaled \in [Posts -> Nat]
    /\ acc.remaining \in Nat
    /\ SumFunction(acc.scaled) + acc.remaining = real
    /\ \A j \in (k + 1)..n : acc.scaled[order[j]] = 0
    /\ k = n => acc.remaining = 0

\* A share is a natural number.
LEMMA ShareNat ==
    ASSUME NEW a \in Nat, NEW b \in Nat, NEW c \in Nat, c # 0
    PROVE  (a * b) \div c \in Nat
  <1>1. PICK m : m = a * b
    OBVIOUS
  <1>2. m \in Nat
    BY <1>1
  <1>3. m \div c \in Nat
    BY <1>2
  <1>4. QED
    BY <1>1, <1>3

\* One round keeps that.
LEMMA RoundHands ==
    ASSUME NEW perPost \in [Posts -> Nat], NEW raw \in Nat, raw # 0, NEW real \in Nat,
           NEW n \in Nat, NEW order, DOMAIN order = 1..n, Len(order) = n,
           \A i \in 1..n : order[i] \in Posts,
           \A i, j \in 1..n : order[i] = order[j] => i = j,
           NEW k \in 0..(n - 1), NEW acc, Handed(acc, real, order, n, k)
    PROVE  Handed(Round(perPost, raw, real, order, acc, k + 1), real, order, n, k + 1)
  <1>0. k \in Nat /\ k + 1 \in 1..n /\ k + 1 \in (k + 1)..n
    OBVIOUS
  <1>1. PICK f, m : f = acc.scaled /\ m = acc.remaining
    OBVIOUS
  <1>2. /\ f \in [Posts -> Nat] /\ m \in Nat /\ SumFunction(f) + m = real
        /\ \A j \in (k + 1)..n : f[order[j]] = 0
    BY <1>1 DEF Handed
  <1>3. CASE m <= 0
    <2>1. Round(perPost, raw, real, order, acc, k + 1) = acc
      BY <1>1, <1>3 DEF Round
    <2>2. m = 0 /\ \A j \in (k + 2)..n : j \in (k + 1)..n
      BY <1>2, <1>3
    <2>3. \A j \in (k + 1 + 1)..n : f[order[j]] = 0
      BY <1>0, <1>2
    <2>4. Handed(acc, real, order, n, k + 1)
      BY <1>1, <1>2, <2>2, <2>3 DEF Handed
    <2>5. QED
      BY <2>1, <2>4
  <1>4. CASE ~(m <= 0)
    <2>1. PICK b : b = order[k + 1]
      OBVIOUS
    <2>2. b \in Posts /\ f[b] = 0
      BY <1>0, <1>2, <2>1
    <2>3. PICK share : share = (perPost[b] * real) \div raw
      OBVIOUS
    <2>4. share \in Nat
      BY <2>2, <2>3, ShareNat
    <2>5. PICK d : d = IF k + 1 = n \/ share > m THEN m ELSE share
      OBVIOUS
    <2>6. d \in Nat /\ d <= m /\ (k + 1 = n => d = m)
      BY <1>2, <2>4, <2>5
    <2>7. PICK h : h = [f EXCEPT ![b] = d]
      OBVIOUS
    <2>8. Round(perPost, raw, real, order, acc, k + 1) = [scaled |-> h, remaining |-> m - d]
      BY <1>1, <1>4, <2>1, <2>3, <2>5, <2>7 DEF Round
    <2>9. h \in [Posts -> Nat] /\ h[b] = d /\ \A x \in Posts \ {b} : h[x] = f[x]
      BY <1>2, <2>2, <2>6, <2>7
    <2>10. SumFunction(h) = SumFunction(f) + d /\ SumFunction(f) \in Int
      <3>1. f \in [Posts -> Int] /\ h \in [Posts -> Int]
        BY <1>2, <2>9
      <3>2. /\ SumFunction(f) \in Int
            /\ SumFunction(h) = SumFunction(f) - f[b] + h[b]
        BY <2>2, <2>9, <3>1, SumUpdate
      <3>3. QED
        BY <2>2, <2>6, <2>9, <3>2
    <2>11. m - d \in Nat /\ SumFunction(h) + (m - d) = real /\ (k + 1 = n => m - d = 0)
      BY <1>2, <2>6, <2>10
    <2>12. ASSUME NEW j \in (k + 1 + 1)..n PROVE h[order[j]] = 0
      <3>1. j \in (k + 1)..n /\ j \in 1..n /\ j # k + 1
        BY <1>0
      <3>2. order[j] \in Posts \ {b}
        BY <1>0, <2>1, <3>1
      <3>3. QED
        BY <1>2, <2>9, <3>1, <3>2
    <2>13. PICK a : a = [scaled |-> h, remaining |-> m - d]
      OBVIOUS
    <2>14. a.scaled = h /\ a.remaining = m - d
      BY <2>13
    <2>15. Handed(a, real, order, n, k + 1)
      BY <2>9, <2>11, <2>12, <2>14 DEF Handed
    <2>16. QED
      BY <2>8, <2>13, <2>15
  <1>5. QED
    BY <1>3, <1>4

\* scaleDeltas with fewer effects than events: the deltas add up to the effects,
\* whatever the order of the buckets.
LEMMA DistributeSum ==
    ASSUME NEW perPost \in [Posts -> Nat], NEW raw \in Nat, raw # 0, NEW real \in Nat,
           Buckets(perPost) # {}, NEW order \in Orders(perPost)
    PROVE  /\ Distribute(perPost, raw, real, order) \in [Posts -> Nat]
           /\ SumFunction(Distribute(perPost, raw, real, order)) = real
  <1>1. PICK B : B = Buckets(perPost)
    OBVIOUS
  <1>2. PICK n : n = Cardinality(B)
    OBVIOUS
  <1>3. B \in SUBSET Posts /\ B # {} /\ IsFiniteSet(B) /\ n \in Nat /\ n # 0
    <2>1. B \in SUBSET Posts
      BY <1>1 DEF Buckets
    <2>2. IsFiniteSet(B)
      BY <2>1, PostsAssumption, FS_Subset
    <2>3. QED
      BY <1>1, <1>2, <2>1, <2>2, FS_CardinalityType, FS_EmptySet
  <1>4. order \in [1..n -> B] /\ \A i, j \in 1..n : i # j => order[i] # order[j]
    BY <1>1, <1>2 DEF Orders, SetToSeqs
  <1>5. DOMAIN order = 1..n /\ Len(order) = n
    <2>1. order \in Seq(B)
      BY <1>3, <1>4, SeqDef
    <2>2. QED
      BY <1>3, <1>4, <2>1
  <1>6. /\ \A i \in 1..n : order[i] \in Posts
        /\ \A i, j \in 1..n : order[i] = order[j] => i = j
    BY <1>3, <1>4
  <1> DEFINE A(k) == After(perPost, raw, real, order, k)
             Bad == {k \in 0..n : ~Handed(A(k), real, order, n, k)}
  <1>7. /\ A(0) = Start(real)
        /\ \A k \in 0..(n - 1) : A(k + 1) = Round(perPost, raw, real, order, A(k), k + 1)
        /\ Distribute(perPost, raw, real, order) = A(n).scaled
    <2> HIDE DEF Bad
    <2>1. n \in Nat /\ DOMAIN order = 1..n
      BY <1>3, <1>5
    <2>2. Unrolled(perPost, raw, real, order, n)
      BY <2>1, LoopRounds
    <2>3. QED
      BY <2>2 DEF Unrolled
  <1>8. Handed(A(0), real, order, n, 0)
    <2>1. PICK a : a = Start(real)
      OBVIOUS
    <2>2. a.scaled = NoDeltas /\ a.remaining = real
      BY <2>1 DEF Start
    <2>3. NoDeltas \in [Posts -> Nat] /\ \A x \in Posts : NoDeltas[x] = 0
      BY DEF NoDeltas
    <2>4. SumFunction(NoDeltas) = 0
      <3>1. DOMAIN NoDeltas = Posts
        BY DEF NoDeltas
      <3>2. SumFunctionOnSet(NoDeltas, Posts) = 0
        BY <2>3, PostsAssumption, SumZero
      <3>3. QED
        BY <3>1, <3>2 DEF SumFunction
    <2>5. \A j \in (0 + 1)..n : NoDeltas[order[j]] = 0
      BY <1>6, <2>3
    <2>6. Handed(a, real, order, n, 0)
      BY <1>3, <2>2, <2>3, <2>4, <2>5 DEF Handed
    <2>7. QED
      BY <1>7, <2>1, <2>6
  <1> HIDE DEF A
  <1>9. Bad = {}
    <2>1. SUFFICES ASSUME Bad # {} PROVE FALSE
      OBVIOUS
    <2>2. Bad \subseteq Nat
      BY <1>3
    <2>3. PICK k \in Bad : \A j \in Bad : k <= j
      <3> HIDE DEF Bad
      <3> QED
        BY <2>1, <2>2, LeastNat
    <2>4. k \in 0..n /\ k # 0 /\ ~Handed(A(k), real, order, n, k)
      BY <1>8, <2>3
    <2>5. PICK m \in 0..(n - 1) : k = m + 1
      <3>1. k - 1 \in 0..(n - 1) /\ k = (k - 1) + 1
        BY <1>3, <2>4
      <3>2. QED
        BY <3>1
    <2>6. m \notin Bad /\ m \in 0..n
      <3>1. ~(k <= m) /\ m \in 0..n
        BY <1>3, <2>5
      <3> HIDE DEF Bad
      <3>2. QED
        BY <2>3, <3>1
    <2>7. PICK a : a = A(m)
      OBVIOUS
    <2>8. Handed(a, real, order, n, m)
      BY <2>6, <2>7
    <2>9. Handed(Round(perPost, raw, real, order, a, m + 1), real, order, n, m + 1)
      BY <1>3, <1>5, <1>6, <2>8, RoundHands
    <2>10. A(k) = Round(perPost, raw, real, order, a, m + 1)
      BY <1>7, <2>5, <2>7
    <2>11. QED
      BY <2>4, <2>5, <2>9, <2>10
  <1>10. Handed(A(n), real, order, n, n)
    BY <1>3, <1>9
  <1>11. PICK a : a = A(n)
    OBVIOUS
  <1>12. /\ a.scaled \in [Posts -> Nat] /\ a.remaining = 0
         /\ SumFunction(a.scaled) + a.remaining = real
    BY <1>10, <1>11 DEF Handed
  <1>13. SumFunction(a.scaled) \in Int
    <2>1. PICK f : f = a.scaled
      OBVIOUS
    <2>2. f \in [Posts -> Int] /\ DOMAIN f = Posts
      BY <1>12, <2>1
    <2>3. SumFunctionOnSet(f, Posts) \in Int
      BY <2>2, PostsAssumption, SumRemove
    <2>4. QED
      BY <2>1, <2>2, <2>3 DEF SumFunction
  <1>14. QED
    BY <1>7, <1>11, <1>12, <1>13

\* The events per post of a batch add up to its length.
LEMMA PerPostSum ==
    ASSUME NEW q \in Seq(Pairs)
    PROVE  PerPost(q) \in [Posts -> Nat] /\ SumFunction(PerPost(q)) = Len(q)
  <1>0. DOMAIN q = 1..Len(q) /\ Len(q) \in Nat
    OBVIOUS
  <1>1. \A i \in 1..Len(q) : q[i][2] \in Posts
    BY <1>0 DEF Pairs
  <1>2. IsFiniteSet(1..Len(q)) /\ Cardinality(1..Len(q)) = Len(q)
    BY <1>0, FS_Interval
  <1> DEFINE On(I, p) == {i \in I : q[i][2] = p}
             C(I) == [p \in Posts |-> Cardinality(On(I, p))]
             G == {I \in SUBSET (1..Len(q)) : SumFunction(C(I)) # Cardinality(I)}
  <1>3. ASSUME NEW I \in SUBSET (1..Len(q))
        PROVE  IsFiniteSet(I) /\ C(I) \in [Posts -> Nat]
    <2>1. IsFiniteSet(I)
      BY <1>2, FS_Subset
    <2>2. \A p \in Posts : On(I, p) \in SUBSET I
      OBVIOUS
    <2>3. \A p \in Posts : Cardinality(On(I, p)) \in Nat
      <3> HIDE DEF On
      <3> QED
        BY <2>1, <2>2, FS_Subset, FS_CardinalityType
    <2>4. QED
      BY <2>1, <2>3
  <1>4. G = {}
    <2>1. SUFFICES ASSUME G # {} PROVE FALSE
      OBVIOUS
    <2>2. PICK I \in G : \A J \in SUBSET I : J # I => J \notin G
      <3>1. G \in SUBSET (SUBSET (1..Len(q)))
        OBVIOUS
      <3> HIDE DEF G
      <3>2. QED
        BY <1>2, <2>1, <3>1, SmallestSet
    <2>3. I \in SUBSET (1..Len(q)) /\ IsFiniteSet(I) /\ SumFunction(C(I)) # Cardinality(I)
      BY <1>3
    <2>4. CASE I = {}
      <3>1. C(I) = NoDeltas
        <4>1. \A p \in Posts : On(I, p) = {}
          BY <2>4
        <4>2. \A p \in Posts : Cardinality(On(I, p)) = 0
          BY <4>1, FS_EmptySet
        <4>3. QED
          BY <4>2 DEF NoDeltas
      <3>2. DOMAIN NoDeltas = Posts /\ \A x \in Posts : NoDeltas[x] = 0
        BY DEF NoDeltas
      <3>3. SumFunctionOnSet(NoDeltas, Posts) = 0
        BY <3>2, PostsAssumption, SumZero
      <3>4. SumFunction(C(I)) = 0
        BY <3>1, <3>2, <3>3 DEF SumFunction
      <3>5. QED
        BY <2>3, <2>4, <3>4, FS_EmptySet
    <2>5. ASSUME NEW i \in I PROVE FALSE
      <3>1. PICK J : J = I \ {i}
        OBVIOUS
      <3>2. J \in SUBSET I /\ J # I /\ J \in SUBSET (1..Len(q)) /\ IsFiniteSet(J)
        BY <1>3, <2>3, <2>5, <3>1
      <3>3. SumFunction(C(J)) = Cardinality(J)
        BY <2>2, <3>2
      <3>4. PICK p : p = q[i][2]
        OBVIOUS
      <3>5. p \in Posts
        BY <1>1, <2>3, <2>5, <3>4
      <3>6. \A x \in Posts \ {p} : On(I, x) = On(J, x)
        BY <3>1, <3>4
      <3>7. On(J, p) = On(I, p) \ {i} /\ i \in On(I, p) /\ On(I, p) \in SUBSET I
        BY <2>5, <3>1, <3>4
      <3>8. Cardinality(On(I, p)) = Cardinality(On(J, p)) + 1
        <4> HIDE DEF On
        <4>1. IsFiniteSet(On(I, p))
          BY <2>3, <3>7, FS_Subset
        <4>2. Cardinality(On(I, p)) \in Nat /\ Cardinality(On(I, p) \ {i}) = Cardinality(On(I, p)) - 1
          BY <3>7, <4>1, FS_RemoveElement, FS_CardinalityType
        <4>3. QED
          BY <3>7, <4>2
      <3>9. PICK f, g : f = C(J) /\ g = C(I)
        OBVIOUS
      <3>10. f \in [Posts -> Nat] /\ g \in [Posts -> Nat]
        BY <1>3, <2>3, <3>2, <3>9
      <3>11. g[p] = f[p] + 1 /\ \A x \in Posts \ {p} : g[x] = f[x]
        BY <3>5, <3>6, <3>8, <3>9
      <3>12. /\ SumFunction(f) \in Int
             /\ SumFunction(g) = SumFunction(f) - f[p] + g[p]
        <4>1. f \in [Posts -> Int] /\ g \in [Posts -> Int]
          BY <3>10
        <4>2. QED
          BY <3>5, <3>11, <4>1, SumUpdate
      <3>13. SumFunction(g) = SumFunction(f) + 1
        BY <3>5, <3>10, <3>11, <3>12
      <3>14. Cardinality(J) = Cardinality(I) - 1 /\ Cardinality(I) \in Nat
        BY <2>3, <2>5, <3>1, FS_RemoveElement, FS_CardinalityType
      <3> HIDE DEF C
      <3>15. QED
        BY <2>3, <3>3, <3>9, <3>13, <3>14
    <2>6. QED
      BY <2>4, <2>5
  <1>5. C(1..Len(q)) = PerPost(q)
    BY <1>0 DEF PerPost
  <1>6. SumFunction(C(1..Len(q))) = Cardinality(1..Len(q))
    BY <1>4
  <1> HIDE DEF C
  <1>7. QED
    BY <1>2, <1>3, <1>5, <1>6

\* What a batch's statement reports is what its UPDATE loop will apply.
LEMMA ApportionSum ==
    ASSUME NEW q \in Seq(Pairs), q # <<>>, NEW T \in SUBSET Range(q),
           Apportion(q, Cardinality(T))
    PROVE  deltas' \in [Posts -> Nat] /\ SumFunction(deltas') = Cardinality(T)
  <1>1. DOMAIN q = 1..Len(q) /\ Len(q) \in Nat /\ Len(q) # 0 /\ q \in [1..Len(q) -> Pairs]
    OBVIOUS
  <1>2. PICK real : real = Cardinality(T)
    OBVIOUS
  <1>3. real \in Nat /\ real <= Len(q)
    <2>1. IsFiniteSet(1..Len(q)) /\ Cardinality(1..Len(q)) = Len(q)
      BY <1>1, FS_Interval
    <2>2. q \in Surjection(1..Len(q), Range(q))
      BY <1>1 DEF Surjection, Range
    <2>3. IsFiniteSet(Range(q)) /\ Cardinality(Range(q)) <= Len(q)
      BY <2>1, <2>2, FS_Surjection
    <2>4. IsFiniteSet(T) /\ Cardinality(T) <= Cardinality(Range(q))
      BY <2>3, FS_Subset
    <2>5. Cardinality(T) \in Nat /\ Cardinality(Range(q)) \in Nat
      BY <2>3, <2>4, FS_CardinalityType
    <2>6. QED
      BY <1>1, <1>2, <2>3, <2>4, <2>5
  <1>4. PICK perPost : perPost = PerPost(q)
    OBVIOUS
  <1>5. perPost \in [Posts -> Nat] /\ SumFunction(perPost) = Len(q)
    BY <1>4, PerPostSum
  <1>6. PICK order \in Orders(perPost) : deltas' = scaleDeltas(perPost, Len(q), real, order)
    BY <1>2, <1>4 DEF Apportion
  <1>z. /\ NoDeltas \in [Posts -> Nat] /\ DOMAIN NoDeltas = Posts
        /\ \A x \in Posts : NoDeltas[x] = 0
    BY DEF NoDeltas
  <1>7. CASE real <= 0
    <2>1. deltas' = NoDeltas /\ real = 0
      BY <1>3, <1>6, <1>7 DEF scaleDeltas
    <2>2. SumFunctionOnSet(NoDeltas, Posts) = 0
      BY <1>z, PostsAssumption, SumZero
    <2>3. QED
      BY <1>2, <1>z, <2>1, <2>2 DEF SumFunction
  <1>8. CASE ~(real <= 0) /\ real >= Len(q)
    <2>1. deltas' = perPost /\ real = Len(q)
      BY <1>1, <1>3, <1>6, <1>8 DEF scaleDeltas
    <2>2. QED
      BY <1>2, <1>5, <2>1
  <1>9. CASE ~(real <= 0) /\ ~(real >= Len(q))
    <2>1. deltas' = Distribute(perPost, Len(q), real, order)
      BY <1>6, <1>9 DEF scaleDeltas
    <2>2. Buckets(perPost) # {}
      <3>1. SUFFICES ASSUME Buckets(perPost) = {} PROVE FALSE
        OBVIOUS
      <3>2. \A x \in Posts : perPost[x] = 0
        BY <1>5, <3>1 DEF Buckets
      <3>3. SumFunctionOnSet(perPost, Posts) = 0
        BY <3>2, PostsAssumption, SumZero
      <3>4. QED
        BY <1>1, <1>5, <3>3 DEF SumFunction
    <2>3. PICK raw : raw = Len(q)
      OBVIOUS
    <2>4. /\ Distribute(perPost, raw, real, order) \in [Posts -> Nat]
          /\ SumFunction(Distribute(perPost, raw, real, order)) = real
      BY <1>1, <1>3, <1>5, <2>2, <2>3, DistributeSum
    <2>5. QED
      BY <1>2, <2>1, <2>3, <2>4
  <1>10. QED
    BY <1>7, <1>8, <1>9

-----------------------------------------------------------------------------
(***************************************************************************)
(* The counts add up.                                                      *)
(***************************************************************************)

\* The counts, with what the UPDATE loop still owes them, add up to at least the rows.
Covered ==
    CASE step = "incr" -> SumFunction(likeCount) + SumFunction(deltas) >= Cardinality(likes)
      [] step = "decr" -> SumFunction(likeCount) >= Cardinality(likes) + SumFunction(deltas)
      [] OTHER         -> SumFunction(likeCount) >= Cardinality(likes)

TotalInv ==
    faults = 0 =>
       /\ likeCount \in [Posts -> Nat] /\ deltas \in [Posts -> Nat]
       /\ step \notin {"incr", "decr"} => deltas = NoDeltas
       /\ Covered

\* The sums are integers, and nothing is owed when there are no deltas.
LEMMA SumTypes ==
    ASSUME NEW f \in [Posts -> Nat]
    PROVE  SumFunction(f) \in Int /\ (f = NoDeltas => SumFunction(f) = 0)
  <1>1. DOMAIN f = Posts /\ \A x \in Posts : f[x] \in Int
    OBVIOUS
  <1>2. SumFunctionOnSet(f, Posts) \in Int
    BY <1>1, PostsAssumption, SumRemove
  <1>3. ASSUME f = NoDeltas PROVE SumFunctionOnSet(f, Posts) = 0
    <2>1. \A x \in Posts : f[x] = 0
      BY <1>3 DEF NoDeltas
    <2>2. QED
      BY <2>1, PostsAssumption, SumZero
  <1>4. QED
    BY <1>1, <1>2, <1>3 DEF SumFunction

\* One entry of a function of the posts is replaced.
Replaced(g, f, p, v) == g = [f EXCEPT ![p] = v]

\* One UPDATE: the count gains or loses the delta, or is clamped at zero.
LEMMA UpdateSums ==
    ASSUME NEW f \in [Posts -> Nat], NEW d \in [Posts -> Nat], NEW p \in Posts, NEW v \in Nat,
           NEW g, Replaced(g, f, p, v), NEW z \in Nat, z = 0, NEW e, Replaced(e, d, p, z)
    PROVE  /\ g \in [Posts -> Nat] /\ e \in [Posts -> Nat]
           /\ SumFunction(f) \in Int /\ SumFunction(d) \in Int
           /\ SumFunction(g) = SumFunction(f) - f[p] + v
           /\ SumFunction(e) = SumFunction(d) - d[p]
  <1>1. /\ g \in [Posts -> Nat] /\ e \in [Posts -> Nat] /\ g[p] = v /\ e[p] = 0
        /\ \A x \in Posts \ {p} : g[x] = f[x]
        /\ \A x \in Posts \ {p} : e[x] = d[x]
    BY DEF Replaced
  <1>2. /\ f \in [Posts -> Int] /\ d \in [Posts -> Int]
        /\ g \in [Posts -> Int] /\ e \in [Posts -> Int]
    BY <1>1
  <1>3. SumFunction(f) \in Int /\ SumFunction(g) = SumFunction(f) - f[p] + g[p]
    BY <1>1, <1>2, SumUpdate
  <1>4. SumFunction(d) \in Int /\ SumFunction(e) = SumFunction(d) - d[p] + e[p]
    <2>1. d \in [Posts -> Int] /\ e \in [Posts -> Int] /\ \A x \in Posts \ {p} : e[x] = d[x]
      BY <1>1, <1>2
    <2>2. QED
      BY <2>1, SumUpdate
  <1>5. SumFunction(e) = SumFunction(d) - d[p]
    BY <1>1, <1>2, <1>4
  <1>6. QED
    BY <1>1, <1>3, <1>4, <1>5

\* Every step keeps the total.
LEMMA TotalStep == BaseInv /\ TotalInv /\ [Next]_vars => TotalInv'
  <1> SUFFICES ASSUME BaseInv, TotalInv, [Next]_vars, faults' = 0
               PROVE  /\ likeCount' \in [Posts -> Nat] /\ deltas' \in [Posts -> Nat]
                      /\ step' \notin {"incr", "decr"} => deltas' = NoDeltas
                      /\ Covered'
    BY DEF TotalInv
  <1>0. /\ faults \in Nat /\ IsFiniteSet(likes)
        /\ likeBuf \in Seq(Pairs) /\ unlikeBuf \in Seq(Pairs)
    BY DEF BaseInv
  <1>f. ~Fault
    BY <1>0 DEF Fault
  <1>c. ASSUME faults = 0
        PROVE  /\ likeCount \in [Posts -> Nat] /\ deltas \in [Posts -> Nat]
               /\ step \notin {"incr", "decr"} => deltas = NoDeltas
               /\ Covered
    BY <1>c DEF TotalInv
  <1>1. ASSUME UNCHANGED <<likes, likeCount, deltas, faults>>,
               step \in {"select", "insert", "delete"} \/ deltas = NoDeltas,
               step' \in {"select", "insert", "delete"}
        PROVE  /\ likeCount' \in [Posts -> Nat] /\ deltas' \in [Posts -> Nat]
               /\ step' \notin {"incr", "decr"} => deltas' = NoDeltas
               /\ Covered'
    <2>1. likeCount \in [Posts -> Nat] /\ deltas \in [Posts -> Nat] /\ deltas = NoDeltas /\ Covered
      BY <1>1, <1>c
    <2>2. SumFunction(deltas) = 0 /\ SumFunction(likeCount) \in Int /\ Cardinality(likes) \in Nat
      BY <1>0, <2>1, SumTypes, FS_CardinalityType
    <2>3. SumFunction(likeCount) >= Cardinality(likes)
      BY <2>1, <2>2 DEF Covered
    <2>4. Covered'
      BY <1>1, <2>3 DEF Covered
    <2>5. QED
      BY <1>1, <2>1, <2>4
  <1>2. ASSUME NEW x \in Pairs, NEW kind \in {"like", "unlike"}, LoopRecv(x, kind)
        PROVE  /\ likeCount' \in [Posts -> Nat] /\ deltas' \in [Posts -> Nat]
               /\ step' \notin {"incr", "decr"} => deltas' = NoDeltas
               /\ Covered'
    BY <1>1, <1>2 DEF LoopRecv, StartFlush
  <1>3. CASE LoopTick
    BY <1>1, <1>3 DEF LoopTick, StartFlush
  <1>4. CASE BatchInsert
    <2>1. PICK T : T = Range(likeBuf) \ likes
      OBVIOUS
    <2>2. /\ step = "insert" /\ step' = "incr" /\ likeBuf # <<>> /\ faults' = faults
          /\ likeCount' = likeCount /\ likes' = likes \cup Range(likeBuf)
          /\ Apportion(likeBuf, Cardinality(T))
      BY <1>4, <2>1 DEF BatchInsert
    <2>3. IsFiniteSet(Range(likeBuf)) /\ T \in SUBSET Range(likeBuf)
      BY <1>0, <2>1, RangeFinite
    <2>4. IsFiniteSet(T)
      BY <2>3, FS_Subset
    <2>5. deltas' \in [Posts -> Nat] /\ SumFunction(deltas') = Cardinality(T)
      BY <1>0, <2>2, <2>3, ApportionSum
    <2>6. Cardinality(likes') = Cardinality(likes) + Cardinality(T)
      <3>1. likes' = likes \cup T /\ likes \cap T = {}
        BY <2>1, <2>2
      <3>2. Cardinality(likes \cup T) = Cardinality(likes) + Cardinality(T) - Cardinality(likes \cap T)
        BY <1>0, <2>4, FS_Union
      <3>3. Cardinality(likes \cap T) = 0
        BY <3>1, FS_EmptySet
      <3>4. Cardinality(likes) \in Nat /\ Cardinality(T) \in Nat
        BY <1>0, <2>4, FS_CardinalityType
      <3>5. QED
        BY <3>1, <3>2, <3>3, <3>4
    <2>7. likeCount \in [Posts -> Nat] /\ SumFunction(likeCount) >= Cardinality(likes)
      BY <1>c, <2>2 DEF Covered
    <2>8. SumFunction(likeCount) \in Int /\ Cardinality(likes) \in Nat /\ Cardinality(T) \in Nat
      BY <1>0, <2>4, <2>7, SumTypes, FS_CardinalityType
    <2>9. SumFunction(likeCount') + SumFunction(deltas') >= Cardinality(likes')
      BY <2>2, <2>5, <2>6, <2>7, <2>8
    <2>10. Covered'
      BY <2>2, <2>9 DEF Covered
    <2>11. QED
      BY <2>2, <2>5, <2>7, <2>10
  <1>5. CASE BatchDelete
    <2>1. PICK T : T = Range(unlikeBuf) \cap likes
      OBVIOUS
    <2>2. /\ step = "delete" /\ step' = "decr" /\ unlikeBuf # <<>> /\ faults' = faults
          /\ likeCount' = likeCount /\ likes' = likes \ Range(unlikeBuf)
          /\ Apportion(unlikeBuf, Cardinality(T))
      BY <1>5, <2>1 DEF BatchDelete
    <2>3. IsFiniteSet(Range(unlikeBuf)) /\ T \in SUBSET Range(unlikeBuf)
      BY <1>0, <2>1, RangeFinite
    <2>4. IsFiniteSet(T)
      BY <2>3, FS_Subset
    <2>5. deltas' \in [Posts -> Nat] /\ SumFunction(deltas') = Cardinality(T)
      BY <1>0, <2>2, <2>3, ApportionSum
    <2>6. Cardinality(likes) = Cardinality(likes') + Cardinality(T) /\ Cardinality(likes') \in Nat
      <3>1. likes' = likes \ T /\ likes \cap T = T
        BY <2>1, <2>2
      <3>2. IsFiniteSet(likes \ T) /\ Cardinality(likes \ T) = Cardinality(likes) - Cardinality(likes \cap T)
        BY <1>0, FS_Difference
      <3>3. Cardinality(likes) \in Nat /\ Cardinality(T) \in Nat /\ Cardinality(likes \ T) \in Nat
        BY <1>0, <2>4, <3>2, FS_CardinalityType
      <3>4. QED
        BY <3>1, <3>2, <3>3
    <2>7. likeCount \in [Posts -> Nat] /\ SumFunction(likeCount) >= Cardinality(likes)
      BY <1>c, <2>2 DEF Covered
    <2>8. SumFunction(likeCount') >= Cardinality(likes') + SumFunction(deltas')
      BY <2>2, <2>5, <2>6, <2>7
    <2>9. Covered'
      BY <2>2, <2>8 DEF Covered
    <2>10. QED
      BY <2>2, <2>5, <2>7, <2>9
  <1>6. ASSUME NEW p \in Posts, IncrPostLikeCount(p)
        PROVE  /\ likeCount' \in [Posts -> Nat] /\ deltas' \in [Posts -> Nat]
               /\ step' \notin {"incr", "decr"} => deltas' = NoDeltas
               /\ Covered'
    <2>1. /\ step = "incr" /\ step' = "incr" /\ UNCHANGED <<likes, faults>>
          /\ likeCount' = [likeCount EXCEPT ![p] = @ + deltas[p]]
          /\ deltas' = [deltas EXCEPT ![p] = 0]
      BY <1>6 DEF IncrPostLikeCount, UpdatePost, Incremented
    <2>2. /\ likeCount \in [Posts -> Nat] /\ deltas \in [Posts -> Nat]
          /\ SumFunction(likeCount) + SumFunction(deltas) >= Cardinality(likes)
      BY <1>c, <2>1 DEF Covered
    <2>3. PICK v \in Nat : v = likeCount[p] + deltas[p]
      BY <2>2
    <2>4. likeCount' = [likeCount EXCEPT ![p] = v]
      BY <2>1, <2>3
    <2>5. /\ likeCount' \in [Posts -> Nat] /\ deltas' \in [Posts -> Nat]
          /\ SumFunction(likeCount) \in Int /\ SumFunction(deltas) \in Int
          /\ SumFunction(likeCount') = SumFunction(likeCount) - likeCount[p] + v
          /\ SumFunction(deltas') = SumFunction(deltas) - deltas[p]
      <3>1. PICK f, d, g, e : f = likeCount /\ d = deltas /\ g = likeCount' /\ e = deltas'
        OBVIOUS
      <3>z. PICK z \in Nat : z = 0
        OBVIOUS
      <3>2. /\ f \in [Posts -> Nat] /\ d \in [Posts -> Nat]
            /\ Replaced(g, f, p, v) /\ Replaced(e, d, p, z)
        BY <2>1, <2>2, <2>4, <3>1, <3>z DEF Replaced
      <3>3. /\ g \in [Posts -> Nat] /\ e \in [Posts -> Nat]
            /\ SumFunction(f) \in Int /\ SumFunction(d) \in Int
            /\ SumFunction(g) = SumFunction(f) - f[p] + v
            /\ SumFunction(e) = SumFunction(d) - d[p]
        BY <3>2, <3>z, UpdateSums
      <3>4. QED
        BY <3>1, <3>3
    <2>6. likeCount[p] \in Nat /\ deltas[p] \in Nat
      BY <2>2
    <2>7. SumFunction(likeCount') + SumFunction(deltas') >= Cardinality(likes')
      <3>1. SumFunction(likeCount') + SumFunction(deltas') = SumFunction(likeCount) + SumFunction(deltas)
        BY <2>3, <2>5, <2>6
      <3>2. QED
        BY <2>1, <2>2, <3>1
    <2>8. Covered'
      BY <2>1, <2>7 DEF Covered
    <2>9. QED
      BY <2>1, <2>5, <2>8
  <1>7. ASSUME NEW p \in Posts, DecrPostLikeCount(p)
        PROVE  /\ likeCount' \in [Posts -> Nat] /\ deltas' \in [Posts -> Nat]
               /\ step' \notin {"incr", "decr"} => deltas' = NoDeltas
               /\ Covered'
    <2>1. /\ step = "decr" /\ step' = "decr" /\ UNCHANGED <<likes, faults>>
          /\ likeCount' = [likeCount EXCEPT ![p] = IF @ < deltas[p] THEN 0 ELSE @ - deltas[p]]
          /\ deltas' = [deltas EXCEPT ![p] = 0]
      BY <1>7 DEF DecrPostLikeCount, UpdatePost, Decremented
    <2>2. /\ likeCount \in [Posts -> Nat] /\ deltas \in [Posts -> Nat]
          /\ SumFunction(likeCount) >= Cardinality(likes) + SumFunction(deltas)
      BY <1>c, <2>1 DEF Covered
    <2>3. PICK v \in Nat : v = IF likeCount[p] < deltas[p] THEN 0 ELSE likeCount[p] - deltas[p]
      BY <2>2
    <2>4. likeCount' = [likeCount EXCEPT ![p] = v]
      BY <2>1, <2>3
    <2>5. /\ likeCount' \in [Posts -> Nat] /\ deltas' \in [Posts -> Nat]
          /\ SumFunction(likeCount) \in Int /\ SumFunction(deltas) \in Int
          /\ SumFunction(likeCount') = SumFunction(likeCount) - likeCount[p] + v
          /\ SumFunction(deltas') = SumFunction(deltas) - deltas[p]
      <3>1. PICK f, d, g, e : f = likeCount /\ d = deltas /\ g = likeCount' /\ e = deltas'
        OBVIOUS
      <3>z. PICK z \in Nat : z = 0
        OBVIOUS
      <3>2. /\ f \in [Posts -> Nat] /\ d \in [Posts -> Nat]
            /\ Replaced(g, f, p, v) /\ Replaced(e, d, p, z)
        BY <2>1, <2>2, <2>4, <3>1, <3>z DEF Replaced
      <3>3. /\ g \in [Posts -> Nat] /\ e \in [Posts -> Nat]
            /\ SumFunction(f) \in Int /\ SumFunction(d) \in Int
            /\ SumFunction(g) = SumFunction(f) - f[p] + v
            /\ SumFunction(e) = SumFunction(d) - d[p]
        BY <3>2, <3>z, UpdateSums
      <3>4. QED
        BY <3>1, <3>3
    <2>6. likeCount[p] \in Nat /\ deltas[p] \in Nat /\ v >= likeCount[p] - deltas[p]
      BY <2>2, <2>3
    <2>7. Cardinality(likes) \in Nat
      BY <1>0, FS_CardinalityType
    <2>8. SumFunction(likeCount') >= Cardinality(likes') + SumFunction(deltas')
      <3>1. SumFunction(likeCount') >= SumFunction(likeCount) - deltas[p]
        BY <2>5, <2>6
      <3>2. SumFunction(likeCount') >= Cardinality(likes) + SumFunction(deltas')
        BY <2>2, <2>5, <2>6, <2>7, <3>1
      <3>3. QED
        BY <2>1, <3>2
    <2>9. Covered'
      BY <2>1, <2>8 DEF Covered
    <2>10. QED
      BY <2>1, <2>5, <2>9
  <1>8. CASE LikesFlushed
    BY <1>1, <1>8 DEF LikesFlushed, EndLikes
  <1>9. CASE UnlikesFlushed
    BY <1>1, <1>9 DEF UnlikesFlushed, EndUnlikes
  <1>10. CASE BatchInsertFails \/ BatchDeleteFails \/ \E p \in Posts : UpdateFails(p)
    BY <1>f, <1>10 DEF BatchInsertFails, BatchDeleteFails, UpdateFails
  <1>11. CASE UNCHANGED vars
    <2>1. UNCHANGED <<likes, likeCount, deltas, faults, step>>
      BY <1>11 DEF vars
    <2>2. QED
      BY <1>c, <2>1 DEF Covered
  <1>12. QED
    BY <1>2, <1>3, <1>4, <1>5, <1>6, <1>7, <1>8, <1>9, <1>10, <1>11 DEF Next

\* TotalNeverBehind (like_consumer.go scaleDeltas and flushWithCtx): whatever the batches
\* and however scaleDeltas spreads their effects over the posts, while no statement
\* failed the like counts add up to at least the rows of the table between flushes.
THEOREM TotalCovered == Spec => []TotalNeverBehind
  <1>1. Init => TotalInv
    <2> SUFFICES ASSUME Init
                 PROVE  /\ likeCount \in [Posts -> Nat] /\ deltas \in [Posts -> Nat]
                        /\ deltas = NoDeltas /\ Covered
      BY DEF TotalInv
    <2>1. likes = {} /\ likeCount = NoDeltas /\ deltas = NoDeltas /\ step = "select"
      BY DEF Init
    <2>2. NoDeltas \in [Posts -> Nat]
      BY DEF NoDeltas
    <2>3. SumFunction(NoDeltas) = 0
      BY <2>2, SumTypes
    <2>4. Cardinality(likes) = 0
      BY <2>1, FS_EmptySet
    <2>5. QED
      BY <2>1, <2>2, <2>3, <2>4 DEF Covered
  <1>2. TotalInv => TotalNeverBehind
    BY DEF TotalInv, TotalNeverBehind, AtRest, Covered
  <1>3. QED
    BY <1>1, <1>2, BaseInvariance, TotalStep, PTL DEF Spec

=============================================================================
