------------------------------ MODULE LikeFlush ------------------------------
(***************************************************************************)
(* What a flush of internal/consumer/like_consumer.go does to MySQL: the   *)
(* likes table (internal/repository/like_repository.go) and the column     *)
(* posts.like_count.  One step per SQL statement.                          *)
(*                                                                         *)
(* An event is its (user, post) pair; the flush loop has already sorted    *)
(* the events into the two buffers by kind.  LikeConsumer models how they  *)
(* get there and what shutdown does to them.                               *)
(***************************************************************************)
EXTENDS ScaleDeltas

CONSTANTS
    Users,
    BatchSize,      \* c.batchSize
    MaxEvents,      \* bound on the events received
    MaxFaults,      \* bound on the statements that return an error
    LostReplies     \* TRUE: a statement that returned an error may have run

ASSUME LikeFlushAssumption ==
    /\ BatchSize \in Nat \ {0}
    /\ MaxEvents \in Nat
    /\ MaxFaults \in Nat
    /\ LostReplies \in BOOLEAN

VARIABLES
    likes,          \* the rows of table likes: (user_id, post_id), unique
    likeCount,      \* likeCount[p]: posts.like_count
    likeBuf, unlikeBuf,
    step,           \* the next statement of flushLoop / flushWithCtx
    deltas,         \* deltas[p] still to be applied by the UPDATE loop
    received,       \* number of events received
    faults,         \* history: number of failed statements
    last,           \* history: the kind of the last event of a pair
    unsettled,      \* history: pairs whose last flush held both kinds or failed
    partial         \* history: some batch had fewer effects than events

vars == <<likes, likeCount, likeBuf, unlikeBuf, step, deltas, received, faults,
          last, unsettled, partial>>

Pairs == Users \X Posts

Steps == {"select", "insert", "incr", "delete", "decr"}

TypeOK ==
    /\ likes \subseteq Pairs
    /\ likeCount \in [Posts -> Nat]
    /\ likeBuf \in Seq(Pairs) /\ Len(likeBuf) <= BatchSize
    /\ unlikeBuf \in Seq(Pairs) /\ Len(unlikeBuf) <= BatchSize
    /\ step \in Steps
    /\ deltas \in [Posts -> Nat]
    /\ received \in 0..MaxEvents
    /\ faults \in 0..MaxFaults
    /\ last \in [Pairs -> {"none", "like", "unlike"}]
    /\ unsettled \subseteq Pairs
    /\ partial \in BOOLEAN

Init ==
    /\ likes = {}
    /\ likeCount = NoDeltas
    /\ likeBuf = <<>>
    /\ unlikeBuf = <<>>
    /\ step = "select"
    /\ deltas = NoDeltas
    /\ received = 0
    /\ faults = 0
    /\ last = [x \in Pairs |-> "none"]
    /\ unsettled = {}
    /\ partial = FALSE

-----------------------------------------------------------------------------
(* flushLoop *)

\* The flush that starts now settles the pairs it holds one kind of.
StartFlush(likesHeld, unlikesHeld) ==
    /\ step' = "insert"
    /\ unsettled' = (unsettled \ (likesHeld \cup unlikesHeld))
                      \cup (likesHeld \cap unlikesHeld)

LoopRecv(x, kind) ==
    /\ step = "select"
    /\ received < MaxEvents
    /\ received' = received + 1
    /\ last' = [last EXCEPT ![x] = kind]
    /\ likeBuf' = IF kind = "like" THEN Append(likeBuf, x) ELSE likeBuf
    /\ unlikeBuf' = IF kind = "unlike" THEN Append(unlikeBuf, x) ELSE unlikeBuf
    /\ IF Len(likeBuf') >= BatchSize \/ Len(unlikeBuf') >= BatchSize
       THEN StartFlush(Range(likeBuf'), Range(unlikeBuf'))
       ELSE UNCHANGED <<step, unsettled>>
    /\ UNCHANGED <<likes, likeCount, deltas, faults, partial>>

LoopTick ==
    /\ step = "select"
    /\ likeBuf # <<>> \/ unlikeBuf # <<>>
    /\ StartFlush(Range(likeBuf), Range(unlikeBuf))
    /\ UNCHANGED <<likes, likeCount, likeBuf, unlikeBuf, deltas, received, faults,
                   last, partial>>

-----------------------------------------------------------------------------
(* flushWithCtx *)

PerPost(batch) ==
    [p \in Posts |-> Cardinality({i \in DOMAIN batch : batch[i][2] = p})]

\* A statement that changed real rows for this batch: compute the deltas.
Apportion(batch, real) ==
    /\ \E order \in Orders(PerPost(batch)) :
          deltas' = scaleDeltas(PerPost(batch), Len(batch), real, order)
    /\ partial' = (partial \/ real < Len(batch))

\* INSERT IGNORE: one statement, duplicates do not count.
BatchInsert ==
    /\ step = "insert"
    /\ likeBuf # <<>>
    /\ likes' = likes \cup Range(likeBuf)
    /\ Apportion(likeBuf, Cardinality(Range(likeBuf) \ likes))
    /\ step' = "incr"
    /\ UNCHANGED <<likeCount, likeBuf, unlikeBuf, received, faults, last, unsettled>>

\* Variant: DELETE ... WHERE user_id IN (...) AND post_id IN (...).
BatchDeleteCross ==
    /\ step = "delete"
    /\ unlikeBuf # <<>>
    /\ LET hit == {x \in likes : \E y, z \in Range(unlikeBuf) : x = <<y[1], z[2]>>}
       IN  likes' = likes \ hit /\ Apportion(unlikeBuf, Cardinality(hit))
    /\ step' = "decr"
    /\ UNCHANGED <<likeCount, likeBuf, unlikeBuf, received, faults, last, unsettled>>

\* DELETE ... WHERE (user_id, post_id) IN (...): missing rows do not count.
BatchDelete ==
    /\ step = "delete"
    /\ unlikeBuf # <<>>
    /\ likes' = likes \ Range(unlikeBuf)
    /\ Apportion(unlikeBuf, Cardinality(Range(unlikeBuf) \cap likes))
    /\ step' = "decr"
    /\ UNCHANGED <<likeCount, likeBuf, unlikeBuf, received, faults, last, unsettled>>

Incremented(p) == [likeCount EXCEPT ![p] = @ + deltas[p]]

\* Variant: a plain subtraction on the signed value.
DecrementedNoClamp(p) == [likeCount EXCEPT ![p] = @ - deltas[p]]

\* GREATEST(0, like_count - delta).
Decremented(p) == [likeCount EXCEPT ![p] = IF @ < deltas[p] THEN 0 ELSE @ - deltas[p]]

\* One UPDATE of the loop; the loop ranges over a map, so in any order.
UpdatePost(p, at, updated) ==
    /\ step = at
    /\ deltas[p] > 0
    /\ likeCount' = updated
    /\ deltas' = [deltas EXCEPT ![p] = 0]
    /\ UNCHANGED <<likes, likeBuf, unlikeBuf, step, received, faults, last, unsettled,
                   partial>>

IncrPostLikeCount(p) == UpdatePost(p, "incr", Incremented(p))

DecrPostLikeCount(p) == UpdatePost(p, "decr", Decremented(p))

\* The like half is over: reset the buffer, go on with the unlikes.
EndLikes ==
    /\ step' = "delete"
    /\ likeBuf' = <<>>
    /\ UNCHANGED unlikeBuf

EndUnlikes ==
    /\ step' = "select"
    /\ unlikeBuf' = <<>>
    /\ UNCHANGED likeBuf

\* Variant: the UPDATE loop returns after its first post.
LikesFlushedEarly ==
    /\ \/ step = "insert" /\ likeBuf = <<>>
       \/ step = "incr"
    /\ EndLikes
    /\ deltas' = NoDeltas
    /\ UNCHANGED <<likes, likeCount, received, faults, last, unsettled, partial>>

LikesFlushed ==
    /\ \/ step = "insert" /\ likeBuf = <<>>
       \/ step = "incr" /\ deltas = NoDeltas
    /\ EndLikes
    /\ UNCHANGED <<likes, likeCount, deltas, received, faults, last, unsettled, partial>>

UnlikesFlushed ==
    /\ \/ step = "delete" /\ unlikeBuf = <<>>
       \/ step = "decr" /\ deltas = NoDeltas
    /\ EndUnlikes
    /\ UNCHANGED <<likes, likeCount, deltas, received, faults, last, unsettled, partial>>

-----------------------------------------------------------------------------
(* Errors are logged and nothing is retried.                               *)

Fault ==
    /\ faults < MaxFaults
    /\ faults' = faults + 1

BatchInsertFails ==
    /\ Fault
    /\ step = "insert"
    /\ likeBuf # <<>>
    /\ \/ UNCHANGED likes
       \/ LostReplies /\ likes' = likes \cup Range(likeBuf)
    /\ unsettled' = unsettled \cup Range(likeBuf)
    /\ EndLikes
    /\ UNCHANGED <<likeCount, deltas, received, last, partial>>

BatchDeleteFails ==
    /\ Fault
    /\ step = "delete"
    /\ unlikeBuf # <<>>
    /\ \/ UNCHANGED likes
       \/ LostReplies /\ likes' = likes \ Range(unlikeBuf)
    /\ unsettled' = unsettled \cup Range(unlikeBuf)
    /\ EndUnlikes
    /\ UNCHANGED <<likeCount, deltas, received, last, partial>>

\* A failing UPDATE returns from the loop: the posts not reached are skipped.
UpdateFails(p) ==
    /\ Fault
    /\ deltas[p] > 0
    /\ \/ step = "incr" /\ EndLikes
       \/ step = "decr" /\ EndUnlikes
    /\ \/ UNCHANGED likeCount
       \/ LostReplies /\ likeCount' = IF step = "incr" THEN Incremented(p) ELSE Decremented(p)
    /\ deltas' = NoDeltas
    /\ UNCHANGED <<likes, received, last, unsettled, partial>>

Next ==
    \/ \E x \in Pairs, kind \in {"like", "unlike"} : LoopRecv(x, kind)
    \/ LoopTick
    \/ BatchInsert
    \/ BatchDelete
    \/ \E p \in Posts : IncrPostLikeCount(p) \/ DecrPostLikeCount(p)
    \/ LikesFlushed
    \/ UnlikesFlushed
    \/ BatchInsertFails
    \/ BatchDeleteFails
    \/ \E p \in Posts : UpdateFails(p)

Spec == Init /\ [][Next]_vars

-----------------------------------------------------------------------------
(* Properties *)

Rows(p) == Cardinality({x \in likes : x[2] = p})

\* Between flushes.
AtRest == step = "select"

\* The guesses of scaleDeltas cancel out over the posts: between flushes the
\* like counts add up to at least the rows of the table (clamping a decrement
\* at zero is the only way to lose one), as long as no statement failed.
TotalNeverBehind ==
    AtRest /\ faults = 0 => SumFunction(likeCount) >= Cardinality(likes)

\* As long as every event so far had its effect on the table and no statement
\* failed, the like count of every post is exactly its number of rows.
CountsMatchRows ==
    AtRest /\ faults = 0 /\ ~partial => \A p \in Posts : likeCount[p] = Rows(p)

\* Pairs with events in a buffer.
Waiting == Range(likeBuf) \cup Range(unlikeBuf)

\* Between flushes the table holds exactly the pairs whose last event was a
\* like, leaving aside events waiting in a buffer and pairs whose last flush
\* failed or held a like and an unlike of theirs: a lost batch does no lasting
\* harm, the next event of the pair sets its row right.
LastEventWins ==
    AtRest => \A x \in Pairs \ (unsettled \cup Waiting) :
                  x \in likes <=> last[x] = "like"

=============================================================================
