----------------------------- MODULE ScaleDeltas -----------------------------
(***************************************************************************)
(* scaleDeltas of internal/consumer/like_consumer.go: given the events per *)
(* post of a batch of raw events, of which MySQL reported only real as     *)
(* effective, guess how many of them fell on each post.                    *)
(***************************************************************************)
EXTENDS Integers, Sequences, FiniteSets, SequencesExt

CONSTANT Posts

ASSUME PostsAssumption == IsFiniteSet(Posts)

NoDeltas == [p \in Posts |-> 0]

Buckets(perPost) == {p \in Posts : perPost[p] > 0}

\* The orders the buckets may be visited in: by count, largest first.  Posts
\* with equal counts come in the order of the map iteration, which Go leaves
\* open.
Orders(perPost) ==
    {order \in SetToSeqs(Buckets(perPost)) :
        \A i, j \in DOMAIN order : i < j => perPost[order[i]] >= perPost[order[j]]}

\* Variant: the last bucket gets its share like the others.
DistributeDropsRemainder(perPost, raw, real, order) ==
    [p \in Posts |-> (perPost[p] * real) \div raw]

\* Hand out real over the buckets in turn; the last takes what remains.
Distribute(perPost, raw, real, order) ==
    LET Visit(acc, i) ==
          IF acc.remaining <= 0 THEN acc
          ELSE LET b == order[i]
                   share == (perPost[b] * real) \div raw
                   d == IF i = Len(order) \/ share > acc.remaining
                        THEN acc.remaining ELSE share
               IN  [scaled |-> [acc.scaled EXCEPT ![b] = d],
                    remaining |-> acc.remaining - d]
        start == [scaled |-> NoDeltas, remaining |-> real]
    IN  FoldLeftDomain(Visit, start, order).scaled

scaleDeltas(perPost, raw, real, order) ==
    CASE real <= 0  -> NoDeltas
      [] real >= raw -> perPost
      [] OTHER      -> Distribute(perPost, raw, real, order)

=============================================================================
