---------------------------- MODULE CountConsumer ----------------------------
(***************************************************************************)
(* internal/consumer/count_consumer.go on the RabbitMQ bus, with the event *)
(* deduplication of internal/cache/event_dedup_cache.go.                   *)
(*                                                                         *)
(* An event amounts to a sequence of deltas, each +1 or -1 on one counter  *)
(* column of one user: DeltasOf gives the sequence for every event, two    *)
(* deltas for a follow or an unfollow, one for the other kinds.            *)
(***************************************************************************)
EXTENDS RabbitMQBus, Functions, SequencesExt

CONSTANTS
    Users, Columns,
    DeltasOf,       \* DeltasOf[e]: sequence of [user, column, by]
    BatchSize,      \* c.batchSize
    EventChCap,     \* capacity of eventCh: batchSize*4 in the code
    RedisMayFail    \* TRUE: SETNX may return an error

ASSUME CountAssumption ==
    /\ DeltasOf \in [Events -> Seq([user : Users, column : Columns, by : {-1, 1}])]
    /\ \A e \in Events : Len(DeltasOf[e]) \in 1..2
    /\ BatchSize \in Nat \ {0}
    /\ EventChCap \in Nat \ {0}
    /\ RedisMayFail \in BOOLEAN

\* <<e, i>> stands for the i-th delta of event e.
DeltaIds == {d \in Events \X (1..2) : d[2] <= Len(DeltasOf[d[1]])}

Delta(d) == DeltasOf[d[1]][d[2]]

NoDeltas == [d \in DeltaIds |-> 0]

VARIABLES
    seen,       \* the keys dedup:<topic>:<event id> in Redis
    next,       \* next[s]: the delta the handler of s sends next
    eventCh,    \* contents of eventCh
    batch,      \* batch[d]: how often d was aggregated since the last flush
    loop,       \* where flushLoop stands
    counter,    \* counter[u][c]: column c of the users row of u
    applied,    \* history: applied[d] counts the UPDATEs d has gone into
    lost,       \* history: deltas lost to a failed UPDATE, given up at ctx.Done()
                \* or lost from memory in a crash
    unguarded   \* history: events let through by a failed SETNX

countVars == <<seen, next, eventCh, batch, loop, counter, applied, lost,
               unguarded>>

vars == <<busVars, countVars>>

LoopStates == {"select", "flush", "wait", "drain", "final", "returned"}

TypeOK ==
    /\ BusTypeOK
    /\ seen \subseteq Events
    /\ next \in [Subs -> 1..2]
    /\ eventCh \in Seq(DeltaIds)
    /\ Len(eventCh) <= EventChCap
    /\ batch \in [DeltaIds -> Nat]
    /\ loop \in LoopStates
    /\ counter \in [Users -> [Columns -> Nat]]
    /\ applied \in [DeltaIds -> Nat]
    /\ lost \subseteq DeltaIds
    /\ unguarded \subseteq Events

Init ==
    /\ BusInit
    /\ seen = {}
    /\ next = [s \in Subs |-> 1]
    /\ eventCh = <<>>
    /\ batch = NoDeltas
    /\ loop = "select"
    /\ counter = [u \in Users |-> [c \in Columns |-> 0]]
    /\ applied = [d \in DeltaIds |-> 0]
    /\ lost = {}
    /\ unguarded = {}

-----------------------------------------------------------------------------
(* The subscribe handlers *)

\* The bus variables a handler leaves alone.
busRest == <<queue, bound, connected, pub, pubTries, tries, session, draining,
             hand, cancelled, accepted, got, elsewhere>>

\* hctx: the consumer's ctx, or context.Background() in the drain loop.
HandlerCtxLive(s) == s \in draining \/ ~cancelled

\* Variant: the check does not leave a mark.
SeenOrMarkOnlyReads(e) == UNCHANGED seen

\* SETNX, when it works.
SeenOrMark(e) == seen' = seen \cup {e}

DedupSeen(s) ==
    /\ sub[s] = "dedup"
    /\ HandlerCtxLive(s)
    /\ SeenOrMark(hand[s])
    /\ SubGoto(s, IF hand[s] \in seen THEN "ack" ELSE "send")
    /\ UNCHANGED <<busRest, faults, next, eventCh, batch, loop, counter, applied,
                   lost, unguarded>>

\* An error lets the event through.  The SETNX may have been carried out,
\* unless it was not even sent because the handler's ctx is cancelled.
DedupFails(s) ==
    /\ sub[s] = "dedup"
    /\ IF HandlerCtxLive(s)
       THEN RedisMayFail /\ Fault /\ (SeenOrMark(hand[s]) \/ UNCHANGED seen)
       ELSE UNCHANGED <<faults, seen>>
    /\ SubGoto(s, "send")
    /\ unguarded' = unguarded \cup {hand[s]}
    /\ UNCHANGED <<busRest, next, eventCh, batch, loop, counter, applied, lost>>

\* One delta of the event is dealt with; after the last the handler returns.
Advance(s) ==
    IF next[s] = Len(DeltasOf[hand[s]])
    THEN next' = [next EXCEPT ![s] = 1] /\ SubGoto(s, "ack")
    ELSE next' = [next EXCEPT ![s] = @ + 1] /\ SubGoto(s, "send")

Send(s) ==
    /\ sub[s] = "send"
    /\ Len(eventCh) < EventChCap
    /\ eventCh' = Append(eventCh, <<hand[s], next[s]>>)
    /\ Advance(s)
    /\ UNCHANGED <<busRest, faults, seen, batch, loop, counter, applied,
                   lost, unguarded>>

\* The ctx of send is the consumer's, also in the drain loop.
SendCtxDone(s) ==
    /\ sub[s] = "send"
    /\ cancelled
    /\ lost' = lost \cup {<<hand[s], next[s]>>}
    /\ Advance(s)
    /\ UNCHANGED <<busRest, faults, seen, eventCh, batch, loop, counter,
                   applied, unguarded>>

HandlerStep(s) ==
    \/ DedupSeen(s)
    \/ DedupFails(s)
    \/ Send(s)
    \/ SendCtxDone(s)

-----------------------------------------------------------------------------
(* flushLoop and flush *)

TakeDelta ==
    /\ eventCh # <<>>
    /\ eventCh' = Tail(eventCh)
    /\ batch' = [batch EXCEPT ![Head(eventCh)] = @ + 1]

\* bufCount.
Size(deltas) == SumFunction(deltas)

LoopRecv ==
    /\ loop = "select"
    /\ TakeDelta
    /\ loop' = IF Size(batch') >= BatchSize THEN "flush" ELSE "select"
    /\ UNCHANGED <<busVars, seen, next, counter, applied, lost, unguarded>>

LoopTick ==
    /\ loop = "select"
    /\ batch # NoDeltas
    /\ loop' = "flush"
    /\ UNCHANGED <<busVars, seen, next, eventCh, batch, counter, applied, lost,
                   unguarded>>

\* ctx.Done(), then subWg.Wait().
LoopCtxDone ==
    /\ \/ loop = "select" /\ cancelled /\ loop' = "wait"
       \/ /\ loop = "wait"
          /\ \A s \in Subs : sub[s] = "returned"
          /\ loop' = "drain"
    /\ UNCHANGED <<busVars, seen, next, eventCh, batch, counter, applied, lost,
                   unguarded>>

LoopDrain ==
    /\ loop = "drain"
    /\ \/ TakeDelta /\ UNCHANGED loop
       \/ eventCh = <<>> /\ loop' = "final" /\ UNCHANGED <<eventCh, batch>>
    /\ UNCHANGED <<busVars, seen, next, counter, applied, lost, unguarded>>

\* The deltas of the batch on the row of user u, and those on its column c.
OnRow(u) == {d \in DeltaIds : batch[d] > 0 /\ Delta(d).user = u}

OnColumn(u, c) == {d \in OnRow(u) : Delta(d).column = c}

\* Variant: placeholders and arguments out of step, a delta of one column of
\* the row goes to another.
SumMisaligned(u, c) == SumFunction([d \in OnRow(u) |-> batch[d] * Delta(d).by])

\* The aggregated delta of column c of user u.
Sum(u, c) == SumFunction([d \in OnColumn(u, c) |-> batch[d] * Delta(d).by])

\* Variant: the column is set instead of incremented.
UpdatedAbsolute(u) == [counter EXCEPT ![u] = [c \in Columns |-> Sum(u, c)]]

\* Variant: without the clamp.
UpdatedNoClamp(u) ==
    [counter EXCEPT ![u] = [c \in Columns |-> counter[u][c] + Sum(u, c)]]

\* GREATEST(0, column + delta) on every column with a delta.
Updated(u) ==
    [counter EXCEPT ![u] =
        [c \in Columns |-> LET n == counter[u][c] + Sum(u, c) IN IF n < 0 THEN 0 ELSE n]]

\* The loop of flush is done with user u; the new maps of the next batch do
\* not have these deltas.
Done(u) == batch' = [d \in DeltaIds |-> IF d \in OnRow(u) THEN 0 ELSE batch[d]]

\* A flush from the loop runs under the consumer's ctx.
FlushCtxLive == loop = "final" \/ ~cancelled

\* A user whose deltas cancel out needs no UPDATE.
UpdateUser(u) ==
    /\ loop \in {"flush", "final"}
    /\ OnRow(u) # {}
    /\ FlushCtxLive \/ \A c \in Columns : Sum(u, c) = 0
    /\ counter' = Updated(u)
    /\ applied' = [d \in DeltaIds |-> IF d \in OnRow(u) THEN applied[d] + batch[d] ELSE applied[d]]
    /\ Done(u)
    /\ UNCHANGED <<busVars, seen, next, eventCh, loop, lost, unguarded>>

\* Variant: an error ends the flush.
UpdateUserFailsReturn(u) ==
    /\ loop \in {"flush", "final"}
    /\ \E c \in Columns : Sum(u, c) # 0
    /\ IF FlushCtxLive THEN Fault ELSE UNCHANGED faults
    /\ lost' = lost \cup OnRow(u)
    /\ batch' = NoDeltas
    /\ UNCHANGED <<busRest, sub, seen, next, eventCh, loop, counter, applied, unguarded>>

\* An error is logged; the loop goes on with the next user.
UpdateUserFails(u) ==
    /\ loop \in {"flush", "final"}
    /\ \E c \in Columns : Sum(u, c) # 0
    /\ IF FlushCtxLive THEN Fault ELSE UNCHANGED faults
    /\ lost' = lost \cup OnRow(u)
    /\ Done(u)
    /\ UNCHANGED <<busRest, sub, seen, next, eventCh, loop, counter, applied, unguarded>>

Flushed ==
    /\ loop \in {"flush", "final"}
    /\ batch = NoDeltas
    /\ loop' = IF loop = "flush" THEN "select" ELSE "returned"
    /\ UNCHANGED <<busVars, seen, next, eventCh, batch, counter, applied, lost,
                   unguarded>>

LoopStep ==
    \/ LoopRecv
    \/ LoopTick
    \/ LoopCtxDone
    \/ LoopDrain
    \/ \E u \in Users : UpdateUser(u) \/ UpdateUserFails(u)
    \/ Flushed

-----------------------------------------------------------------------------

\* Deltas that exist only in the memory of the process: in eventCh, in the
\* batch, or with a handler that has marked the event and not sent them yet.
InMemory ==
    Range(eventCh)
        \cup {d \in DeltaIds : batch[d] > 0}
        \cup {d \in DeltaIds : \E s \in Subs :
                hand[s] = d[1] /\ sub[s] = "send" /\ next[s] <= d[2]}

\* Redis, MySQL and the broker survive.
Crash ==
    /\ BusCrash
    /\ next' = [s \in Subs |-> 1]
    /\ eventCh' = <<>>
    /\ batch' = NoDeltas
    /\ loop' = "select"
    /\ lost' = lost \cup InMemory
    /\ UNCHANGED <<seen, counter, applied, unguarded>>

BusStep ==
    \/ \E e \in Events : PublishStep(e) \/ DeliverElsewhere(e)
    \/ \E s \in Subs : SubscribeStep(s)
    \/ ConnectionLost
    \/ Cancel

Next ==
    \/ BusStep /\ UNCHANGED countVars
    \/ \E s \in Subs : HandlerStep(s)
    \/ LoopStep
    \/ Crash

Spec == Init /\ [][Next]_vars

-----------------------------------------------------------------------------
(* Properties *)

\* rabbitmq.go:22-24, "at-least-once": an event the broker has accepted waits in
\* its queue or is with a handler until some handler has returned from it,
\* through lost connections and crashes.
AtLeastOnce ==
    \A e \in accepted :
        \/ queue[e] > 0
        \/ e \in elsewhere
        \/ \E s \in Subs : hand[s] = e \/ e \in got[s]

\* count_consumer.go:101-106: a redelivered event does not inflate the counters.
\* No delta goes into two UPDATEs, however often the event is redelivered and
\* whatever crashes, unless SETNX failed for the event.
CountedAtMostOnce ==
    \A d \in DeltaIds : d[1] \notin unguarded => applied[d] <= 1

\* event_dedup_cache.go:52: an event dropped as seen "has been handled".  Every
\* delta of a marked event is on its way in memory, in the counters, or was lost
\* in one of three known ways: a failed UPDATE, the ctx.Done() case of send, a
\* crash of the process that held it.
SeenIsHandled ==
    \A d \in DeltaIds : d[1] \in seen =>
        \/ d \in InMemory
        \/ applied[d] > 0
        \/ d \in lost

\* Nothing on its way.
Quiet == eventCh = <<>> /\ batch = NoDeltas /\ \A s \in Subs : sub[s] # "send"

\* The sum of those deltas of the marked events on column c of user u that have
\* one of the signs.
Net(u, c, signs) ==
    LET D == {d \in DeltaIds : d[1] \in seen /\ Delta(d).user = u
                               /\ Delta(d).column = c /\ Delta(d).by \in signs}
    IN  SumFunction([d \in D |-> Delta(d).by])

\* When nothing is on its way and nothing was lost, every counter is at least
\* the net of the events taken and at most what they added, so it is exact for
\* a user who was never un-followed, un-liked or deleted a post: aggregation,
\* clamping, redelivery and the order of the topics change nothing else.
CountersSettle ==
    Quiet /\ unguarded = {} /\ lost = {} =>
        \A u \in Users, c \in Columns :
            /\ counter[u][c] >= 0 /\ counter[u][c] >= Net(u, c, {-1, 1})
            /\ counter[u][c] <= Net(u, c, {1})

\* bus.go: "同一 topic 可以注册多个 Handler（多订阅者），每条消息广播给所有 Handler":
\* an event that is done with has reached every subscription to its topic.  On
\* this bus it fails: the subscriptions share one queue, each event goes to one
\* of them.
Broadcast ==
    \A e \in accepted :
        queue[e] = 0 =>
            /\ \A s \in Subs : SubTopic[s] = TopicOf[e] => e \in got[s] \/ hand[s] = e
            /\ TopicOf[e] \in Competing => e \in elsewhere

=============================================================================
