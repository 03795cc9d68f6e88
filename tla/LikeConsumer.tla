---------------------------- MODULE LikeConsumer ----------------------------
(***************************************************************************)
(* The lifecycle of internal/consumer/like_consumer.go on the channel bus: *)
(* two Subscribe goroutines whose handlers forward to eventCh, and the     *)
(* flush loop that batches eventCh into likeBuf / unlikeBuf and writes     *)
(* them to MySQL.  What a batch does to the likes table is the subject of  *)
(* LikeFlush; here a batch is either stored or failed as a whole, as one   *)
(* multi-row INSERT IGNORE or DELETE is.                                   *)
(***************************************************************************)
EXTENDS ChannelBus

CONSTANTS
    TopicLike, TopicUnlike,
    BatchSize,      \* c.batchSize
    EventChCap,     \* capacity of eventCh: batchSize*4 in the code
    MySQLMayFail    \* TRUE: a statement may fail for reasons of its own

ASSUME LikeConsumerAssumption ==
    /\ TopicLike # TopicUnlike
    /\ Topics = {TopicLike, TopicUnlike}
    /\ \A s, t \in Subs : SubTopic[s] = SubTopic[t] => s = t
    /\ BatchSize \in Nat \ {0}
    /\ EventChCap \in Nat \ {0}
    /\ MySQLMayFail \in BOOLEAN

VARIABLES
    eventCh,        \* contents of eventCh
    likeBuf,        \* the pending like batch
    unlikeBuf,      \* the pending unlike batch
    loop,           \* where flushLoop stands
    mysqlClosed,    \* the connection pool has been closed
    stored,         \* history: events of batches MySQL accepted, in order
    failed,         \* history: events of batches lost to an error
    skipped         \* history: events a handler gave up on at ctx.Done()

likeVars == <<eventCh, likeBuf, unlikeBuf, loop, mysqlClosed, stored, failed, skipped>>

LoopStates == {"select", "flushLikes", "flushUnlikes", "wait", "drain",
               "finalLikes", "finalUnlikes", "returned"}

LikeTypeOK ==
    /\ eventCh \in Seq(Events)
    /\ Len(eventCh) <= EventChCap
    /\ likeBuf \in Seq(Events)
    /\ unlikeBuf \in Seq(Events)
    /\ loop \in LoopStates
    /\ mysqlClosed \in BOOLEAN
    /\ stored \in Seq(Events)
    /\ failed \in Seq(Events)
    /\ skipped \subseteq Events

LikeInit ==
    /\ eventCh = <<>>
    /\ likeBuf = <<>>
    /\ unlikeBuf = <<>>
    /\ loop = "select"
    /\ mysqlClosed = FALSE
    /\ stored = <<>>
    /\ failed = <<>>
    /\ skipped = {}

-----------------------------------------------------------------------------
(* The subscribe handlers: select { eventCh <- e | <-ctx.Done() }.         *)
(* ctx is the one Start was given, also while the bus drains.              *)

HandlerForward(s) ==
    /\ Handling(s)
    /\ Len(eventCh) < EventChCap
    /\ eventCh' = Append(eventCh, hand[s])
    /\ HandlerReturn(s)
    /\ UNCHANGED <<closed, subs, ch, pub, todo, cancelled, sent, dropped>>
    /\ UNCHANGED <<likeBuf, unlikeBuf, loop, mysqlClosed, stored, failed, skipped>>

\* Variant: the handler gives up whenever eventCh is full.
HandlerDropWhenFull(s) ==
    /\ Handling(s)
    /\ cancelled \/ Len(eventCh) >= EventChCap
    /\ skipped' = skipped \cup {hand[s]}
    /\ HandlerReturn(s)
    /\ UNCHANGED <<closed, subs, ch, pub, todo, cancelled, sent, dropped>>
    /\ UNCHANGED <<eventCh, likeBuf, unlikeBuf, loop, mysqlClosed, stored, failed>>

\* Variant: the handler has no ctx.Done() case.
HandlerWithoutCtxDone(s) == FALSE

HandlerCtxDone(s) ==
    /\ Handling(s)
    /\ cancelled
    /\ skipped' = skipped \cup {hand[s]}
    /\ HandlerReturn(s)
    /\ UNCHANGED <<closed, subs, ch, pub, todo, cancelled, sent, dropped>>
    /\ UNCHANGED <<eventCh, likeBuf, unlikeBuf, loop, mysqlClosed, stored, failed>>

HandlerStep(s) == HandlerForward(s) \/ HandlerCtxDone(s)

-----------------------------------------------------------------------------
(* flushLoop *)

\* The head of eventCh moves to the buffer of its action.
TakeEvent ==
    /\ eventCh # <<>>
    /\ eventCh' = Tail(eventCh)
    /\ IF TopicOf[Head(eventCh)] = TopicLike
       THEN /\ likeBuf' = Append(likeBuf, Head(eventCh))
            /\ UNCHANGED unlikeBuf
       ELSE /\ unlikeBuf' = Append(unlikeBuf, Head(eventCh))
            /\ UNCHANGED likeBuf

BatchFull == Len(likeBuf') >= BatchSize \/ Len(unlikeBuf') >= BatchSize

Buffered == likeBuf # <<>> \/ unlikeBuf # <<>>

LoopRecv ==
    /\ loop = "select"
    /\ TakeEvent
    /\ loop' = IF BatchFull THEN "flushLikes" ELSE "select"
    /\ UNCHANGED <<busVars, mysqlClosed, stored, failed, skipped>>

\* Variant: the tick waits for both kinds of event.
LoopTickBoth ==
    /\ loop = "select"
    /\ likeBuf # <<>> /\ unlikeBuf # <<>>
    /\ loop' = "flushLikes"
    /\ UNCHANGED <<busVars, eventCh, likeBuf, unlikeBuf, mysqlClosed, stored,
                   failed, skipped>>

LoopTick ==
    /\ loop = "select"
    /\ Buffered
    /\ loop' = "flushLikes"
    /\ UNCHANGED <<busVars, eventCh, likeBuf, unlikeBuf, mysqlClosed, stored,
                   failed, skipped>>

LoopCtxDone ==
    /\ loop = "select"
    /\ cancelled
    /\ loop' = "wait"
    /\ UNCHANGED <<busVars, eventCh, likeBuf, unlikeBuf, mysqlClosed, stored,
                   failed, skipped>>

\* Variant: draining starts without waiting for the subscribers.
SubWgNoWait ==
    /\ loop = "wait"
    /\ loop' = "drain"
    /\ UNCHANGED <<busVars, eventCh, likeBuf, unlikeBuf, mysqlClosed, stored,
                   failed, skipped>>

SubWgWait ==
    /\ loop = "wait"
    /\ \A s \in Subs : sub[s] = "returned"
    /\ loop' = "drain"
    /\ UNCHANGED <<busVars, eventCh, likeBuf, unlikeBuf, mysqlClosed, stored,
                   failed, skipped>>

DrainChanRecv ==
    /\ loop = "drain"
    /\ TakeEvent
    /\ UNCHANGED <<busVars, loop, mysqlClosed, stored, failed, skipped>>

DrainChanEmpty ==
    /\ loop = "drain"
    /\ eventCh = <<>>
    /\ loop' = IF Buffered THEN "finalLikes" ELSE "returned"
    /\ UNCHANGED <<busVars, eventCh, likeBuf, unlikeBuf, mysqlClosed, stored,
                   failed, skipped>>

\* The ctx of a flush from the loop is cancelled with the consumer's; the
\* final flush runs under context.Background().
FlushCtxLive == loop \in {"finalLikes", "finalUnlikes"} \/ ~cancelled

\* Persist one batch: it is stored as a whole or, after an error, logged and
\* given up.  A statement with a dead ctx or on a closed pool always fails.
WriteBatch(batch) ==
    \/ /\ FlushCtxLive
       /\ ~mysqlClosed
       /\ stored' = stored \o batch
       /\ UNCHANGED failed
    \/ /\ ~FlushCtxLive \/ mysqlClosed \/ (MySQLMayFail /\ batch # <<>>)
       /\ failed' = failed \o batch
       /\ UNCHANGED stored

\* Variant: the like half resets both buffers.
FlushLikesResetsBoth ==
    /\ loop \in {"flushLikes", "finalLikes"}
    /\ WriteBatch(likeBuf)
    /\ likeBuf' = <<>>
    /\ unlikeBuf' = <<>>
    /\ loop' = IF loop = "flushLikes" THEN "flushUnlikes" ELSE "finalUnlikes"
    /\ UNCHANGED <<busVars, eventCh, mysqlClosed, skipped>>

FlushLikes ==
    /\ loop \in {"flushLikes", "finalLikes"}
    /\ WriteBatch(likeBuf)
    /\ likeBuf' = <<>>
    /\ loop' = IF loop = "flushLikes" THEN "flushUnlikes" ELSE "finalUnlikes"
    /\ UNCHANGED <<busVars, eventCh, unlikeBuf, mysqlClosed, skipped>>

\* Variant: the unlike buffer is not reset.
FlushUnlikesNoReset ==
    /\ loop \in {"flushUnlikes", "finalUnlikes"}
    /\ WriteBatch(unlikeBuf)
    /\ loop' = IF loop = "flushUnlikes" THEN "select" ELSE "returned"
    /\ UNCHANGED <<busVars, eventCh, likeBuf, unlikeBuf, mysqlClosed, skipped>>

FlushUnlikes ==
    /\ loop \in {"flushUnlikes", "finalUnlikes"}
    /\ WriteBatch(unlikeBuf)
    /\ unlikeBuf' = <<>>
    /\ loop' = IF loop = "flushUnlikes" THEN "select" ELSE "returned"
    /\ UNCHANGED <<busVars, eventCh, likeBuf, mysqlClosed, skipped>>

LoopStep ==
    \/ LoopRecv
    \/ LoopTick
    \/ LoopCtxDone
    \/ SubWgWait
    \/ DrainChanRecv
    \/ DrainChanEmpty
    \/ FlushLikes
    \/ FlushUnlikes

=============================================================================
