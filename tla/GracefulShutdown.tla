-------------------------- MODULE GracefulShutdown --------------------------
(***************************************************************************)
(* The running server: request handlers publishing on the channel bus, the *)
(* like consumer, ConsumerManager (internal/consumer/manager.go) and the   *)
(* three shutdown phases of cmd/server/main.go.                            *)
(*                                                                         *)
(* The deadlines of the phases are timers: they may fire at any moment     *)
(* while the phase is waiting, and nothing is assumed about when.          *)
(***************************************************************************)
EXTENDS LikeConsumer

VARIABLES
    main,           \* where main stands
    httpTimedOut,   \* phase 1 gave up with request handlers still running
    mgrTimedOut     \* phase 2 gave up with the consumer still running

mainVars == <<main, httpTimedOut, mgrTimedOut>>
vars == <<busVars, likeVars, mainVars>>

MainStates == {"serving", "phase1", "phase2", "shutdown", "closeBus", "phase3",
               "teardown", "exited"}

TypeOK ==
    /\ BusTypeOK
    /\ LikeTypeOK
    /\ main \in MainStates
    /\ httpTimedOut \in BOOLEAN
    /\ mgrTimedOut \in BOOLEAN

Init ==
    /\ BusInit
    /\ LikeInit
    /\ main = "serving"
    /\ httpTimedOut = FALSE
    /\ mgrTimedOut = FALSE

-----------------------------------------------------------------------------
(* main *)

\* A request arrives; its handler will publish e as its last act.
BeginRequest(e) ==
    /\ main = "serving"
    /\ pub[e] = "idle"
    /\ pub' = [pub EXCEPT ![e] = "request"]
    /\ UNCHANGED <<closed, subs, ch, todo, sub, hand, cancelled, sent, dropped,
                   likeVars, mainVars>>

Signal ==
    /\ main = "serving"
    /\ main' = "phase1"
    /\ UNCHANGED <<busVars, likeVars, httpTimedOut, mgrTimedOut>>

\* Variant: the handlers are not waited for.
Phase1NoWait ==
    /\ main = "phase1"
    /\ main' = "phase2"
    /\ UNCHANGED <<busVars, likeVars, httpTimedOut, mgrTimedOut>>

\* srv.Shutdown returns nil once no handler is active.
Phase1Drained ==
    /\ main = "phase1"
    /\ \A e \in Events : ~InFlight(e)
    /\ main' = "phase2"
    /\ UNCHANGED <<busVars, likeVars, httpTimedOut, mgrTimedOut>>

Phase1Deadline ==
    /\ main = "phase1"
    /\ \E e \in Events : InFlight(e)
    /\ main' = "phase2"
    /\ httpTimedOut' = TRUE
    /\ UNCHANGED <<busVars, likeVars, mgrTimedOut>>

\* ConsumerManager.Shutdown: cancel, then wait for wg or the deadline.
ManagerCancel ==
    /\ main = "phase2"
    /\ cancelled' = TRUE
    /\ main' = "shutdown"
    /\ UNCHANGED <<closed, subs, ch, pub, todo, sub, hand, sent, dropped,
                   likeVars, httpTimedOut, mgrTimedOut>>

\* Variant: Shutdown returns right after cancelling.
ManagerNoWait ==
    /\ main = "shutdown"
    /\ main' = "closeBus"
    /\ UNCHANGED <<busVars, likeVars, httpTimedOut, mgrTimedOut>>

ManagerWaited ==
    /\ main = "shutdown"
    /\ loop = "returned"
    /\ main' = "closeBus"
    /\ UNCHANGED <<busVars, likeVars, httpTimedOut, mgrTimedOut>>

ManagerDeadline ==
    /\ main = "shutdown"
    /\ loop # "returned"
    /\ main' = "closeBus"
    /\ mgrTimedOut' = TRUE
    /\ UNCHANGED <<busVars, likeVars, httpTimedOut>>

\* closeWithDeadline runs bus.Close in a goroutine of its own.
CloseBus ==
    /\ main \in {"closeBus", "phase3", "teardown"}
    /\ ~closed
    /\ Close
    /\ UNCHANGED <<likeVars, mainVars>>

\* It returns when Close has, or, the phase's deadline already over, at once.
CloseBusReturn ==
    /\ main = "closeBus"
    /\ closed \/ mgrTimedOut
    /\ main' = "phase3"
    /\ UNCHANGED <<busVars, likeVars, httpTimedOut, mgrTimedOut>>

CloseMySQL ==
    /\ main = "phase3"
    /\ mysqlClosed' = TRUE
    /\ main' = "teardown"
    /\ UNCHANGED <<busVars, eventCh, likeBuf, unlikeBuf, loop, stored, failed,
                   skipped, httpTimedOut, mgrTimedOut>>

\* main returns and every goroutine still running ends with the process.
Exit ==
    /\ main = "teardown"
    /\ main' = "exited"
    /\ UNCHANGED <<busVars, likeVars, httpTimedOut, mgrTimedOut>>

MainStep ==
    \/ Phase1Drained
    \/ ManagerCancel
    \/ ManagerWaited
    \/ CloseBus
    \/ CloseBusReturn
    \/ CloseMySQL
    \/ Exit

Running == main # "exited"

Terminated == main = "exited" /\ UNCHANGED vars

Next ==
    \/ \E e \in Events : BeginRequest(e)
    \/ \E e \in Events : Running /\ PublishStep(e) /\ UNCHANGED <<likeVars, mainVars>>
    \/ \E s \in Subs : Running /\ SubscribeStep(s) /\ UNCHANGED <<likeVars, mainVars>>
    \/ \E s \in Subs : Running /\ HandlerStep(s) /\ UNCHANGED mainVars
    \/ Running /\ LoopStep /\ UNCHANGED mainVars
    \/ MainStep
    \/ Signal
    \/ Phase1Deadline
    \/ ManagerDeadline
    \/ Terminated

Spec == Init /\ [][Next]_vars

(***************************************************************************)
(* Fairness: goroutines that can run are eventually scheduled and the      *)
(* ticker ticks.  Nothing is assumed of requests, of the signal or of the  *)
(* deadlines: the shutdown must complete without the help of a deadline.   *)
(***************************************************************************)
Fairness ==
    /\ \A e \in Events :
          WF_vars(Running /\ PublishStep(e) /\ UNCHANGED <<likeVars, mainVars>>)
    /\ \A s \in Subs :
          /\ WF_vars(Running /\ SubscribeStep(s) /\ UNCHANGED <<likeVars, mainVars>>)
          /\ WF_vars(Running /\ HandlerStep(s) /\ UNCHANGED mainVars)
    /\ WF_vars(Running /\ LoopStep /\ UNCHANGED mainVars)
    /\ WF_vars(MainStep)

FairSpec == Spec /\ Fairness

-----------------------------------------------------------------------------
(* Properties *)

\* Once the flush loop has returned nothing is left behind in eventCh or in a
\* batch buffer, and no subscriber can put anything there any more: the reason
\* subWg.Wait() precedes DrainChan (like_consumer.go:225, helper.go:6).
DrainedOnReturn ==
    loop = "returned" =>
        /\ eventCh = <<>>
        /\ likeBuf = <<>>
        /\ unlikeBuf = <<>>
        /\ \A s \in Subs : sub[s] = "returned"

\* Publish copies the subscriber list before it sends (channel.go:48-53), so it
\* can send to a channel whose subscriber has already drained it and gone.
\* Shutting HTTP down first excludes that: unless phase 1 timed out, no event
\* is stranded in the channel of a subscriber that has finished draining.
NoStrandedEvent ==
    ~httpTimedOut =>
        \A s \in Subs : sub[s] \in {"defer", "returned"} => ch[s] = <<>>

\* The order main promises (manager.go:20-22, like_service.go:37-39): the bus
\* and MySQL are closed only when the consumer is done and no handler can still
\* publish, unless the phase concerned ran into its deadline.
ShutdownOrder ==
    closed \/ mysqlClosed =>
        /\ loop = "returned" \/ mgrTimedOut
        /\ (\A e \in Events : ~InFlight(e) /\ pub[e] # "rejected") \/ httpTimedOut

\* The stages of subscription s from MySQL back to the channel, oldest first.  The
\* flush loop's queue and what is stored hold the events of both topics.
Stages(s) ==
    <<stored,
      IF SubTopic[s] = TopicLike THEN likeBuf ELSE unlikeBuf,
      eventCh,
      IF hand[s] = NoEvent THEN <<>> ELSE <<hand[s]>>,
      ch[s]>>

\* a is somewhere in q before an occurrence of b.
Before(q, a, b) == \E i, j \in DOMAIN q : i < j /\ q[i] = a /\ q[j] = b

\* a is further on its way than b: before it in a stage or in a later stage.
Ahead(stages, a, b) ==
    \E k \in DOMAIN stages :
        \/ Before(stages[k], a, b)
        \/ /\ a \in Range(stages[k])
           /\ \E l \in DOMAIN stages : k < l /\ b \in Range(stages[l])

\* The events of the topic of subscription s.
EventsOf(s) == {e \in Events : TopicOf[e] = SubTopic[s]}

\* The consumer works through each topic in publication order and stores no
\* event twice: what is stored, buffered and queued for a topic comes in the order
\* in which Publish sent it, each event once (flushLoop resets its buffers,
\* DrainChan appends behind what is already buffered).
StoredInOrder ==
    \A s \in Subs :
        /\ IsInjective(sent[s])
        /\ \A a, b \in EventsOf(s) :
              Ahead(Stages(s), a, b) => Before(sent[s], a, b)

\* The stage of the pipeline that answers for event e of subscription s.
Custody(e, s) ==
    \/ e \in Range(ch[s])
    \/ e = hand[s]
    \/ e \in Range(eventCh)
    \/ e \in Range(likeBuf)
    \/ e \in Range(unlikeBuf)
    \/ e \in Range(stored)
    \/ e \in Range(failed)
    \/ e \in skipped

\* An event the bus accepted for a subscriber never vanishes: it is in one of
\* the stages of the pipeline or its batch failed or its handler gave it up.
NoSilentLoss == \A s \in Subs : \A e \in Range(sent[s]) : Custody(e, s)

\* The accepted events that nobody has disposed of yet, over all stages.
InCharge ==
    (UNION {Range(ch[s]) : s \in Subs})
        \cup ({hand[s] : s \in Subs} \ {NoEvent})
        \cup Range(eventCh) \cup Range(likeBuf) \cup Range(unlikeBuf)

Delivery == INSTANCE EventDelivery WITH
    charge <- InCharge,
    stored <- Range(stored),
    refused <- Range(failed),
    abandoned <- skipped,
    stopping <- cancelled,
    MayFail <- MySQLMayFail

\* The server implements EventDelivery.  Handing an event on from the bus to the
\* handler, eventCh and a buffer is invisible; a flush disposes of its batch at
\* once and for good, so no event is stored twice, stored after it was lost or
\* taken up again, and none is lost while the server runs and MySQL works.
DeliverySpec == Delivery!Spec

\* Once the signal has arrived the process exits without any deadline having to
\* fire: no handler blocks for ever on an eventCh nobody reads, no loop waits
\* for ever for its subscribers.
ShutdownTerminates == main = "phase1" ~> main = "exited"

\* An event that reached the consumer's channel is eventually written (or its
\* loss decided), however few events follow it: the ticker flushes a batch that
\* never fills.
EventuallySettled ==
    \A e \in Events : \A s \in Subs :
        e \in Range(sent[s]) ~>
            \/ e \in Range(stored) \cup Range(failed)
            \/ e \in skipped
            \/ cancelled

-----------------------------------------------------------------------------
(***************************************************************************)
(* The inductive invariant behind the safety properties.                   *)
(***************************************************************************)

\* A goroutine has an event in hand exactly while its handler runs.
HandInv == \A s \in Subs : hand[s] \in Events <=> Handling(s)

\* How far the final drain has got decides what is already empty.
DrainInv ==
    /\ loop \in {"drain", "finalLikes", "finalUnlikes", "returned"} =>
          \A s \in Subs : sub[s] = "returned"
    /\ loop \in {"finalLikes", "finalUnlikes", "returned"} => eventCh = <<>>
    /\ loop \in {"finalUnlikes", "returned"} => likeBuf = <<>>
    /\ loop = "returned" => unlikeBuf = <<>>

AfterHttp == {"phase2", "shutdown", "closeBus", "phase3", "teardown", "exited"}
AfterCancel == {"shutdown", "closeBus", "phase3", "teardown", "exited"}
AfterManager == {"closeBus", "phase3", "teardown", "exited"}

\* What main has already done tells what the others can still be doing.
PhaseInv ==
    /\ main \in AfterHttp /\ ~httpTimedOut => \A e \in Events : ~InFlight(e)
    /\ cancelled <=> main \in AfterCancel
    /\ main \in AfterManager => loop = "returned" \/ mgrTimedOut
    /\ closed \/ mysqlClosed => main \in AfterManager
    /\ \A s \in Subs : sub[s] \in {"drain", "drainHandle", "defer", "returned"} => cancelled
    /\ \A e \in Events : pub[e] = "rejected" => httpTimedOut

IndInv ==
    /\ TypeOK
    /\ HandInv
    /\ DrainInv
    /\ PhaseInv
    /\ NoStrandedEvent

=============================================================================
