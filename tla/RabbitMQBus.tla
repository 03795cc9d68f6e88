----------------------------- MODULE RabbitMQBus -----------------------------
(***************************************************************************)
(* The RabbitMQ event bus, internal/event/rabbitmq.go, as the production   *)
(* configuration uses it.                                                  *)
(*                                                                         *)
(* Every topic has one durable queue, cooking.<topic>; all subscriptions   *)
(* to the topic compete on it.  The queue is a bag: deliveries to several  *)
(* consumers, prefetching and requeueing leave the order open.  A message  *)
(* counts as taken from the queue when a handler is given it; a prefetched *)
(* message nobody has looked at yet is still in the queue.  A message is   *)
(* identified with its event, so a redelivery carries the same event id.   *)
(*                                                                         *)
(* No handler in the repository returns an error and Publish encodes what  *)
(* handleDelivery decodes, so Nack and the dead-letter queue do not occur. *)
(***************************************************************************)
EXTENDS Integers, Sequences, FiniteSets

CONSTANTS
    Events,
    Topics,
    TopicOf,        \* TopicOf[e]: evt.Topic
    Subs,           \* the Subscribe calls of the consumer at hand
    SubTopic,       \* SubTopic[s]: the topic argument of Subscribe
    Competing,      \* topics another consumer of the process subscribes to, too
    MaxRetries,     \* cfg.ReconnectMaxRetries
    MaxFaults,      \* bound on the faults: lost connections and, in the modules
                    \* that extend this one, crashes and failed statements
    NoEvent

ASSUME RabbitMQAssumption ==
    /\ IsFiniteSet(Events)
    /\ TopicOf \in [Events -> Topics]
    /\ IsFiniteSet(Subs)
    /\ SubTopic \in [Subs -> Topics]
    /\ Competing \subseteq Topics
    /\ MaxRetries \in Nat
    /\ MaxFaults \in Nat
    /\ NoEvent \notin Events

VARIABLES
    queue,      \* queue[e]: copies of e waiting in the queue of its topic
    bound,      \* topics whose queue has been declared and bound
    connected,  \* b.conn is open
    faults,     \* faults so far
    pub,        \* pub[e]: where the Publish of e stands
    pubTries,   \* pubTries[e]: its attempt
    sub,        \* sub[s]: where Subscribe stands
    tries,      \* tries[s]: its attempt, never reset
    session,    \* session[s]: the AMQP channel of s is open
    draining,   \* subscriptions in the drain loop of subscribeOnce
    hand,       \* hand[s]: the event in the handler of s
    cancelled,  \* the ctx given to Subscribe has been cancelled
    accepted,   \* history: events the broker has put on a queue
    got,        \* history: got[s] is the set of events the handler of s was
                \* called with and returned from
    elsewhere   \* history: events delivered to the other consumer of their topic

busVars == <<queue, bound, connected, faults, pub, pubTries, sub, tries, session,
             draining, hand, cancelled, accepted, got, elsewhere>>

SubStates == {"start", "consume", "dedup", "send", "ack", "backoff", "returned"}

BusTypeOK ==
    /\ queue \in [Events -> Nat]
    /\ bound \subseteq Topics
    /\ connected \in BOOLEAN
    /\ faults \in 0..MaxFaults
    /\ pub \in [Events -> {"idle", "try", "backoff", "done", "failed"}]
    /\ pubTries \in [Events -> 0..MaxRetries]
    /\ sub \in [Subs -> SubStates]
    /\ tries \in [Subs -> 0..MaxRetries]
    /\ session \in [Subs -> BOOLEAN]
    /\ draining \subseteq Subs
    /\ hand \in [Subs -> Events \cup {NoEvent}]
    /\ cancelled \in BOOLEAN
    /\ accepted \subseteq Events
    /\ got \in [Subs -> SUBSET Events]
    /\ elsewhere \subseteq Events

BusInit ==
    /\ queue = [e \in Events |-> 0]
    /\ bound = {}
    /\ connected = TRUE
    /\ faults = 0
    /\ pub = [e \in Events |-> "idle"]
    /\ pubTries = [e \in Events |-> 0]
    /\ sub = [s \in Subs |-> "start"]
    /\ tries = [s \in Subs |-> 0]
    /\ session = [s \in Subs |-> FALSE]
    /\ draining = {}
    /\ hand = [s \in Subs |-> NoEvent]
    /\ cancelled = FALSE
    /\ accepted = {}
    /\ got = [s \in Subs |-> {}]
    /\ elsewhere = {}

-----------------------------------------------------------------------------
(* The connection *)

\* Variant: autoAck = true.
UnackedAutoAck(e) == {}

\* The subscriptions the broker still waits for an Ack of e from.
Unacked(e) == {s \in Subs : session[s] /\ hand[s] = e}

\* The broker requeues what has not been acknowledged.
Requeue == queue' = [e \in Events |-> queue[e] + Cardinality(Unacked(e))]

Fault ==
    /\ faults < MaxFaults
    /\ faults' = faults + 1

\* The connection breaks and all channels with it.
LoseConnection ==
    /\ connected
    /\ Fault
    /\ connected' = FALSE
    /\ session' = [s \in Subs |-> FALSE]
    /\ Requeue

-----------------------------------------------------------------------------
(* Publish *)

\* An attempt to publish e is due.  The consumers are cancelled after the HTTP
\* server has been shut down: no request starts to publish from then on.
Attempting(e) == pub[e] = "try" \/ (pub[e] = "idle" /\ ~cancelled)

\* Publish returns: its attempt counter is gone.
PublishReturns(e, result) ==
    /\ pub' = [pub EXCEPT ![e] = result]
    /\ pubTries' = [pubTries EXCEPT ![e] = 0]

\* PublishWithContext returns nil.  Publishing is neither confirmed nor
\* mandatory: without a bound queue the broker discards the message.
PublishSent(e) ==
    /\ Attempting(e)
    /\ connected
    /\ PublishReturns(e, "done")
    /\ IF TopicOf[e] \in bound
       THEN /\ queue' = [queue EXCEPT ![e] = @ + 1]
            /\ accepted' = accepted \cup {e}
       ELSE UNCHANGED <<queue, accepted>>
    /\ UNCHANGED <<bound, connected, faults, sub, tries, session, draining, hand,
                   cancelled, got, elsewhere>>

\* The attempt failed, or the redial before it: go on with the loop, or give up.
PublishRetry(e) ==
    IF pubTries[e] < MaxRetries
    THEN /\ pubTries' = [pubTries EXCEPT ![e] = @ + 1]
         /\ pub' = [pub EXCEPT ![e] = "backoff"]
    ELSE PublishReturns(e, "failed")

\* The message was written to a connection that breaks before it arrives.
PublishUnconfirmed(e) ==
    /\ Attempting(e)
    /\ PublishReturns(e, "done")
    /\ LoseConnection
    /\ UNCHANGED <<bound, sub, tries, draining, hand, cancelled, accepted, got,
                   elsewhere>>

PublishError(e) ==
    /\ Attempting(e)
    /\ ~connected
    /\ PublishRetry(e)
    /\ UNCHANGED <<queue, bound, connected, faults, sub, tries, session, draining,
                   hand, cancelled, accepted, got, elsewhere>>

\* The delay, cut short when the request's ctx ends, and reopenPubChLocked, whose
\* redial may fail.
PublishReopen(e) ==
    /\ pub[e] = "backoff"
    /\ \/ PublishReturns(e, "failed") /\ UNCHANGED connected
       \/ /\ connected' = TRUE
          /\ pub' = [pub EXCEPT ![e] = "try"]
          /\ UNCHANGED pubTries
       \/ /\ ~connected
          /\ PublishRetry(e)
          /\ UNCHANGED connected
    /\ UNCHANGED <<queue, bound, faults, sub, tries, session, draining, hand,
                   cancelled, accepted, got, elsewhere>>

PublishStep(e) ==
    \/ PublishSent(e)
    \/ PublishUnconfirmed(e)
    \/ PublishError(e)
    \/ PublishReopen(e)

-----------------------------------------------------------------------------
(* Subscribe *)

SubGoto(s, state) == sub' = [sub EXCEPT ![s] = state]

\* Subscribe returns: its attempt counter and its session are gone.
SubReturns(s) ==
    /\ SubGoto(s, "returned")
    /\ tries' = [tries EXCEPT ![s] = 0]
    /\ session' = [session EXCEPT ![s] = FALSE]
    /\ draining' = draining \ {s}

\* connLost: the next attempt, unless ctx is cancelled or they are used up.
NextAttempt(s) ==
    IF cancelled \/ tries[s] >= MaxRetries
    THEN SubReturns(s)
    ELSE /\ SubGoto(s, "backoff")
         /\ tries' = [tries EXCEPT ![s] = @ + 1]
         /\ UNCHANGED <<session, draining>>

\* subscribeOnce up to Consume: open a channel, declare and bind the queue.
SubscribeOnce(s) ==
    /\ sub[s] = "start"
    /\ IF connected
       THEN /\ bound' = bound \cup {SubTopic[s]}
            /\ session' = [session EXCEPT ![s] = TRUE]
            /\ SubGoto(s, "consume")
            /\ UNCHANGED <<tries, draining>>
       ELSE /\ NextAttempt(s)
            /\ UNCHANGED bound
    /\ UNCHANGED <<queue, connected, faults, pub, pubTries, hand, cancelled,
                   accepted, got, elsewhere>>

\* A delivery, in the main select or in the drain loop.
Deliver(s, e) ==
    /\ sub[s] = "consume"
    /\ session[s]
    /\ TopicOf[e] = SubTopic[s]
    /\ queue[e] > 0
    /\ queue' = [queue EXCEPT ![e] = @ - 1]
    /\ hand' = [hand EXCEPT ![s] = e]
    /\ SubGoto(s, "dedup")
    /\ UNCHANGED <<bound, connected, faults, pub, pubTries, tries, session,
                   draining, cancelled, accepted, got, elsewhere>>

\* The other consumer on the topic is given the event instead and acknowledges
\* it.  What it does with it is its own business; its subscription comes and
\* goes with the same connection.
DeliverElsewhere(e) ==
    /\ connected
    /\ TopicOf[e] \in Competing
    /\ queue[e] > 0
    /\ queue' = [queue EXCEPT ![e] = @ - 1]
    /\ elsewhere' = elsewhere \cup {e}
    /\ UNCHANGED <<bound, connected, faults, pub, pubTries, sub, tries, session,
                   draining, hand, cancelled, accepted, got>>

\* handleDelivery after the handler: on a channel that is gone Ack is an error
\* that is ignored.
Ack(s) ==
    /\ sub[s] = "ack"
    /\ got' = [got EXCEPT ![s] = @ \cup {hand[s]}]
    /\ hand' = [hand EXCEPT ![s] = NoEvent]
    /\ SubGoto(s, "consume")
    /\ UNCHANGED <<queue, bound, connected, faults, pub, pubTries, tries, session,
                   draining, cancelled, accepted, elsewhere>>

\* msgs is closed.  The drain loop returns, the main loop reports connLost.
MsgsClosed(s) ==
    /\ sub[s] = "consume"
    /\ ~session[s]
    /\ IF s \in draining THEN SubReturns(s) ELSE NextAttempt(s)
    /\ UNCHANGED <<queue, bound, connected, faults, pub, pubTries, hand, cancelled,
                   accepted, got, elsewhere>>

\* ctx.Done() wins the select.
BeginDrain(s) ==
    /\ sub[s] = "consume"
    /\ cancelled
    /\ s \notin draining
    /\ draining' = draining \cup {s}
    /\ UNCHANGED <<queue, bound, connected, faults, pub, pubTries, sub, tries,
                   session, hand, cancelled, accepted, got, elsewhere>>

\* Nothing is buffered locally; what the queue holds stays there.
EndDrain(s) ==
    /\ sub[s] = "consume"
    /\ s \in draining
    /\ SubReturns(s)
    /\ UNCHANGED <<queue, bound, connected, faults, pub, pubTries, hand, cancelled,
                   accepted, got, elsewhere>>

\* The delay of Subscribe and ensureConnLocked, whose redial may fail.
Redial(s) ==
    /\ sub[s] = "backoff"
    /\ \/ cancelled /\ SubReturns(s) /\ UNCHANGED connected
       \/ /\ connected' = TRUE
          /\ SubGoto(s, "start")
          /\ UNCHANGED <<tries, session, draining>>
       \/ /\ ~connected
          /\ IF tries[s] >= MaxRetries
             THEN SubReturns(s)
             ELSE /\ tries' = [tries EXCEPT ![s] = @ + 1]
                  /\ UNCHANGED <<sub, session, draining>>
          /\ UNCHANGED connected
    /\ UNCHANGED <<queue, bound, faults, pub, pubTries, hand, cancelled, accepted,
                   got, elsewhere>>

SubscribeStep(s) ==
    \/ SubscribeOnce(s)
    \/ \E e \in Events : Deliver(s, e)
    \/ Ack(s)
    \/ MsgsClosed(s)
    \/ BeginDrain(s)
    \/ EndDrain(s)
    \/ Redial(s)

-----------------------------------------------------------------------------
(* Faults and shutdown *)

ConnectionLost ==
    /\ LoseConnection
    /\ UNCHANGED <<bound, pub, pubTries, sub, tries, draining, hand, cancelled,
                   accepted, got, elsewhere>>

\* Manager.Shutdown cancels the ctx of every consumer.
Cancel ==
    /\ ~cancelled
    /\ cancelled' = TRUE
    /\ UNCHANGED <<queue, bound, connected, faults, pub, pubTries, sub, tries,
                   session, draining, hand, accepted, got, elsewhere>>

\* The process dies and is started again: everything but the broker is new.
BusCrash ==
    /\ Fault
    /\ Requeue
    /\ connected' = TRUE
    /\ pub' = [e \in Events |-> IF pub[e] \in {"try", "backoff"} THEN "failed" ELSE pub[e]]
    /\ pubTries' = [e \in Events |-> 0]
    /\ sub' = [s \in Subs |-> "start"]
    /\ tries' = [s \in Subs |-> 0]
    /\ session' = [s \in Subs |-> FALSE]
    /\ draining' = {}
    /\ hand' = [s \in Subs |-> NoEvent]
    /\ cancelled' = FALSE
    /\ UNCHANGED <<bound, accepted, got, elsewhere>>

=============================================================================
