----------------------------- MODULE ChannelBus -----------------------------
(***************************************************************************)
(* The in-process event bus, internal/event/channel.go.                    *)
(*                                                                         *)
(* Publish is run by one request handler per event.  It is not atomic: it  *)
(* reads the closed flag, copies the topic's subscriber list under RLock,  *)
(* and only then does one non-blocking send per copied channel.  Subscribe *)
(* is run by one goroutine per subscription and alternates between its     *)
(* select and the handler it was given; the handler's own steps belong to  *)
(* the consumer (see LikeConsumer).                                        *)
(*                                                                         *)
(* The order in which Publish walks its copied list is left open: it is    *)
(* the order in which the subscriber goroutines happened to register.      *)
(***************************************************************************)
EXTENDS Naturals, Sequences, Functions

CONSTANTS
    Events,     \* the events the request handlers publish
    Topics,     \* the topics of internal/event/types.go in use
    TopicOf,    \* TopicOf[e]: evt.Topic
    Subs,       \* the subscriptions (one goroutine and one channel each)
    SubTopic,   \* SubTopic[s]: the topic argument of Subscribe
    BufSize,    \* capacity of a subscriber channel (bufSize)
    NoEvent     \* "no event in the handler"

ASSUME BusAssumption ==
    /\ TopicOf \in [Events -> Topics]
    /\ SubTopic \in [Subs -> Topics]
    /\ BufSize \in Nat \ {0}
    /\ NoEvent \notin Events

VARIABLES
    closed,     \* b.closed
    subs,       \* b.subs: the registered subscriptions, of all topics
    ch,         \* ch[s]: contents of the subscription's channel
    pub,        \* pub[e]: where the request handler publishing e stands
    todo,       \* todo[e]: copied channels e has not been offered to yet
    sub,        \* sub[s]: where the Subscribe goroutine stands
    hand,       \* hand[s]: the event the goroutine's handler is processing
    cancelled,  \* the ctx given to Subscribe has been cancelled
    sent,       \* history: sent[s] is what Publish put on ch[s], in order
    dropped     \* history: <<e, s>> that found ch[s] full

busVars == <<closed, subs, ch, pub, todo, sub, hand, cancelled, sent, dropped>>

PubStates == {"idle", "request", "open", "sending", "done", "rejected"}
SubStates == {"start", "select", "handle", "drain", "drainHandle", "defer",
              "returned"}

BusTypeOK ==
    /\ closed \in BOOLEAN
    /\ cancelled \in BOOLEAN
    /\ subs \subseteq Subs
    /\ ch \in [Subs -> Seq(Events)]
    /\ \A s \in Subs : Len(ch[s]) <= BufSize
    /\ pub \in [Events -> PubStates]
    /\ todo \in [Events -> SUBSET Subs]
    /\ sub \in [Subs -> SubStates]
    /\ hand \in [Subs -> Events \cup {NoEvent}]
    /\ sent \in [Subs -> Seq(Events)]
    /\ dropped \subseteq Events \X Subs

BusInit ==
    /\ closed = FALSE
    /\ cancelled = FALSE
    /\ subs = {}
    /\ ch = [s \in Subs |-> <<>>]
    /\ pub = [e \in Events |-> "idle"]
    /\ todo = [e \in Events |-> {}]
    /\ sub = [s \in Subs |-> "start"]
    /\ hand = [s \in Subs |-> NoEvent]
    /\ sent = [s \in Subs |-> <<>>]
    /\ dropped = {}

-----------------------------------------------------------------------------
(* Publish *)

\* A handler that has begun and has not returned from Publish.
InFlight(e) == pub[e] \in {"request", "open", "sending"}

PublishCheck(e) ==
    /\ pub[e] = "request"
    /\ pub' = [pub EXCEPT ![e] = IF closed THEN "rejected" ELSE "open"]
    /\ UNCHANGED <<closed, subs, ch, todo, sub, hand, cancelled, sent, dropped>>

PublishSnapshot(e) ==
    /\ pub[e] = "open"
    /\ LET channels == {s \in subs : SubTopic[s] = TopicOf[e]}
       IN  /\ todo' = [todo EXCEPT ![e] = channels]
           /\ pub' = [pub EXCEPT ![e] = IF channels = {} THEN "done" ELSE "sending"]
    /\ UNCHANGED <<closed, subs, ch, sub, hand, cancelled, sent, dropped>>

\* Variant: the capacity test is off by one.
PublishSendOffByOne(e, s) ==
    /\ pub[e] = "sending"
    /\ s \in todo[e]
    /\ \/ /\ Len(ch[s]) <= BufSize
          /\ ch' = [ch EXCEPT ![s] = Append(@, e)]
          /\ sent' = [sent EXCEPT ![s] = Append(@, e)]
          /\ UNCHANGED dropped
       \/ /\ Len(ch[s]) > BufSize
          /\ dropped' = dropped \cup {<<e, s>>}
          /\ UNCHANGED <<ch, sent>>
    /\ todo' = [todo EXCEPT ![e] = @ \ {s}]
    /\ pub' = [pub EXCEPT ![e] = IF todo[e] = {s} THEN "done" ELSE "sending"]
    /\ UNCHANGED <<closed, subs, sub, hand, cancelled>>

PublishSend(e, s) ==
    /\ pub[e] = "sending"
    /\ s \in todo[e]
    /\ \/ /\ Len(ch[s]) < BufSize
          /\ ch' = [ch EXCEPT ![s] = Append(@, e)]
          /\ sent' = [sent EXCEPT ![s] = Append(@, e)]
          /\ UNCHANGED dropped
       \/ /\ Len(ch[s]) >= BufSize
          /\ dropped' = dropped \cup {<<e, s>>}
          /\ UNCHANGED <<ch, sent>>
    /\ todo' = [todo EXCEPT ![e] = @ \ {s}]
    /\ pub' = [pub EXCEPT ![e] = IF todo[e] = {s} THEN "done" ELSE "sending"]
    /\ UNCHANGED <<closed, subs, sub, hand, cancelled>>

PublishStep(e) ==
    \/ PublishCheck(e)
    \/ PublishSnapshot(e)
    \/ \E s \in Subs : PublishSend(e, s)

-----------------------------------------------------------------------------
(* Subscribe *)

SubscribeRegister(s) ==
    /\ sub[s] = "start"
    /\ subs' = subs \cup {s}
    /\ sub' = [sub EXCEPT ![s] = "select"]
    /\ UNCHANGED <<closed, ch, pub, todo, hand, cancelled, sent, dropped>>

\* Take the next message off the channel and call the handler with it.
Receive(s, from, to) ==
    /\ sub[s] = from
    /\ ch[s] # <<>>
    /\ hand' = [hand EXCEPT ![s] = Head(ch[s])]
    /\ ch' = [ch EXCEPT ![s] = Tail(@)]
    /\ sub' = [sub EXCEPT ![s] = to]
    /\ UNCHANGED <<closed, subs, pub, todo, cancelled, sent, dropped>>

SubscribeRecv(s) == Receive(s, "select", "handle")

\* select picks any ready case, so a cancelled ctx may still lose to a message.
SubscribeCtxDone(s) ==
    /\ sub[s] = "select"
    /\ cancelled
    /\ sub' = [sub EXCEPT ![s] = "drain"]
    /\ UNCHANGED <<closed, subs, ch, pub, todo, hand, cancelled, sent, dropped>>

DrainRecv(s) == Receive(s, "drain", "drainHandle")

DrainEmpty(s) ==
    /\ sub[s] = "drain"
    /\ ch[s] = <<>>
    /\ sub' = [sub EXCEPT ![s] = "defer"]
    /\ UNCHANGED <<closed, subs, ch, pub, todo, hand, cancelled, sent, dropped>>

\* The deferred function: only now does the channel leave the list.
Unregister(s) ==
    /\ sub[s] = "defer"
    /\ subs' = subs \ {s}
    /\ sub' = [sub EXCEPT ![s] = "returned"]
    /\ UNCHANGED <<closed, ch, pub, todo, hand, cancelled, sent, dropped>>

SubscribeStep(s) ==
    \/ SubscribeRegister(s)
    \/ SubscribeRecv(s)
    \/ SubscribeCtxDone(s)
    \/ DrainRecv(s)
    \/ DrainEmpty(s)
    \/ Unregister(s)

\* Where the goroutine continues once its handler returns.
HandlerReturn(s) ==
    /\ hand' = [hand EXCEPT ![s] = NoEvent]
    /\ sub' = [sub EXCEPT ![s] = IF @ = "handle" THEN "select" ELSE "drain"]

Handling(s) == sub[s] \in {"handle", "drainHandle"}

\* Close only raises the flag; it waits for nobody.
Close ==
    /\ closed' = TRUE
    /\ UNCHANGED <<subs, ch, pub, todo, sub, hand, cancelled, sent, dropped>>

=============================================================================
