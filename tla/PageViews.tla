------------------------------ MODULE PageViews ------------------------------
(***************************************************************************)
(* From GetDetail (internal/service/post_service.go) to posts.view_count:  *)
(* the pv:dup mark of internal/cache/feed_cache.go, the PVEvent on the     *)
(* RabbitMQ bus, and internal/consumer/pv_consumer.go.                     *)
(*                                                                         *)
(* An event e is a detail request and the PVEvent it publishes if it is    *)
(* the viewer's first within the deduplication window.                     *)
(*                                                                         *)
(* The PVConsumer has the life cycle of the CountConsumer with one topic:  *)
(* a PVEvent is one delta, +1 on the column view_count of the row of its   *)
(* post, which is what Users and Columns stand for here.                   *)
(***************************************************************************)
EXTENDS CountConsumer

CONSTANTS
    ViewerOf,       \* ViewerOf[e]: user id or hashed address of the viewer
    PostOf          \* PostOf[e]: the post asked for

ASSUME PageViewAssumption == PostOf \in [Events -> Users]

\* The deltas of the PVConsumer.
DeltasAreViews ==
    /\ Columns = {"view_count"}
    /\ DeltasOf = [e \in Events |->
                     <<[user |-> PostOf[e], column |-> "view_count", by |-> 1]>>]

VARIABLES
    view,       \* view[e]: where the request stands
    marks,      \* the keys pv:dup
    opened      \* history: requests that set their key and so opened a window

viewVars == <<view, marks, opened>>
pvVars == <<vars, viewVars>>

\* pvDedupKey.
Key(e) == <<PostOf[e], ViewerOf[e]>>
Keys == {Key(e) : e \in Events}

PVInit ==
    /\ Init
    /\ view = [e \in Events |-> "idle"]
    /\ marks = {}
    /\ opened = {}

-----------------------------------------------------------------------------
(* GetDetail *)

ViewGoto(e, state) == view' = [view EXCEPT ![e] = state]

\* The post, its author and its steps are loaded.  A post that is missing or not
\* visible, or an error, ends the request; without steps it goes on.
LoadPost(e) ==
    /\ view[e] = "idle"
    /\ ~cancelled
    /\ ViewGoto(e, "mark") \/ ViewGoto(e, "done")
    /\ UNCHANGED <<vars, marks, opened>>

SetMark(e) ==
    /\ marks' = marks \cup {Key(e)}
    /\ opened' = opened \cup {e}

\* Variant: the reply of SETNX is not looked at.
MarkPVSeenIgnored(e) ==
    /\ view[e] = "mark"
    /\ ViewGoto(e, "publish")
    /\ IF Key(e) \in marks THEN UNCHANGED <<marks, opened>> ELSE SetMark(e)
    /\ UNCHANGED vars

\* SETNX: the first view in the window publishes.
MarkPVSeen(e) ==
    /\ view[e] = "mark"
    /\ IF Key(e) \in marks
       THEN ViewGoto(e, "done") /\ UNCHANGED <<marks, opened>>
       ELSE ViewGoto(e, "publish") /\ SetMark(e)
    /\ UNCHANGED vars

\* An error ends recordPV; the key may have been set.
MarkPVSeenFails(e) ==
    /\ view[e] = "mark"
    /\ Fault
    /\ UNCHANGED <<marks, opened>> \/ (Key(e) \notin marks /\ SetMark(e))
    /\ ViewGoto(e, "done")
    /\ UNCHANGED <<busRest, sub, countVars>>

\* Publish; recordPV ignores its result.
PublishPV(e) ==
    /\ view[e] = "publish"
    /\ PublishStep(e)
    /\ IF pub'[e] \in {"done", "failed"} THEN ViewGoto(e, "done") ELSE UNCHANGED view
    /\ UNCHANGED <<countVars, marks, opened>>

MarkExpires(k) ==
    /\ k \in marks
    /\ marks' = marks \ {k}
    /\ UNCHANGED <<vars, view, opened>>

-----------------------------------------------------------------------------
(* PVConsumer *)

\* Start: unmarshal, deduplicate, send.
PVHandler(s) == HandlerStep(s) /\ UNCHANGED viewVars

\* flushLoop and flush.
PVFlushLoop == LoopStep /\ UNCHANGED viewVars

PVSubscribe(s) == SubscribeStep(s) /\ UNCHANGED <<countVars, viewVars>>

\* The requests in progress end with the process.
PVCrash ==
    /\ Crash
    /\ view' = [e \in Events |-> IF view[e] = "idle" THEN "idle" ELSE "done"]
    /\ UNCHANGED <<marks, opened>>

PVNext ==
    \/ \E e \in Events : LoadPost(e) \/ MarkPVSeen(e) \/ MarkPVSeenFails(e) \/ PublishPV(e)
    \/ \E k \in Keys : MarkExpires(k)
    \/ \E s \in Subs : PVSubscribe(s) \/ PVHandler(s)
    \/ PVFlushLoop
    \/ (ConnectionLost \/ Cancel) /\ UNCHANGED <<countVars, viewVars>>
    \/ PVCrash

PVSpec == PVInit /\ [][PVNext]_pvVars

-----------------------------------------------------------------------------
(* Properties *)

\* feed_cache.go:182-184 and pv_consumer.go:58-61: a viewer counts once per
\* window: concurrent requests, redeliveries, crashes and retried publishes never
\* make view_count exceed the windows opened, unless the consumer's SETNX failed
\* for an event of the post.
ViewsNeverInflated ==
    \A p \in Users :
        (\A e \in unguarded : PostOf[e] # p) =>
            counter[p]["view_count"] <= Cardinality({e \in opened : PostOf[e] = p})

\* When the broker has accepted an event for every window opened, the consumer has
\* begun with each and nothing is on its way, view_count is exact, unless a delta
\* was lost in one of the known ways: a failed UPDATE, the ctx.Done() case of the
\* handler, a crash of the process that held it.
ViewsSettle ==
    Quiet /\ opened \subseteq accepted \cap seen /\ unguarded = {} /\ lost = {} =>
        \A p \in Users :
            counter[p]["view_count"] = Cardinality({e \in opened : PostOf[e] = p})

=============================================================================
