------------------------------ MODULE RateLimit ------------------------------
(***************************************************************************)
(* The sliding window of internal/middleware/ratelimit.go, per user, as    *)
(* setupRouter mounts it: behind Auth, in front of the handler.            *)
(*                                                                         *)
(* A window is a sorted set of milliseconds, each its own score and        *)
(* member.  Each pipeline is one step.                                     *)
(***************************************************************************)
EXTENDS Session

CONSTANTS
    Limit,          \* RateLimitConfig.Limit
    Window,         \* RateLimitConfig.Window
    Slack           \* the second by which the key outlives the window

ASSUME RateLimitAssumption ==
    /\ Limit \in Nat
    /\ Window \in Nat
    /\ Slack \in Nat

VARIABLES
    slots,      \* slots[u]: the sorted set
    slotsUntil, \* slotsUntil[u]: when the key is gone
    passed      \* history: passed[u]: times of the requests that were let through
                \* in the normal way: with no other in the limiter, no error, no
                \* member shared with another, not counted more than Slack late

limitVars == <<slots, slotsUntil, passed>>

LimitInit ==
    /\ slots = [u \in Users |-> {}]
    /\ slotsUntil = [u \in Users |-> 0]
    /\ passed = [u \in Users |-> {}]

\* What the key of u holds.
Slots(u) == IF now < slotsUntil[u] THEN slots[u] ELSE {}

InLimiter(u) == {h \in Handlers : pc[h] \in {"count", "record"} /\ req[h].user = u}

\* slidingWindowAllow takes the time once.
EnterLimiter(h) ==
    LET others == InLimiter(req[h].user)
    IN  /\ pc[h] = "authed"
        /\ req[h].op = "presign"
        /\ pc' = [pc EXCEPT ![h] = "count"]
        /\ req' = [g \in Handlers |->
                     IF g = h THEN [req[h] EXCEPT !.at = now, !.raced = others # {}]
                     ELSE IF g \in others THEN [req[g] EXCEPT !.raced = TRUE]
                     ELSE req[g]]
        /\ UNCHANGED <<started, now, tokenVars, faults, limitVars>>

\* Variant: the boundary of the window is off by one.
InWindowShort(s, at) == s >= at - Window + 2

\* ZREMRANGEBYSCORE 0 (at - Window) leaves these.
InWindow(s, at) == s > at - Window

\* Drop what is older than the window and count the rest; over the limit the
\* request is answered 429 and takes no slot.
CountWindow(h) ==
    LET u == req[h].user
        rest == {s \in Slots(u) : InWindow(s, req[h].at)}
    IN  /\ pc[h] = "count"
        /\ slots' = [slots EXCEPT ![u] = rest]
        /\ IF Cardinality(rest) >= Limit
             THEN Return(h)
             ELSE /\ pc' = [pc EXCEPT ![h] = "record"]
                  /\ req' = [req EXCEPT ![h].raced = @ \/ now > req[h].at + Slack]
                  /\ UNCHANGED started
        /\ UNCHANGED <<now, tokenVars, faults, slotsUntil, passed>>

\* ZADD and EXPIRE.
Record(u, at) ==
    /\ slots' = [slots EXCEPT ![u] = Slots(u) \cup {at}]
    /\ slotsUntil' = [slotsUntil EXCEPT ![u] = now + Window + Slack]

RecordSlot(h) ==
    LET u == req[h].user
        at == req[h].at
    IN  /\ pc[h] = "record"
        /\ Record(u, at)
        /\ passed' = IF req[h].raced \/ at \in Slots(u) THEN passed
                     ELSE [passed EXCEPT ![u] = @ \cup {at}]
        /\ Goto(h, "allowed")
        /\ UNCHANGED <<now, tokenVars, faults>>

\* Either pipeline fails: the request is let through.
LimiterFails(h) ==
    /\ Fault
    /\ \/ pc[h] = "count" /\ UNCHANGED <<slots, slotsUntil>>
       \/ /\ pc[h] = "record"
          /\ Record(req[h].user, req[h].at) \/ UNCHANGED <<slots, slotsUntil>>
    /\ Goto(h, "allowed")
    /\ UNCHANGED <<now, tokenVars, passed>>

LimitStep(h) ==
    \/ EnterLimiter(h)
    \/ CountWindow(h)
    \/ RecordSlot(h)
    \/ LimiterFails(h)

-----------------------------------------------------------------------------
(* Properties *)

\* ratelimit.go:18-20: the limit may be exceeded by requests that arrive
\* simultaneously (or in one millisecond, or so slowly that the key is gone), and
\* by nothing else: of the requests that had the limiter to themselves at most
\* Limit fall into any window, whatever racing, failing and delayed requests do to
\* the sorted set in between.
RateLimited ==
    \A u \in Users : \A t \in passed[u] :
        Cardinality({s \in passed[u] : s <= t /\ s > t - Window}) <= Limit

=============================================================================
