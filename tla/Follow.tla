------------------------------- MODULE Follow -------------------------------
(***************************************************************************)
(* Follow, Unfollow and the two lists of internal/service/follow_service.go *)
(* over the follows table (internal/repository/follow_repository.go), the  *)
(* read-your-writes marker (internal/cache/write_marker.go) and the routing *)
(* of reads to a replica (internal/repository/force_master.go).            *)
(*                                                                         *)
(* A request takes one step per statement or Redis command.  The replica   *)
(* applies the master's changes in order, at any time later.               *)
(***************************************************************************)
EXTENDS Integers, Sequences, FiniteSets

CONSTANTS
    Users,
    Edges,           \* the <<follower, target>> pairs that requests are about
    Asked,           \* the <<user, direction>> pairs that lists are asked of
    Leaving,         \* users whose account may be deleted
    Writers,         \* handlers of Follow and Unfollow
    Readers,         \* handlers of ListFollowers and ListFollowing
    MaxFollowing,    \* cfg.Follow.MaxFollowing
    DefaultListSize, \* cfg.Follow.DefaultListSize
    MaxListSize,     \* cfg.Follow.MaxListSize
    Sizes,           \* page sizes a client may ask for; 0 is an absent one
    Split,           \* TRUE: reads go to a replica unless forced to the master
    MaxFaults,       \* bound on failing statements, Redis commands and publishes
    MaxRequests      \* bound on the number of Follow and Unfollow requests

ASSUME FollowAssumption ==
    /\ IsFiniteSet(Users)
    /\ Users # {}
    /\ Edges \subseteq Users \X Users
    /\ Asked \subseteq Users \X {"followers", "following"}
    /\ Leaving \subseteq Users
    /\ IsFiniteSet(Writers)
    /\ MaxFollowing \in Nat
    /\ DefaultListSize \in Nat \ {0}
    /\ MaxListSize \in Nat \ {0}
    /\ Sizes \subseteq Int
    /\ Split \in BOOLEAN
    /\ MaxFaults \in Nat
    /\ MaxRequests \in Nat

Request == [op : {"follow", "unfollow"}, who : Users, whom : Users]
Row == [id : Nat, who : Users, whom : Users]
Change == [op : {"ins", "del"}, row : Row]

VARIABLES
    follows,    \* the follows table on the master
    nextId,     \* its AUTO_INCREMENT
    replica,    \* the table on the replica
    binlog,     \* changes the replica has not applied
    deleted,    \* users with deleted_at set
    marker,     \* users with a write:user:{id} key
    pc,         \* pc[w]: the next step of writer w
    req,        \* req[w]: its request
    answer,     \* answer[w]: whether its last request returned following=true
    started,    \* number of Follow and Unfollow requests begun
    list,       \* list[r]: reader r's request, and what its answer may rely on
    faults,     \* number of failures so far
    net,        \* history: net[u][t] is the number of follow events minus that
                \* of unfollow events published for u and t
    unsent,     \* history: the same for events that were not published
    raced,      \* history: users who passed the limit check while another of
                \* their follows had passed it or the replica was behind
    misread,    \* history: writers whose Exists saw a row the master had lost
    was,        \* history: was[w]: the edge of w's request has been in the
                \* table at some moment of the request
    exposed     \* history: users without a marker and with writes that have
                \* not reached the replica

dbVars == <<follows, nextId, replica, binlog, deleted>>
reqVars == <<pc, req, answer, started>>
eventVars == <<net, unsent>>
vars == <<dbVars, marker, reqVars, list, faults, eventVars, raced, misread, was, exposed>>

Steps == {"idle", "find", "exists", "count", "create", "delete",
          "markWho", "markWhom", "publish"}
Answers == {"none", "following"}

NoRequest == [op |-> "follow", who |-> CHOOSE u \in Users : TRUE,
              whom |-> CHOOSE u \in Users : TRUE]
NoList == [q |-> "none"]
NoCursor == 0

\* The primary key and uk_follower_following.
Keyed(table) ==
    \A row, other \in table :
        (row.id = other.id \/ (row.who = other.who /\ row.whom = other.whom)) => row = other

TypeOK ==
    /\ follows \subseteq Row
    /\ replica \subseteq Row
    /\ Keyed(follows)
    /\ nextId \in Nat
    /\ \A row \in follows : row.id < nextId
    /\ binlog \in Seq(Change)
    /\ deleted \subseteq Users
    /\ marker \subseteq Users
    /\ pc \in [Writers -> Steps]
    /\ req \in [Writers -> Request]
    /\ answer \in [Writers -> Answers]
    /\ started \in Nat
    /\ faults \in Nat
    /\ net \in [Users -> [Users -> Int]]
    /\ unsent \in [Users -> [Users -> Int]]
    /\ raced \subseteq Users
    /\ misread \subseteq Writers
    /\ was \in [Writers -> BOOLEAN]
    /\ exposed \subseteq Users

Init ==
    /\ follows = {}
    /\ nextId = 1
    /\ replica = {}
    /\ binlog = <<>>
    /\ deleted = {}
    /\ marker = {}
    /\ pc = [w \in Writers |-> "idle"]
    /\ req = [w \in Writers |-> NoRequest]
    /\ answer = [w \in Writers |-> "none"]
    /\ started = 0
    /\ list = [r \in Readers |-> NoList]
    /\ faults = 0
    /\ net = [u \in Users |-> [t \in Users |-> 0]]
    /\ unsent = [u \in Users |-> [t \in Users |-> 0]]
    /\ raced = {}
    /\ misread = {}
    /\ was = [w \in Writers |-> FALSE]
    /\ exposed = {}

-----------------------------------------------------------------------------
(* MySQL and the routing of reads *)

Ends(row) == {row.who, row.whom}
Edge(table, u, t) == {row \in table : row.who = u /\ row.whom = t}
Following(table, u) == {row \in table : row.who = u}

\* A change that touches u is still on its way to the replica.
Behind(u) == \E i \in DOMAIN binlog : u \in Ends(binlog[i].row)

\* Apply: a read uses the replica unless the context forces the master.
ReadTable(force) == IF Split /\ ~force THEN replica ELSE follows

Changed(table, op, row) == IF op = "ins" THEN table \cup {row} ELSE table \ {row}

Commit(op, row) ==
    /\ follows' = Changed(follows, op, row)
    /\ binlog' = IF Split THEN Append(binlog, [op |-> op, row |-> row]) ELSE binlog
    /\ UNCHANGED <<replica, deleted>>

Replicate ==
    /\ binlog # <<>>
    /\ replica' = Changed(replica, Head(binlog).op, Head(binlog).row)
    /\ binlog' = Tail(binlog)
    /\ exposed' = {u \in exposed : Behind(u)'}
    /\ UNCHANGED <<faults, follows, nextId, deleted, marker, reqVars, list, eventVars,
                   raced, misread, was>>

\* deleted_at is set outside this program.
Deactivate(u) ==
    /\ u \notin deleted
    /\ deleted' = deleted \cup {u}
    /\ UNCHANGED <<faults, follows, nextId, replica, binlog, marker, reqVars, list,
                   eventVars, raced, misread, was, exposed>>

-----------------------------------------------------------------------------
(* The marker *)

\* U has unreplicated writes and reads of it are not forced to the master.
Expose(U) == exposed' = exposed \cup {u \in U : u \notin marker' /\ Behind(u)'}

\* The TTL runs out.
MarkerExpires(u) ==
    /\ u \in marker
    /\ marker' = marker \ {u}
    /\ UNCHANGED <<faults, dbVars, reqVars, list, eventVars, raced, misread, was>>
    /\ Expose({u})

\* The user the next Mark of w is for.
ToMark(w) == IF pc[w] = "markWho" THEN req[w].who ELSE req[w].whom

\* One of the MaxFaults failures happens.
Fault == faults < MaxFaults /\ faults' = faults + 1

Goto(w, step) == pc' = [pc EXCEPT ![w] = step]

\* Variant: only the follower is marked.
MarkWhoOnly(w) ==
    /\ pc[w] \in {"markWho", "markWhom"}
    /\ IF pc[w] = "markWho"
         THEN marker' = marker \cup {ToMark(w)} /\ exposed' = exposed \ {ToMark(w)}
         ELSE UNCHANGED <<marker, exposed>>
    /\ Goto(w, IF pc[w] = "markWho" THEN "markWhom" ELSE "publish")
    /\ UNCHANGED <<faults, dbVars, req, answer, started, list, eventVars, raced, misread, was>>

\* Both ends of the edge are marked, one after the other.
Mark(w) ==
    /\ pc[w] \in {"markWho", "markWhom"}
    /\ marker' = marker \cup {ToMark(w)}
    /\ exposed' = exposed \ {ToMark(w)}
    /\ Goto(w, IF pc[w] = "markWho" THEN "markWhom" ELSE "publish")
    /\ UNCHANGED <<faults, dbVars, req, answer, started, list, eventVars, raced, misread, was>>

\* A failed SET is ignored.
MarkFails(w) ==
    /\ Fault
    /\ pc[w] \in {"markWho", "markWhom"}
    /\ Goto(w, IF pc[w] = "markWho" THEN "markWhom" ELSE "publish")
    /\ UNCHANGED <<dbVars, marker, req, answer, started, list, eventVars, raced,
                   misread, was>>
    /\ Expose({ToMark(w)})

-----------------------------------------------------------------------------
(* Follow and Unfollow *)

Return(w, a) ==
    /\ Goto(w, "idle")
    /\ answer' = [answer EXCEPT ![w] = a]
    /\ UNCHANGED <<req, started>>

Proceed(w, step) == Goto(w, step) /\ UNCHANGED <<req, answer, started>>

\* The handler has authenticated u and parsed t.  Follow returns at once if u = t.
Begin(w, op, u, t) ==
    /\ pc[w] = "idle"
    /\ started < MaxRequests
    /\ op = "follow" => u # t
    /\ started' = started + 1
    /\ Goto(w, IF op = "follow" THEN "find" ELSE "delete")
    /\ req' = [req EXCEPT ![w] = [op |-> op, who |-> u, whom |-> t]]
    /\ answer' = [answer EXCEPT ![w] = "none"]
    /\ was' = [was EXCEPT ![w] = Edge(follows, u, t) # {}]
    /\ misread' = misread \ {w}
    /\ UNCHANGED <<faults, dbVars, marker, list, eventVars, raced, exposed>>

\* userRepo.FindByID of the target.
FindTarget(w) ==
    /\ pc[w] = "find"
    /\ IF req[w].whom \in deleted THEN Return(w, "none") ELSE Proceed(w, "exists")
    /\ UNCHANGED <<faults, dbVars, marker, list, eventVars, raced, misread, was, exposed>>

\* followRepo.Exists: an edge that is there already needs neither cap nor event.
Exists(w) ==
    LET seen == Edge(ReadTable(FALSE), req[w].who, req[w].whom)
    IN  /\ pc[w] = "exists"
        /\ IF seen # {} THEN Return(w, "following") ELSE Proceed(w, "count")
        /\ misread' = IF seen \subseteq follows THEN misread ELSE misread \cup {w}
        /\ UNCHANGED <<faults, dbVars, marker, list, eventVars, raced, was, exposed>>

\* Variant: the cap is compared with >.
OverCapOffByOne(n) == n > MaxFollowing

OverCap(n) == n >= MaxFollowing

\* A follow of u has passed the check and not inserted yet.
Passed(u) == \E v \in Writers : pc[v] = "create" /\ req[v].who = u

CountFollowing(w) ==
    LET u == req[w].who
    IN  /\ pc[w] = "count"
        /\ IF OverCap(Cardinality(Following(ReadTable(FALSE), u)))
             THEN Return(w, "none") /\ UNCHANGED raced
             ELSE /\ Proceed(w, "create")
                  /\ raced' = IF Passed(u) \/ Behind(u) THEN raced \cup {u} ELSE raced
        /\ UNCHANGED <<faults, dbVars, marker, list, eventVars, misread, was, exposed>>

\* Variant: the table has no unique key on the edge.
InsertDuplicate(w) ==
    LET u == req[w].who
        t == req[w].whom
    IN  /\ Commit("ins", [id |-> nextId, who |-> u, whom |-> t])
        /\ nextId' = nextId + 1
        /\ was' = [v \in Writers |->
                     was[v] \/ (req[v].who = u /\ req[v].whom = t)]

\* INSERT IGNORE of w's edge; a duplicate uses up an id.
Insert(w) ==
    LET u == req[w].who
        t == req[w].whom
    IN  /\ IF Edge(follows, u, t) = {}
             THEN Commit("ins", [id |-> nextId, who |-> u, whom |-> t])
             ELSE UNCHANGED <<follows, replica, binlog, deleted>>
        /\ nextId' = nextId + 1
        /\ was' = [v \in Writers |->
                     was[v] \/ (req[v].who = u /\ req[v].whom = t)]

\* Variant: the event is published for a duplicate too.
CreateUnchecked(w) ==
    /\ pc[w] = "create"
    /\ Insert(w)
    /\ Proceed(w, "markWho")
    /\ UNCHANGED <<faults, marker, list, eventVars, raced, misread, exposed>>

Create(w) ==
    /\ pc[w] = "create"
    /\ Insert(w)
    /\ IF follows' # follows THEN Proceed(w, "markWho") ELSE Return(w, "following")
    /\ UNCHANGED <<faults, marker, list, eventVars, raced, misread, exposed>>

\* DELETE of w's edge.  A reader no longer has to see the row.
Remove(w) ==
    LET rows == Edge(follows, req[w].who, req[w].whom)
    IN  /\ IF rows # {}
             THEN \E row \in rows : Commit("del", row)
             ELSE UNCHANGED <<follows, replica, binlog, deleted>>
        /\ UNCHANGED nextId
        /\ list' = [r \in Readers |->
                      IF list[r] = NoList THEN NoList
                                          ELSE [list[r] EXCEPT !.must = @ \ rows]]

Delete(w) ==
    /\ pc[w] = "delete"
    /\ Remove(w)
    /\ IF follows' # follows THEN Proceed(w, "markWho") ELSE Return(w, "none")
    /\ UNCHANGED <<faults, marker, eventVars, raced, misread, was, exposed>>

Sign(w) == IF req[w].op = "follow" THEN 1 ELSE -1
Add(count, w, n) == [count EXCEPT ![req[w].who][req[w].whom] = @ + n]

Published(w) == Return(w, IF req[w].op = "follow" THEN "following" ELSE "none")

\* publishFollowEvent, publishUnfollowEvent: a failure is only logged.
Publish(w) ==
    /\ pc[w] = "publish"
    /\ net' = Add(net, w, Sign(w))
    /\ Published(w)
    /\ UNCHANGED <<faults, dbVars, marker, list, unsent, raced, misread, was, exposed>>

PublishFails(w) ==
    /\ Fault
    /\ pc[w] = "publish"
    /\ unsent' = Add(unsent, w, Sign(w))
    /\ Published(w)
    /\ UNCHANGED <<dbVars, marker, list, net, raced, misread, was, exposed>>

\* Variant: a failed INSERT is answered like a duplicate.
StatementFailsSilently(w) ==
    /\ Fault
    /\ pc[w] \in {"find", "exists", "count", "create", "delete"}
    /\ Return(w, IF pc[w] = "create" THEN "following" ELSE "none")
    /\ UNCHANGED <<dbVars, marker, list, eventVars, raced, misread, was, exposed>>

\* A statement fails and the request with it.
StatementFails(w) ==
    /\ Fault
    /\ pc[w] \in {"find", "exists", "count", "create", "delete"}
    /\ Return(w, "none")
    /\ UNCHANGED <<dbVars, marker, list, eventVars, raced, misread, was, exposed>>

\* The INSERT or DELETE is committed but its reply is lost: an error to Follow.
ReplyLost(w) ==
    /\ Fault
    /\ \/ pc[w] = "create" /\ Insert(w) /\ UNCHANGED list
       \/ pc[w] = "delete" /\ Remove(w) /\ UNCHANGED was
    /\ unsent' = IF follows' # follows THEN Add(unsent, w, Sign(w)) ELSE unsent
    /\ Return(w, "none")
    /\ UNCHANGED <<marker, net, raced, misread>>
    /\ Expose({req[w].who, req[w].whom})

-----------------------------------------------------------------------------
(* ListFollowers and ListFollowing *)

\* The two ends of a row in a list of direction dir.
Pivot(row, dir) == IF dir = "followers" THEN row.whom ELSE row.who
Other(row, dir) == IF dir = "followers" THEN row.who ELSE row.whom

ClampSize(n) ==
    IF n <= 0 THEN DefaultListSize ELSE IF n > MaxListSize THEN MaxListSize ELSE n

\* f.id < cursor, unless this is the first page.
Before(row, cursor) == cursor = NoCursor \/ row.id < cursor

\* listJoin without its LIMIT.
Matching(table, q) ==
    {row \in table : /\ Pivot(row, q.dir) = q.user
                     /\ Other(row, q.dir) \notin deleted
                     /\ Before(row, q.cursor)}

\* ORDER BY id DESC LIMIT n.
Newest(rows, n) == {row \in rows : Cardinality({s \in rows : s.id > row.id}) < n}

\* buildFollowListResp over size + 1 rows.
BuildResp(rows, size) ==
    LET hasMore == Cardinality(rows) > size
        kept == Newest(rows, size)
    IN  [rows |-> kept,
         next |-> IF hasMore THEN CHOOSE i \in {row.id : row \in kept} :
                                     \A row \in kept : i <= row.id
                             ELSE NoCursor]

\* Edges of x whose writer has yet to mark x.
Unmarked(x) ==
    {<<req[w].who, req[w].whom>> : w \in {v \in Writers :
        \/ pc[v] = "markWho" /\ x \in {req[v].who, req[v].whom}
        \/ pc[v] = "markWhom" /\ x = req[v].whom}}

\* Rows a list of x may count on: everything marked, unless x is exposed.
Due(q) ==
    {row \in follows :
        /\ Pivot(row, q.dir) = q.user
        /\ q.cursor = NoCursor \/ row.id < q.cursor
        /\ q.user \notin exposed
        /\ <<row.who, row.whom>> \notin Unmarked(q.user)}

\* Rows it may count on not to see: deleted, marked since, and still to be
\* deleted on the replica.
Gone(q) ==
    {row \in replica \cup {binlog[i].row : i \in DOMAIN binlog} :
        /\ row \notin follows
        /\ q.user \notin exposed
        /\ <<row.who, row.whom>> \notin Unmarked(q.user)}

Has(x) == x \in marker

\* The request parses its cursor, clamps its size and probes the marker.
ListBegin(r, x, dir, cursor, size, probed) ==
    LET q == [user |-> x, dir |-> dir, cursor |-> cursor, size |-> ClampSize(size)]
    IN  /\ list[r] = NoList
        /\ list' = [list EXCEPT ![r] =
                      [q |-> q,
                       force |-> probed /\ Has(x),
                       must |-> IF probed THEN Due(q) ELSE {},
                       gone |-> IF probed THEN Gone(q) ELSE {}]]
        /\ UNCHANGED <<dbVars, marker, reqVars, eventVars, raced, misread, was, exposed>>

\* A Redis error in Has counts as no marker.
ListBeginHasFails(r, x, dir, cursor, size) ==
    Fault /\ ListBegin(r, x, dir, cursor, size, FALSE)

\* What the query and the response built from it give.
Page(r) ==
    LET q == list[r].q
    IN  BuildResp(Newest(Matching(ReadTable(list[r].force), q), q.size + 1), q.size)

\* The request answers Page(r), or the query fails.
ListQuery(r) ==
    /\ list[r] # NoList
    /\ list' = [list EXCEPT ![r] = NoList]
    /\ UNCHANGED <<faults, dbVars, marker, reqVars, eventVars, raced, misread, was, exposed>>

ListQueryFails(r) ==
    /\ Fault
    /\ list[r] # NoList
    /\ list' = [list EXCEPT ![r] = NoList]
    /\ UNCHANGED <<dbVars, marker, reqVars, eventVars, raced, misread, was, exposed>>

-----------------------------------------------------------------------------

WriterStep(w) ==
    \/ \E op \in {"follow", "unfollow"}, e \in Edges : Begin(w, op, e[1], e[2])
    \/ FindTarget(w)
    \/ Exists(w)
    \/ CountFollowing(w)
    \/ Create(w)
    \/ Delete(w)
    \/ Mark(w)
    \/ MarkFails(w)
    \/ Publish(w)
    \/ PublishFails(w)
    \/ StatementFails(w)
    \/ ReplyLost(w)

ReaderStep(r) ==
    \/ \E l \in Asked, cursor \in 0..(nextId - 1), size \in Sizes :
          \/ ListBegin(r, l[1], l[2], cursor, size, TRUE) /\ UNCHANGED faults
          \/ ListBeginHasFails(r, l[1], l[2], cursor, size)
    \/ ListQuery(r)
    \/ ListQueryFails(r)

Next ==
    \/ \E w \in Writers : WriterStep(w)
    \/ \E r \in Readers : ReaderStep(r)
    \/ \E u \in Leaving : Deactivate(u)
    \/ \E u \in Users : MarkerExpires(u)
    \/ Replicate

Spec == Init /\ [][Next]_vars

-----------------------------------------------------------------------------
(* Properties *)

\* Writers of u and t that have changed the row and not published yet.
InFlight(op, u, t) ==
    {w \in Writers : /\ pc[w] \in {"markWho", "markWhom", "publish"}
                     /\ req[w] = [op |-> op, who |-> u, whom |-> t]}

\* follow_service.go:157-159, "no double counting": whatever follows and
\* unfollows of one edge overlap, follow events minus unfollow events (sent,
\* about to be sent, or lost with an error) is 1 while the row exists and 0
\* while it does not.
EventsMatchRows ==
    \A u, t \in Users :
        net[u][t] + unsent[u][t] + Cardinality(InFlight("follow", u, t))
                                 - Cardinality(InFlight("unfollow", u, t))
          = Cardinality(Edge(follows, u, t))

\* The cap of CountFollowing (follow_service.go:151) holds for every user except
\* those whose follows overlapped between the check and the INSERT, or were
\* checked against a replica that was behind.
LimitHeld ==
    \A u \in Users \ raced : Cardinality(Following(follows, u)) <= MaxFollowing

\* A Follow that answers "following" is right: the edge was there at some moment
\* of the request, unless Exists was answered by a replica that still had a row
\* the user had removed (follow_service.go:141 reads without the marker).
FollowTakesEffect ==
    \A w \in Writers : answer[w] = "following" => was[w] \/ w \in misread

\* write_marker.go: a list of x shows every row that was written and marked when
\* the request began and has not been removed since, on this page or before the
\* cursor of the next one, and none that had been deleted and marked - unless
\* x was exposed then: a Mark failed, or expired before the replica caught up.
ReadYourWrites ==
    [][\A r \in Readers : ListQuery(r) =>
         /\ \A row \in list[r].must :
               \/ row \in Page(r).rows
               \/ Page(r).next # NoCursor /\ row.id < Page(r).next
               \/ Other(row, list[r].q.dir) \in deleted
         /\ Page(r).rows \cap list[r].gone = {}]_vars

=============================================================================
