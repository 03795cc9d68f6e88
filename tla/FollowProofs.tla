----------------------------- MODULE FollowProofs -----------------------------
(***************************************************************************)
(* Proofs about Follow: for any users, edges, requests, page sizes and     *)
(* caps, with or without a replica.                                        *)
(***************************************************************************)
EXTENDS Follow, TLAPS, FiniteSetTheorems, SequenceTheorems, WellFoundedInduction, NaturalsInduction

-----------------------------------------------------------------------------
(***************************************************************************)
(* The requests.                                                           *)
(***************************************************************************)

\* What a request at a step can be.
Fits(step, r) ==
    /\ step \in {"find", "exists", "count", "create"} => r.op = "follow"
    /\ step = "delete" => r.op = "unfollow"

CtlInv ==
    /\ pc \in [Writers -> Steps]
    /\ req \in [Writers -> Request]
    /\ answer \in [Writers -> Answers]
    /\ was \in [Writers -> BOOLEAN]
    /\ \A w \in Writers : Fits(pc[w], req[w])

\* The steps after a request changed its row.
Changing == {"markWho", "markWhom", "publish"}

\* The steps from which a request goes on to the next as it is.
Flow == {<<"find", "exists">>, <<"exists", "count">>, <<"count", "create">>, <<"create", "markWho">>,
         <<"delete", "markWho">>, <<"markWho", "markWhom">>, <<"markWhom", "publish">>}

\* What the assumptions say of the constants.
LEMMA FollowConstants ==
    /\ IsFiniteSet(Users) /\ IsFiniteSet(Writers) /\ Edges \subseteq Users \X Users
    /\ Asked \subseteq Users \X {"followers", "following"}
    /\ MaxFollowing \in Nat /\ DefaultListSize \in Nat \ {0} /\ MaxListSize \in Nat \ {0}
    /\ Sizes \subseteq Int /\ Split \in BOOLEAN
    /\ NoRequest \in Request
  <1>1. (CHOOSE u \in Users : TRUE) \in Users
    BY FollowAssumption
  <1>2. QED
    BY <1>1, FollowAssumption DEF NoRequest, Request

\* A request goes on as it is, to step; or it returns the answer a.
GoesOn(w, step) == pc' = [pc EXCEPT ![w] = step] /\ UNCHANGED <<req, answer, started>>
Returns(w, a) ==
    pc' = [pc EXCEPT ![w] = "idle"] /\ answer' = [answer EXCEPT ![w] = a] /\ UNCHANGED <<req, started>>
Begins(w) ==
    \E op \in {"follow", "unfollow"}, e \in Edges : Begin(w, op, e[1], e[2])

\* A step of a writer that has begun.
Continues(w) ==
    \/ FindTarget(w) \/ Exists(w) \/ CountFollowing(w) \/ Create(w) \/ Delete(w) \/ Mark(w)
    \/ MarkFails(w) \/ Publish(w) \/ PublishFails(w) \/ StatementFails(w) \/ ReplyLost(w)

\* Every step of a writer is one or the other.
LEMMA WriterSteps ==
    ASSUME NEW w \in Writers, WriterStep(w)
    PROVE  Begins(w) \/ Continues(w)
  BY DEF WriterStep, Begins, Continues

\* A request goes on or returns; "following" is answered in three places.
LEMMA ContinueMoves ==
    ASSUME NEW w \in Writers, Continues(w)
    PROVE  \/ \E step \in Steps : GoesOn(w, step) /\ <<pc[w], step>> \in Flow
           \/ Returns(w, "none") /\ pc[w] # "idle"
           \/ /\ Returns(w, "following")
              /\ \/ pc[w] = "exists" /\ Exists(w)
                 \/ pc[w] = "create" /\ Create(w)
                 \/ pc[w] = "publish" /\ req[w].op = "follow"
  <1>1. CASE FindTarget(w)
    BY <1>1 DEF FindTarget, Return, Proceed, Goto, GoesOn, Returns, Flow, Steps
  <1>2. CASE Exists(w)
    BY <1>2 DEF Exists, Return, Proceed, Goto, GoesOn, Returns, Flow, Steps
  <1>3. CASE CountFollowing(w)
    BY <1>3 DEF CountFollowing, Return, Proceed, Goto, GoesOn, Returns, Flow, Steps
  <1>4. CASE Create(w)
    BY <1>4 DEF Create, Return, Proceed, Goto, GoesOn, Returns, Flow, Steps
  <1>5. CASE Delete(w)
    BY <1>5 DEF Delete, Return, Proceed, Goto, GoesOn, Returns, Flow, Steps
  <1>6. CASE Mark(w) \/ MarkFails(w)
    BY <1>6 DEF Mark, MarkFails, Goto, GoesOn, Flow, Steps
  <1>7. CASE Publish(w) \/ PublishFails(w)
    BY <1>7 DEF Publish, PublishFails, Published, Return, Goto, Returns
  <1>8. CASE StatementFails(w)
    BY <1>8 DEF StatementFails, Return, Goto, Returns
  <1>9. CASE ReplyLost(w)
    BY <1>9 DEF ReplyLost, Return, Goto, Returns
  <1>10. QED
    BY <1>1, <1>2, <1>3, <1>4, <1>5, <1>6, <1>7, <1>8, <1>9 DEF Continues

\* The steps of readers, users, keys and the replica.
LEMMA OtherSteps ==
    ASSUME [Next]_vars, ~(\E w \in Writers : WriterStep(w))
    PROVE  UNCHANGED <<pc, req, answer, started, was, misread, raced, net, unsent, follows, nextId>>
  <1>1. ASSUME NEW r \in Readers, ReaderStep(r)
        PROVE  UNCHANGED <<dbVars, reqVars, eventVars, raced, misread, was>>
    BY <1>1 DEF ReaderStep, ListBegin, ListBeginHasFails, ListQuery, ListQueryFails
  <1>2. CASE \E r \in Readers : ReaderStep(r)
    BY <1>1, <1>2 DEF dbVars, reqVars, eventVars
  <1>3. CASE \E u \in Leaving : Deactivate(u)
    BY <1>3 DEF Deactivate, reqVars, eventVars
  <1>4. CASE \E u \in Users : MarkerExpires(u)
    BY <1>4 DEF MarkerExpires, dbVars, reqVars, eventVars
  <1>5. CASE Replicate
    BY <1>5 DEF Replicate, reqVars, eventVars
  <1>6. CASE UNCHANGED vars
    BY <1>6 DEF vars, dbVars, reqVars, eventVars
  <1>7. QED
    BY <1>2, <1>3, <1>4, <1>5, <1>6 DEF Next

\* Only Begin and the INSERTs touch was, and they keep its type.
LEMMA WasTyped ==
    ASSUME CtlInv, NEW w \in Writers, WriterStep(w)
    PROVE  was' \in [Writers -> BOOLEAN]
  <1>1. CASE Begins(w)
    BY <1>1 DEF Begins, Begin, CtlInv
  <1>2. CASE Create(w) \/ ReplyLost(w)
    BY <1>2 DEF Create, ReplyLost, Insert, CtlInv
  <1>3. CASE ~(Begins(w) \/ Create(w) \/ ReplyLost(w))
    BY <1>3 DEF WriterStep, Begins, FindTarget, Exists, CountFollowing, Delete, Mark, MarkFails, Publish,
           PublishFails, StatementFails, CtlInv
  <1>4. QED
    BY <1>1, <1>2, <1>3

\* What the beginning of a request sets.
LEMMA BeginSets ==
    ASSUME CtlInv, NEW w \in Writers, Begins(w)
    PROVE  \E op \in {"follow", "unfollow"}, u \in Users, t \in Users :
              /\ pc[w] = "idle" /\ pc' = [pc EXCEPT ![w] = IF op = "follow" THEN "find" ELSE "delete"]
              /\ req' = [req EXCEPT ![w] = [op |-> op, who |-> u, whom |-> t]]
              /\ answer' = [answer EXCEPT ![w] = "none"]
              /\ was' = [was EXCEPT ![w] = Edge(follows, u, t) # {}]
              /\ misread' = misread \ {w}
              /\ UNCHANGED <<faults, dbVars, marker, list, eventVars, raced, exposed>>
  <1>1. PICK op \in {"follow", "unfollow"}, e \in Edges : Begin(w, op, e[1], e[2])
    BY DEF Begins
  <1>2. e[1] \in Users /\ e[2] \in Users
    BY FollowConstants
  <1>3. QED
    BY <1>1, <1>2 DEF Begin, Goto

\* Every step keeps the control state.
LEMMA CtlStep == CtlInv /\ [Next]_vars => CtlInv'
  <1> SUFFICES ASSUME CtlInv, [Next]_vars PROVE CtlInv'
    OBVIOUS
  <1>0. /\ pc \in [Writers -> Steps] /\ req \in [Writers -> Request] /\ answer \in [Writers -> Answers]
        /\ \A w \in Writers : Fits(pc[w], req[w])
    BY DEF CtlInv
  <1>1. ASSUME NEW w \in Writers, Begins(w)
        PROVE  CtlInv'
    <2>1. PICK op \in {"follow", "unfollow"}, u \in Users, t \in Users :
              /\ pc' = [pc EXCEPT ![w] = IF op = "follow" THEN "find" ELSE "delete"]
              /\ req' = [req EXCEPT ![w] = [op |-> op, who |-> u, whom |-> t]]
              /\ answer' = [answer EXCEPT ![w] = "none"]
      BY <1>1, BeginSets
    <2>2. [op |-> op, who |-> u, whom |-> t] \in Request
      BY DEF Request
    <2>3. pc' \in [Writers -> Steps] /\ req' \in [Writers -> Request] /\ answer' \in [Writers -> Answers]
      BY <1>0, <2>1, <2>2 DEF Steps, Answers
    <2>4. was' \in [Writers -> BOOLEAN]
      BY <1>1, WasTyped DEF WriterStep, Begins
    <2>5. Fits(IF op = "follow" THEN "find" ELSE "delete", [op |-> op, who |-> u, whom |-> t])
      BY DEF Fits
    <2>6. ASSUME NEW v \in Writers
          PROVE  Fits(pc'[v], req'[v])
      <3>1. CASE v = w
        BY <1>0, <2>1, <2>5, <3>1
      <3>2. CASE v # w
        BY <1>0, <2>1, <3>2
      <3>3. QED
        BY <3>1, <3>2
    <2>7. QED
      BY <2>3, <2>4, <2>6 DEF CtlInv
  <1>2. ASSUME NEW w \in Writers, Continues(w)
        PROVE  CtlInv'
    <2>1. was' \in [Writers -> BOOLEAN]
      BY <1>2, WasTyped DEF WriterStep, Continues
    <2>2. ASSUME NEW step \in Steps, GoesOn(w, step), <<pc[w], step>> \in Flow
          PROVE  CtlInv'
      <3>1. Fits(step, req[w])
        BY <1>0, <2>2 DEF Fits, Flow
      <3>2. QED
        BY <1>0, <2>1, <2>2, <3>1 DEF CtlInv, GoesOn
    <2>3. ASSUME NEW a \in Answers, Returns(w, a)
          PROVE  CtlInv'
      <3>1. Fits("idle", req[w]) /\ "idle" \in Steps
        BY DEF Fits, Steps
      <3>2. QED
        BY <1>0, <2>1, <2>3, <3>1 DEF CtlInv, Returns
    <2>4. QED
      BY <1>2, <2>2, <2>3, ContinueMoves DEF Answers
  <1>3. CASE UNCHANGED <<pc, req, answer, was>>
    BY <1>3 DEF CtlInv
  <1>4. QED
    BY <1>1, <1>2, <1>3, WriterSteps, OtherSteps

\* Requests are always complete for the step they are at.
LEMMA CtlInvariance == Spec => []CtlInv
  <1>1. Init => CtlInv
    BY FollowConstants DEF Init, CtlInv, Fits, Steps, Answers
  <1>2. QED
    BY <1>1, CtlStep, PTL DEF Spec

-----------------------------------------------------------------------------
(***************************************************************************)
(* The tables.  A row is never written again under the same id.            *)
(***************************************************************************)

\* Rows whose changes have not reached the replica.
Pending == {binlog[i].row : i \in DOMAIN binlog}

Known == follows \cup replica \cup Pending

TabInv ==
    /\ follows \subseteq Row /\ IsFiniteSet(follows)
    /\ replica \subseteq Row /\ IsFiniteSet(replica)
    /\ binlog \in Seq(Change)
    /\ nextId \in Nat \ {0}
    /\ \A row \in Known : row.id < nextId /\ row.id # NoCursor
    /\ \A row, other \in Known : row.id = other.id => row = other
    /\ \A row, other \in follows : row.who = other.who /\ row.whom = other.whom => row = other

\* The row that an INSERT for w would add.
NewRow(w) == [id |-> nextId, who |-> req[w].who, whom |-> req[w].whom]

EdgeOf(w) == Edge(follows, req[w].who, req[w].whom)

Inserts(w) == EdgeOf(w) = {} /\ Commit("ins", NewRow(w)) /\ nextId' = nextId + 1
Removes(w) == \E row \in EdgeOf(w) : Commit("del", row) /\ UNCHANGED nextId

Quiet == UNCHANGED <<follows, replica, binlog>> /\ nextId' \in {nextId, nextId + 1}

\* What an INSERT IGNORE does to the tables.
LEMMA InsertEffect ==
    ASSUME NEW w \in Writers, Insert(w)
    PROVE  /\ IF EdgeOf(w) = {} THEN Inserts(w) ELSE Quiet
           /\ EdgeOf(w) = {} <=> follows' # follows
           /\ was' = [v \in Writers |->
                        was[v] \/ (req[v].who = req[w].who /\ req[v].whom = req[w].whom)]
  <1>1. IF EdgeOf(w) = {} THEN Inserts(w) ELSE Quiet
    BY DEF Insert, EdgeOf, Inserts, NewRow, Quiet
  <1>2. CASE EdgeOf(w) = {}
    <2>1. NewRow(w) \notin follows
      BY <1>2 DEF EdgeOf, Edge, NewRow
    <2>2. follows' = follows \cup {NewRow(w)}
      BY <1>1, <1>2 DEF Inserts, Commit, Changed
    <2>3. QED
      BY <1>1, <1>2, <2>1, <2>2 DEF Insert
  <1>3. CASE EdgeOf(w) # {}
    BY <1>1, <1>3 DEF Insert, Quiet
  <1>4. QED
    BY <1>2, <1>3

\* What a DELETE does to them.
LEMMA RemoveEffect ==
    ASSUME NEW w \in Writers, Remove(w)
    PROVE  /\ IF EdgeOf(w) # {} THEN Removes(w) ELSE Quiet
           /\ EdgeOf(w) # {} <=> follows' # follows
  <1>1. IF EdgeOf(w) # {} THEN Removes(w) ELSE Quiet
    BY DEF Remove, EdgeOf, Removes, Quiet
  <1>2. CASE EdgeOf(w) # {}
    <2>1. PICK row \in EdgeOf(w) : Commit("del", row)
      BY <1>1, <1>2 DEF Removes
    <2>2. row \in follows /\ follows' = follows \ {row}
      BY <2>1 DEF EdgeOf, Edge, Commit, Changed
    <2>3. QED
      BY <1>1, <1>2, <2>2
  <1>3. CASE EdgeOf(w) = {}
    BY <1>1, <1>3 DEF Quiet
  <1>4. QED
    BY <1>2, <1>3

\* The writers' steps that execute no INSERT or DELETE.
LEMMA NoStatement ==
    ASSUME NEW w \in Writers, WriterStep(w), ~Create(w), ~Delete(w), ~ReplyLost(w)
    PROVE  UNCHANGED <<follows, nextId, replica, binlog>>
  BY DEF WriterStep, Begin, FindTarget, Exists, CountFollowing, Mark, MarkFails, Publish, PublishFails,
         StatementFails, dbVars

\* Every step does one of four things to the tables.
LEMMA TableSteps ==
    ASSUME [Next]_vars
    PROVE  Quiet \/ Replicate \/ \E w \in Writers : Inserts(w) \/ Removes(w)
  <1>1. ASSUME NEW w \in Writers, WriterStep(w)
        PROVE  Quiet \/ Inserts(w) \/ Removes(w)
    <2>1. CASE Create(w)
      BY <2>1, InsertEffect DEF Create
    <2>2. CASE Delete(w)
      BY <2>2, RemoveEffect DEF Delete
    <2>3. CASE ReplyLost(w)
      BY <2>3, InsertEffect, RemoveEffect DEF ReplyLost
    <2>4. QED
      BY <1>1, <2>1, <2>2, <2>3, NoStatement DEF Quiet
  <1>2. CASE ~(\E w \in Writers : WriterStep(w)) /\ ~Replicate
    <2>1. UNCHANGED <<follows, nextId>>
      BY <1>2, OtherSteps
    <2>2. UNCHANGED <<replica, binlog>>
      <3>1. ASSUME NEW r \in Readers, ReaderStep(r)
            PROVE  UNCHANGED dbVars
        BY <3>1 DEF ReaderStep, ListBegin, ListBeginHasFails, ListQuery, ListQueryFails
      <3>2. CASE \E u \in Leaving : Deactivate(u)
        BY <3>2 DEF Deactivate
      <3>3. CASE \E u \in Users : MarkerExpires(u)
        BY <3>3 DEF MarkerExpires, dbVars
      <3>4. CASE UNCHANGED vars
        BY <3>4 DEF vars, dbVars
      <3>5. QED
        BY <1>2, <3>1, <3>2, <3>3, <3>4 DEF Next, dbVars
    <2>3. QED
      BY <2>1, <2>2 DEF Quiet
  <1>3. QED
    BY <1>1, <1>2

\* What a commit does to the binlog and to the rows in it.
LEMMA CommitEffect ==
    ASSUME TabInv, NEW op \in {"ins", "del"}, NEW row \in Row, Commit(op, row)
    PROVE  /\ follows' = Changed(follows, op, row) /\ replica' = replica
           /\ binlog' \in Seq(Change) /\ Pending' \subseteq Pending \cup {row}
           /\ Split => /\ Len(binlog') = Len(binlog) + 1 /\ Pending' = Pending \cup {row}
                       /\ \A i \in 1..Len(binlog) : binlog'[i] = binlog[i]
                       /\ binlog'[Len(binlog) + 1].op = op /\ binlog'[Len(binlog) + 1].row = row
           /\ ~Split => binlog' = binlog
  <1> DEFINE c == [op |-> op, row |-> row]
  <1>1. c \in Change /\ c.op = op /\ c.row = row
    BY DEF Change
  <1>2. /\ follows' = Changed(follows, op, row) /\ replica' = replica
        /\ binlog' = IF Split THEN Append(binlog, c) ELSE binlog
    BY DEF Commit
  <1> HIDE DEF c
  <1>3. binlog \in Seq(Change) /\ DOMAIN binlog = 1..Len(binlog) /\ Len(binlog) \in Nat
    BY DEF TabInv
  <1>4. CASE Split
    <2>1. /\ binlog' \in Seq(Change) /\ Len(binlog') = Len(binlog) + 1
          /\ DOMAIN binlog' = 1..(Len(binlog) + 1)
          /\ \A i \in 1..Len(binlog) : binlog'[i] = binlog[i]
          /\ binlog'[Len(binlog) + 1] = c
      BY <1>1, <1>2, <1>3, <1>4
    <2>2. \A i \in 1..(Len(binlog) + 1) : i \in 1..Len(binlog) \/ i = Len(binlog) + 1
      BY <1>3
    <2>3. (Len(binlog) + 1) \in 1..(Len(binlog) + 1) /\ 1..Len(binlog) \subseteq 1..(Len(binlog) + 1)
      BY <1>3
    <2>4. Pending' = Pending \cup {row}
      BY <1>1, <1>3, <2>1, <2>2, <2>3 DEF Pending
    <2>5. QED
      BY <1>1, <1>2, <1>4, <2>1, <2>4
  <1>5. CASE ~Split
    BY <1>2, <1>3, <1>5 DEF Pending
  <1>6. QED
    BY <1>4, <1>5

\* What the replica does with the oldest change.
LEMMA ReplicateEffect ==
    ASSUME TabInv, Replicate
    PROVE  /\ binlog[1] \in Change /\ Len(binlog) > 0 /\ binlog[1].row \in Pending
           /\ replica' = Changed(replica, binlog[1].op, binlog[1].row)
           /\ follows' = follows /\ nextId' = nextId
           /\ binlog' \in Seq(Change) /\ Len(binlog') = Len(binlog) - 1
           /\ \A i \in 1..Len(binlog') : binlog'[i] = binlog[i + 1] /\ i + 1 \in 1..Len(binlog)
           /\ \A i \in 1..Len(binlog) : i = 1 \/ (i - 1 \in 1..Len(binlog') /\ binlog'[i - 1] = binlog[i])
           /\ Pending \subseteq Pending' \cup {binlog[1].row} /\ Pending' \subseteq Pending
  <1>1. /\ binlog \in Seq(Change) /\ DOMAIN binlog = 1..Len(binlog) /\ Len(binlog) \in Nat
        /\ binlog # <<>> /\ binlog' = Tail(binlog) /\ follows' = follows /\ nextId' = nextId
        /\ replica' = Changed(replica, Head(binlog).op, Head(binlog).row)
    BY DEF TabInv, Replicate
  <1>2. Len(binlog) > 0 /\ Head(binlog) = binlog[1] /\ 1 \in DOMAIN binlog /\ binlog[1] \in Change
    BY <1>1
  <1>3. /\ binlog' \in Seq(Change) /\ Len(binlog') = Len(binlog) - 1 /\ DOMAIN binlog' = 1..Len(binlog')
        /\ \A i \in 1..Len(binlog') : binlog'[i] = binlog[i + 1]
    BY <1>1, <1>2
  <1>4. \A i \in 1..Len(binlog') : i + 1 \in 1..Len(binlog)
    BY <1>1, <1>3
  <1>5. ASSUME NEW i \in 1..Len(binlog), i # 1
        PROVE  i - 1 \in 1..Len(binlog') /\ binlog'[i - 1] = binlog[i]
    <2>1. i - 1 \in 1..Len(binlog') /\ (i - 1) + 1 = i
      BY <1>1, <1>3, <1>5
    <2>2. QED
      BY <1>3, <2>1
  <1>6. Pending \subseteq Pending' \cup {binlog[1].row} /\ Pending' \subseteq Pending
    <2>1. \A i \in 1..Len(binlog) : binlog[i].row \in Pending' \cup {binlog[1].row}
      BY <1>3, <1>5 DEF Pending
    <2>2. \A i \in 1..Len(binlog') : binlog'[i].row \in Pending
      BY <1>1, <1>3, <1>4 DEF Pending
    <2>3. QED
      BY <1>1, <1>3, <2>1, <2>2 DEF Pending
  <1>7. QED
    BY <1>1, <1>2, <1>3, <1>4, <1>5, <1>6 DEF Pending

\* Every step keeps the tables.
LEMMA TabStep == CtlInv /\ TabInv /\ [Next]_vars => TabInv'
  <1> SUFFICES ASSUME CtlInv, TabInv, [Next]_vars PROVE TabInv'
    OBVIOUS
  <1>0. /\ follows \subseteq Row /\ IsFiniteSet(follows) /\ replica \subseteq Row /\ IsFiniteSet(replica)
        /\ nextId \in Nat \ {0} /\ \A row \in Known : row.id < nextId /\ row \in Row /\ row.id # NoCursor
        /\ \A row, other \in Known : row.id = other.id => row = other
        /\ \A row, other \in follows : row.who = other.who /\ row.whom = other.whom => row = other
    <2>1. ASSUME NEW i \in DOMAIN binlog
          PROVE  binlog[i].row \in Row
      <3>1. binlog \in Seq(Change)
        BY DEF TabInv
      <3>2. binlog[i] \in Change
        BY <3>1
      <3>3. QED
        BY <3>2 DEF Change
    <2>2. Pending \subseteq Row
      BY <2>1 DEF Pending
    <2>3. QED
      BY <2>2 DEF TabInv, Known
  <1>1. CASE Quiet
    <2>1. Known' = Known /\ nextId' \in Nat \ {0} /\ \A row \in Known : row.id < nextId'
      <3>1. Known' = Known
        BY <1>1 DEF Quiet, Known, Pending
      <3>2. \A row \in Known : row.id \in Nat
        BY <1>0 DEF Row
      <3>3. nextId' = nextId \/ nextId' = nextId + 1
        BY <1>1 DEF Quiet
      <3>4. QED
        BY <1>0, <3>1, <3>2, <3>3
    <2>2. QED
      BY <1>1, <2>1 DEF Quiet, TabInv
  <1>2. ASSUME NEW w \in Writers, Inserts(w)
        PROVE  TabInv'
    <2> DEFINE new == NewRow(w)
    <2>1. new \in Row /\ new.id = nextId /\ new.who = req[w].who /\ new.whom = req[w].whom
      BY <1>0 DEF NewRow, Row, CtlInv, Request
    <2> HIDE DEF new
    <2>2. Commit("ins", new) /\ nextId' = nextId + 1 /\ EdgeOf(w) = {}
      BY <1>2 DEF Inserts, new
    <2>3. /\ follows' = follows \cup {new} /\ replica' = replica /\ binlog' \in Seq(Change)
          /\ Pending' \subseteq Pending \cup {new}
      BY <2>1, <2>2, CommitEffect DEF Changed
    <2>4. Known' \subseteq Known \cup {new}
      BY <2>3 DEF Known
    <2>5. \A row \in Known : row.id \in Nat /\ row.id # nextId
      BY <1>0 DEF Row
    <2>6. IsFiniteSet(follows')
      BY <1>0, <2>3, FS_AddElement
    <2>7. nextId' \in Nat \ {0} /\ \A row \in Known' : row.id < nextId' /\ row.id # NoCursor
      BY <1>0, <2>1, <2>2, <2>4, <2>5 DEF NoCursor
    <2>8. \A row, other \in Known' : row.id = other.id => row = other
      BY <1>0, <2>1, <2>4, <2>5
    <2>9. \A row, other \in follows' : row.who = other.who /\ row.whom = other.whom => row = other
      BY <1>0, <2>1, <2>2, <2>3 DEF EdgeOf, Edge
    <2>10. QED
      BY <1>0, <2>1, <2>3, <2>6, <2>7, <2>8, <2>9 DEF TabInv
  <1>3. ASSUME NEW w \in Writers, Removes(w)
        PROVE  TabInv'
    <2>1. PICK row \in EdgeOf(w) : Commit("del", row) /\ nextId' = nextId
      BY <1>3 DEF Removes
    <2>2. row \in follows /\ row \in Row
      BY <1>0 DEF EdgeOf, Edge
    <2>3. /\ follows' = follows \ {row} /\ replica' = replica /\ binlog' \in Seq(Change)
          /\ Pending' \subseteq Pending \cup {row}
      BY <2>1, <2>2, CommitEffect DEF Changed
    <2>4. Known' \subseteq Known
      BY <2>2, <2>3 DEF Known
    <2>5. IsFiniteSet(follows')
      BY <1>0, <2>3, FS_RemoveElement
    <2>6. QED
      BY <1>0, <2>1, <2>3, <2>4, <2>5 DEF TabInv
  <1>4. CASE Replicate
    <2> DEFINE c == binlog[1]
    <2>1. /\ c \in Change /\ c.row \in Pending /\ replica' = Changed(replica, c.op, c.row)
          /\ follows' = follows /\ nextId' = nextId /\ binlog' \in Seq(Change) /\ Pending' \subseteq Pending
      BY <1>4, ReplicateEffect
    <2> HIDE DEF c
    <2>2. c.row \in Row
      BY <2>1 DEF Change
    <2>3. IsFiniteSet(replica')
      BY <1>0, <2>1, FS_AddElement, FS_RemoveElement DEF Changed
    <2>4. Known' \subseteq Known /\ replica' \subseteq Row
      BY <1>0, <2>1, <2>2 DEF Known, Changed
    <2>5. QED
      BY <1>0, <2>1, <2>3, <2>4 DEF TabInv
  <1>5. QED
    BY <1>1, <1>2, <1>3, <1>4, TableSteps

\* The tables keep their keys.
LEMMA TabInvariance == Spec => [](CtlInv /\ TabInv)
  <1>1. Init => TabInv
    BY FS_EmptySet DEF Init, TabInv, Known, Pending
  <1>2. QED
    BY <1>1, TabStep, CtlInvariance, PTL DEF Spec

-----------------------------------------------------------------------------
(***************************************************************************)
(* Answers of Follow.                                                      *)
(***************************************************************************)

\* A request knows of its edge when the edge is in the table, or was put there
\* by the request itself.
WasInv ==
    \A w \in Writers :
        /\ pc[w] # "idle" /\ EdgeOf(w) # {} => was[w]
        /\ pc[w] \in Changing /\ req[w].op = "follow" => was[w]
        /\ answer[w] = "following" => was[w] \/ w \in misread

\* A row that appears is the row of a request that records it for everyone.
LEMMA WasAfterInsert ==
    ASSUME NEW w \in Writers, Insert(w), NEW v \in Writers, was[v] \in BOOLEAN,
           UNCHANGED req
    PROVE  /\ was[v] => was'[v]
           /\ EdgeOf(v)' # {} => EdgeOf(v) # {} \/ was'[v]
           /\ was'[w]
  <1>1. was' = [x \in Writers |->
                  was[x] \/ (req[x].who = req[w].who /\ req[x].whom = req[w].whom)]
    BY InsertEffect
  <1>2. was[v] => was'[v]
    BY <1>1
  <1>3. was'[w]
    BY <1>1
  <1>4. ASSUME EdgeOf(v)' # {}, EdgeOf(v) = {}
        PROVE  was'[v]
    <2>1. PICK row \in follows' : row.who = req[v].who /\ row.whom = req[v].whom
      BY <1>4 DEF EdgeOf, Edge
    <2>2. row \notin follows
      BY <1>4, <2>1 DEF EdgeOf, Edge
    <2>3. follows' \subseteq follows \cup {NewRow(w)}
      BY InsertEffect DEF Inserts, Quiet, Commit, Changed
    <2>4. row = NewRow(w)
      BY <2>1, <2>2, <2>3
    <2>5. row.who = req[w].who /\ row.whom = req[w].whom
      BY <2>4 DEF NewRow
    <2>6. QED
      BY <1>1, <2>1, <2>5
  <1>5. QED
    BY <1>2, <1>3, <1>4

\* Where was and the rows may change.
LEMMA EdgeSteps ==
    ASSUME NEW w \in Writers, Continues(w), CtlInv, NEW v \in Writers
    PROVE  /\ was[v] => was'[v]
           /\ EdgeOf(v)' # {} => EdgeOf(v) # {} \/ was'[v]
           /\ pc[w] = "create" /\ follows' # follows => was'[w]
           /\ pc[w] = "create" /\ pc'[w] = "markWho" => was'[w]
  <1>0. req' = req
    BY ContinueMoves DEF GoesOn, Returns
  <1>b. was[v] \in BOOLEAN /\ was[w] \in BOOLEAN
    BY DEF CtlInv
  <1>1. CASE Insert(w)
    BY <1>0, <1>1, <1>b, WasAfterInsert
  <1>2. CASE Remove(w) /\ was' = was /\ pc[w] = "delete"
    <2>1. follows' \subseteq follows
      BY <1>2, RemoveEffect DEF Removes, Quiet, Commit, Changed
    <2>2. QED
      BY <1>0, <1>2, <2>1 DEF EdgeOf, Edge
  <1>3. CASE ~Create(w) /\ ~Delete(w) /\ ~ReplyLost(w)
    <2>1. follows' = follows
      BY <1>3, NoStatement DEF WriterStep, Continues
    <2>2. was' = was /\ (pc[w] = "create" => pc'[w] = "idle")
      BY <1>3 DEF Continues, FindTarget, Exists, CountFollowing, Mark, MarkFails, Publish, PublishFails,
             StatementFails, Return, Goto, CtlInv
    <2>3. QED
      BY <1>0, <2>1, <2>2 DEF EdgeOf
  <1>4. QED
    BY <1>1, <1>2, <1>3 DEF Create, Delete, ReplyLost

\* Every step keeps it.
LEMMA WasStep == CtlInv /\ WasInv /\ [Next]_vars => WasInv'
  <1> SUFFICES ASSUME CtlInv, WasInv, [Next]_vars PROVE WasInv'
    OBVIOUS
  <1>0. /\ pc \in [Writers -> Steps] /\ req \in [Writers -> Request] /\ answer \in [Writers -> Answers]
        /\ was \in [Writers -> BOOLEAN] /\ \A w \in Writers : Fits(pc[w], req[w])
    BY DEF CtlInv
  <1>1. ASSUME NEW w \in Writers, Begins(w)
        PROVE  WasInv'
    <2>1. PICK op \in {"follow", "unfollow"}, u \in Users, t \in Users :
              /\ pc[w] = "idle" /\ pc' = [pc EXCEPT ![w] = IF op = "follow" THEN "find" ELSE "delete"]
              /\ req' = [req EXCEPT ![w] = [op |-> op, who |-> u, whom |-> t]]
              /\ answer' = [answer EXCEPT ![w] = "none"]
              /\ was' = [was EXCEPT ![w] = Edge(follows, u, t) # {}]
              /\ misread' = misread \ {w}
              /\ UNCHANGED <<faults, dbVars, marker, list, eventVars, raced, exposed>>
      BY <1>1, BeginSets, Zenon
    <2>f. follows' = follows
      BY <2>1 DEF dbVars
    <2> SUFFICES ASSUME NEW v \in Writers
                 PROVE  /\ pc'[v] # "idle" /\ EdgeOf(v)' # {} => was'[v]
                        /\ pc'[v] \in Changing /\ req'[v].op = "follow" => was'[v]
                        /\ answer'[v] = "following" => was'[v] \/ v \in misread'
      BY DEF WasInv
    <2>2. CASE v = w
      <3>1. pc'[v] \in {"find", "delete"} /\ answer'[v] = "none"
        BY <1>0, <2>1, <2>2
      <3>2. req'[v].who = u /\ req'[v].whom = t
        BY <1>0, <2>1, <2>2
      <3>3. EdgeOf(v)' = Edge(follows, u, t)
        BY <2>f, <3>2 DEF EdgeOf, Edge
      <3>4. EdgeOf(v)' # {} => was'[v]
        BY <1>0, <2>1, <2>2, <3>3
      <3>5. QED
        BY <3>1, <3>4 DEF Changing
    <2>3. CASE v # w
      <3>1. pc'[v] = pc[v] /\ req'[v] = req[v] /\ was'[v] = was[v] /\ answer'[v] = answer[v]
            /\ (v \in misread => v \in misread')
        BY <1>0, <2>1, <2>3
      <3>2. EdgeOf(v)' = EdgeOf(v)
        BY <2>f, <3>1 DEF EdgeOf, Edge
      <3>3. QED
        BY <3>1, <3>2 DEF WasInv
    <2>4. QED
      BY <2>2, <2>3
  <1>2. ASSUME NEW w \in Writers, Continues(w)
        PROVE  WasInv'
    <2>0. /\ req' = req /\ pc' \in [Writers -> Steps]
          /\ \A v \in Writers : v # w => pc'[v] = pc[v] /\ answer'[v] = answer[v]
      BY <1>0, <1>2, ContinueMoves DEF GoesOn, Returns, Steps
    <2>m. misread \subseteq misread'
      BY <1>2 DEF Continues, FindTarget, Exists, CountFollowing, Create, Delete, Mark, MarkFails, Publish,
             PublishFails, StatementFails, ReplyLost
    <2>p. pc[w] # "idle"
      BY <1>2 DEF Continues, FindTarget, Exists, CountFollowing, Create, Delete, Mark, MarkFails, Publish,
             PublishFails, StatementFails, ReplyLost
    <2> SUFFICES ASSUME NEW v \in Writers
                 PROVE  /\ pc'[v] # "idle" /\ EdgeOf(v)' # {} => was'[v]
                        /\ pc'[v] \in Changing /\ req'[v].op = "follow" => was'[v]
                        /\ answer'[v] = "following" => was'[v] \/ v \in misread'
      BY DEF WasInv
    <2>1. /\ was[v] => was'[v]
          /\ EdgeOf(v)' # {} => EdgeOf(v) # {} \/ was'[v]
          /\ pc[w] = "create" /\ follows' # follows => was'[w]
          /\ pc[w] = "create" /\ pc'[w] = "markWho" => was'[w]
      BY <1>2, EdgeSteps
    <2>2. /\ pc[v] # "idle" /\ EdgeOf(v) # {} => was[v]
          /\ pc[v] \in Changing /\ req[v].op = "follow" => was[v]
          /\ answer[v] = "following" => was[v] \/ v \in misread
      BY DEF WasInv
    <2>3. pc'[v] # "idle" /\ EdgeOf(v)' # {} => was'[v]
      BY <2>0, <2>1, <2>2, <2>p
    <2>4. CASE v # w
      BY <2>0, <2>1, <2>2, <2>3, <2>4, <2>m
    <2>5. CASE v = w
      <3>1. ASSUME NEW step \in Steps, GoesOn(w, step), <<pc[w], step>> \in Flow
            PROVE  /\ pc'[v] \in Changing /\ req'[v].op = "follow" => was'[v]
                   /\ answer'[v] = "following" => was'[v] \/ v \in misread'
        <4>1. pc'[w] = step /\ answer' = answer
          BY <1>0, <3>1 DEF GoesOn
        <4>2. step \in Changing => (pc[w] \in Changing \/ pc[w] = "create" \/ pc[w] = "delete")
                                    /\ (pc[w] = "create" => step = "markWho")
          BY <3>1 DEF Flow, Changing
        <4>3. pc[w] = "delete" => req[w].op = "unfollow"
          BY <1>0 DEF Fits
        <4>4. QED
          BY <2>0, <2>1, <2>2, <2>5, <2>m, <4>1, <4>2, <4>3
      <3>2. ASSUME Returns(w, "none")
            PROVE  pc'[v] \notin Changing /\ answer'[v] = "none"
        BY <1>0, <2>5, <3>2 DEF Returns, Changing
      <3>3. ASSUME Returns(w, "following"), pc[w] = "exists", Exists(w)
            PROVE  pc'[v] \notin Changing /\ (was'[v] \/ v \in misread')
        <4>1. pc'[v] \notin Changing
          BY <1>0, <2>5, <3>3 DEF Returns, Changing
        <4> DEFINE seen == Edge(ReadTable(FALSE), req[w].who, req[w].whom)
        <4>2. /\ IF seen # {} THEN Return(w, "following") ELSE Proceed(w, "count")
              /\ misread' = IF seen \subseteq follows THEN misread ELSE misread \cup {w}
          BY <3>3 DEF Exists
        <4>3. seen # {}
          BY <1>0, <3>3, <4>2 DEF Proceed, Goto, Returns
        <4>4. seen \subseteq follows => EdgeOf(w) # {}
          BY <4>3 DEF Edge, EdgeOf
        <4> HIDE DEF seen
        <4>5. QED
          BY <2>1, <2>2, <2>5, <2>p, <4>1, <4>2, <4>4
      <3>4. ASSUME Returns(w, "following"), pc[w] = "create", Create(w)
            PROVE  pc'[v] \notin Changing /\ was'[v]
        <4>1. pc'[v] \notin Changing
          BY <1>0, <2>5, <3>4 DEF Returns, Changing
        <4>2. was[w] \in BOOLEAN /\ Insert(w)
          BY <1>0, <3>4 DEF Create
        <4>3. was'[w]
          BY <2>0, <4>2, WasAfterInsert
        <4>4. QED
          BY <2>5, <4>1, <4>3
      <3>5. ASSUME Returns(w, "following"), pc[w] = "publish", req[w].op = "follow"
            PROVE  pc'[v] \notin Changing /\ was'[v]
        BY <1>0, <2>1, <2>2, <2>5, <3>5 DEF Returns, Changing
      <3>6. QED
        BY <1>2, <2>3, <3>1, <3>2, <3>3, <3>4, <3>5, ContinueMoves
    <2>6. QED
      BY <2>4, <2>5
  <1>3. CASE UNCHANGED <<pc, req, answer, was, misread, follows>>
    BY <1>3 DEF WasInv, EdgeOf, Edge
  <1>4. QED
    BY <1>1, <1>2, <1>3, WriterSteps, OtherSteps

\* FollowTakesEffect (follow_service.go:121-203): an answer of "following" is
\* about an edge that was in the table at some moment of the request, unless the
\* replica showed Exists a row that had been removed.
THEOREM FollowIsTrue == Spec => []FollowTakesEffect
  <1>1. Init => WasInv
    BY DEF Init, WasInv, EdgeOf, Edge, Changing
  <1>2. WasInv => FollowTakesEffect
    BY DEF WasInv, FollowTakesEffect
  <1>3. QED
    BY <1>1, <1>2, WasStep, CtlInvariance, PTL DEF Spec

-----------------------------------------------------------------------------
(***************************************************************************)
(* Events of an edge against its row.                                      *)
(***************************************************************************)

Counts == [Users -> [Users -> Int]]

EventInv == net \in Counts /\ unsent \in Counts /\ EventsMatchRows

\* Sets that differ in h only.
LEMMA CardMove ==
    ASSUME NEW S, IsFiniteSet(S), NEW T, NEW h, T \ {h} = S \ {h}
    PROVE  /\ IsFiniteSet(T) /\ Cardinality(S) \in Nat /\ Cardinality(T) \in Nat
           /\ (h \in T <=> h \in S) => Cardinality(T) = Cardinality(S)
           /\ h \in T /\ h \notin S => Cardinality(T) = Cardinality(S) + 1
           /\ h \in S /\ h \notin T => Cardinality(T) = Cardinality(S) - 1
  <1> DEFINE U == S \ {h}
  <1>1. IsFiniteSet(U) /\ Cardinality(S) \in Nat /\ Cardinality(U) \in Nat
    BY FS_RemoveElement, FS_CardinalityType
  <1>2. S = U \/ (S = U \cup {h} /\ h \in S)
    OBVIOUS
  <1>3. T = U \/ (T = U \cup {h} /\ h \in T)
    OBVIOUS
  <1>4. h \notin U
    OBVIOUS
  <1> HIDE DEF U
  <1>5. IsFiniteSet(U \cup {h}) /\ Cardinality(U \cup {h}) = Cardinality(U) + 1
    BY <1>1, <1>4, FS_AddElement
  <1>6. IsFiniteSet(T)
    BY <1>1, <1>3, <1>5
  <1>7. Cardinality(T) = IF h \in T THEN Cardinality(U) + 1 ELSE Cardinality(U)
    BY <1>3, <1>4, <1>5
  <1>8. Cardinality(S) = IF h \in S THEN Cardinality(U) + 1 ELSE Cardinality(U)
    BY <1>2, <1>4, <1>5
  <1>9. QED
    BY <1>1, <1>6, <1>7, <1>8

\* Request w is op of u and t; and w goes to step with the request it has.
Mine(w, op, u, t) == req[w] = [op |-> op, who |-> u, whom |-> t]
MovesTo(w, step) == pc' = [pc EXCEPT ![w] = step] /\ req' = req

\* Requests whose change is not published, when w goes from one step to another.
LEMMA InFlightMove ==
    ASSUME CtlInv, NEW w \in Writers, NEW step, MovesTo(w, step), NEW op, NEW u, NEW t
    PROVE  LET S == InFlight(op, u, t)
               T == InFlight(op, u, t)'
               mine == Mine(w, op, u, t)
           IN  /\ Cardinality(S) \in Nat /\ Cardinality(T) \in Nat
               /\ ~mine \/ (pc[w] \in Changing <=> step \in Changing) => Cardinality(T) = Cardinality(S)
               /\ mine /\ pc[w] \notin Changing /\ step \in Changing => Cardinality(T) = Cardinality(S) + 1
               /\ mine /\ pc[w] \in Changing /\ step \notin Changing => Cardinality(T) = Cardinality(S) - 1
  <1> DEFINE S == InFlight(op, u, t)
             T == InFlight(op, u, t)'
             mine == Mine(w, op, u, t)
  <1>1. req' = req /\ pc'[w] = step /\ \A v \in Writers : v # w => pc'[v] = pc[v]
    BY DEF CtlInv, MovesTo
  <1>2. S \ {w} = T \ {w}
    BY <1>1 DEF InFlight
  <1>3. (w \in S <=> mine /\ pc[w] \in Changing) /\ (w \in T <=> mine /\ step \in Changing)
    BY <1>1 DEF InFlight, Changing, Mine
  <1>4. IsFiniteSet(S)
    BY FollowConstants, FS_Subset DEF InFlight
  <1> HIDE DEF S, T, mine
  <1>5. /\ Cardinality(S) \in Nat /\ Cardinality(T) \in Nat
        /\ (w \in T <=> w \in S) => Cardinality(T) = Cardinality(S)
        /\ w \in T /\ w \notin S => Cardinality(T) = Cardinality(S) + 1
        /\ w \in S /\ w \notin T => Cardinality(T) = Cardinality(S) - 1
    BY <1>2, <1>4, CardMove
  <1>6. QED
    BY <1>3, <1>5 DEF S, T, mine

\* The key allows one row of an edge.
LEMMA EdgeCard ==
    ASSUME TabInv, NEW u, NEW t
    PROVE  Cardinality(Edge(follows, u, t)) = IF Edge(follows, u, t) = {} THEN 0 ELSE 1
  <1>1. CASE Edge(follows, u, t) = {}
    BY <1>1, FS_EmptySet
  <1>2. CASE Edge(follows, u, t) # {}
    <2>1. PICK row : row \in Edge(follows, u, t)
      BY <1>2
    <2>2. Edge(follows, u, t) = {row}
      BY <2>1 DEF Edge, TabInv
    <2>3. QED
      BY <1>2, <2>2, FS_Singleton
  <1>3. QED
    BY <1>1, <1>2

\* The row of the edge of w appears, or disappears; no other edge is touched.
LEMMA EdgeMoves ==
    ASSUME CtlInv, TabInv, TabInv', NEW w \in Writers, Inserts(w) \/ Removes(w), NEW u, NEW t
    PROVE  LET mine == req[w].who = u /\ req[w].whom = t
               old == Cardinality(Edge(follows, u, t))
               new == Cardinality(Edge(follows', u, t))
           IN  /\ ~mine => new = old
               /\ mine /\ Inserts(w) => old = 0 /\ new = 1
               /\ mine /\ Removes(w) => old = 1 /\ new = 0
  <1> DEFINE mine == req[w].who = u /\ req[w].whom = t
  <1>0. /\ Cardinality(Edge(follows, u, t)) = IF Edge(follows, u, t) = {} THEN 0 ELSE 1
        /\ Cardinality(Edge(follows', u, t)) = IF Edge(follows', u, t) = {} THEN 0 ELSE 1
    <2>1. Cardinality(Edge(follows, u, t)) = IF Edge(follows, u, t) = {} THEN 0 ELSE 1
      BY EdgeCard
    <2>2. (Cardinality(Edge(follows, u, t)) = IF Edge(follows, u, t) = {} THEN 0 ELSE 1)'
      BY EdgeCard, PTL
    <2>3. QED
      BY <2>1, <2>2 DEF Edge
  <1>1. ASSUME Inserts(w)
        PROVE  /\ mine => Edge(follows, u, t) = {} /\ Edge(follows', u, t) # {}
               /\ ~mine => Edge(follows', u, t) = Edge(follows, u, t)
    <2>1. follows' = follows \cup {NewRow(w)} /\ EdgeOf(w) = {}
      BY <1>1 DEF Inserts, Commit, Changed
    <2>2. NewRow(w).who = req[w].who /\ NewRow(w).whom = req[w].whom
      BY DEF NewRow
    <2>3. QED
      BY <2>1, <2>2 DEF EdgeOf, Edge
  <1>2. ASSUME Removes(w)
        PROVE  /\ mine => Edge(follows, u, t) # {} /\ Edge(follows', u, t) = {}
               /\ ~mine => Edge(follows', u, t) = Edge(follows, u, t)
    <2>1. PICK row \in EdgeOf(w) : follows' = follows \ {row}
      BY <1>2 DEF Removes, Commit, Changed
    <2>2. row \in follows /\ row.who = req[w].who /\ row.whom = req[w].whom
      BY DEF EdgeOf, Edge
    <2>3. \A other \in follows : row.who = other.who /\ row.whom = other.whom => row = other
      BY <2>2 DEF TabInv
    <2>4. QED
      BY <2>1, <2>2, <2>3 DEF Edge
  <1>3. QED
    BY <1>0, <1>1, <1>2

\* What a step of a request does to its event and to its row.
LEMMA EventSteps ==
    ASSUME CtlInv, NEW w \in Writers, Continues(w)
    PROVE  \E step \in Steps :
              /\ pc' = [pc EXCEPT ![w] = step] /\ req' = req
              /\ \/ /\ UNCHANGED <<follows, net, unsent>>
                    /\ pc[w] \in Changing <=> step \in Changing
                 \/ /\ Inserts(w) /\ req[w].op = "follow"
                    /\ pc[w] \notin Changing /\ step \in Changing /\ UNCHANGED <<net, unsent>>
                 \/ /\ Removes(w) /\ req[w].op = "unfollow"
                    /\ pc[w] \notin Changing /\ step \in Changing /\ UNCHANGED <<net, unsent>>
                 \/ /\ pc[w] \in Changing /\ step \notin Changing /\ UNCHANGED follows
                    /\ \/ net' = Add(net, w, Sign(w)) /\ UNCHANGED unsent
                       \/ unsent' = Add(unsent, w, Sign(w)) /\ UNCHANGED net
                 \/ /\ Inserts(w) /\ req[w].op = "follow"
                    /\ pc[w] \notin Changing /\ step \notin Changing
                    /\ unsent' = Add(unsent, w, Sign(w)) /\ UNCHANGED net
                 \/ /\ Removes(w) /\ req[w].op = "unfollow"
                    /\ pc[w] \notin Changing /\ step \notin Changing
                    /\ unsent' = Add(unsent, w, Sign(w)) /\ UNCHANGED net
  <1>0. (pc[w] = "create" => req[w].op = "follow") /\ (pc[w] = "delete" => req[w].op = "unfollow")
    BY DEF CtlInv, Fits
  <1>s. "idle" \in Steps \ Changing /\ "markWho" \in Steps \cap Changing /\ "markWhom" \in Steps \cap Changing
        /\ "publish" \in Steps \cap Changing /\ "exists" \in Steps \ Changing /\ "count" \in Steps \ Changing
        /\ "create" \in Steps \ Changing /\ "find" \notin Changing /\ "delete" \notin Changing
    BY DEF Steps, Changing
  <1>1. CASE FindTarget(w)
    BY <1>1, <1>s DEF FindTarget, Return, Proceed, Goto, dbVars, eventVars
  <1>2. CASE Exists(w)
    BY <1>2, <1>s DEF Exists, Return, Proceed, Goto, dbVars, eventVars
  <1>3. CASE CountFollowing(w)
    BY <1>3, <1>s DEF CountFollowing, Return, Proceed, Goto, dbVars, eventVars
  <1>4. CASE Create(w)
    <2>1. pc[w] = "create" /\ Insert(w) /\ UNCHANGED <<net, unsent>>
      BY <1>4 DEF Create, eventVars
    <2>2. CASE EdgeOf(w) = {}
      BY <1>0, <1>4, <1>s, <2>1, <2>2, InsertEffect DEF Create, Proceed, Goto
    <2>3. CASE EdgeOf(w) # {}
      <3>1. follows' = follows
        BY <2>1, <2>3, InsertEffect
      <3>2. QED
        BY <1>4, <1>s, <2>1, <3>1 DEF Create, Return, Goto
    <2>4. QED
      BY <2>2, <2>3
  <1>5. CASE Delete(w)
    <2>1. pc[w] = "delete" /\ Remove(w) /\ UNCHANGED <<net, unsent>>
      BY <1>5 DEF Delete, eventVars
    <2>2. CASE EdgeOf(w) # {}
      BY <1>0, <1>5, <1>s, <2>1, <2>2, RemoveEffect DEF Delete, Proceed, Goto
    <2>3. CASE EdgeOf(w) = {}
      <3>1. follows' = follows
        BY <2>1, <2>3, RemoveEffect
      <3>2. QED
        BY <1>5, <1>s, <2>1, <3>1 DEF Delete, Return, Goto
    <2>4. QED
      BY <2>2, <2>3
  <1>6. CASE Mark(w)
    BY <1>6, <1>s DEF Mark, Goto, dbVars, eventVars
  <1>7. CASE MarkFails(w)
    BY <1>7, <1>s DEF MarkFails, Goto, dbVars, eventVars
  <1>8. CASE Publish(w)
    BY <1>8, <1>s DEF Publish, Published, Return, Goto, dbVars
  <1>9. CASE PublishFails(w)
    BY <1>9, <1>s DEF PublishFails, Published, Return, Goto, dbVars
  <1>10. CASE StatementFails(w)
    BY <1>10, <1>s DEF StatementFails, Return, Goto, dbVars, eventVars
  <1>11. CASE ReplyLost(w)
    <2>0. /\ pc' = [pc EXCEPT ![w] = "idle"] /\ req' = req /\ net' = net
          /\ unsent' = IF follows' # follows THEN Add(unsent, w, Sign(w)) ELSE unsent
      BY <1>11 DEF ReplyLost, Return, Goto
    <2>1. CASE pc[w] = "create" /\ Insert(w)
      <3>1. CASE EdgeOf(w) = {}
        BY <1>0, <1>s, <2>0, <2>1, <3>1, InsertEffect
      <3>2. CASE EdgeOf(w) # {}
        <4>1. follows' = follows
          BY <2>1, <3>2, InsertEffect
        <4>2. QED
          BY <1>s, <2>0, <2>1, <4>1
      <3>3. QED
        BY <3>1, <3>2
    <2>2. CASE pc[w] = "delete" /\ Remove(w)
      <3>1. CASE EdgeOf(w) # {}
        BY <1>0, <1>s, <2>0, <2>2, <3>1, RemoveEffect
      <3>2. CASE EdgeOf(w) = {}
        <4>1. follows' = follows
          BY <2>2, <3>2, RemoveEffect
        <4>2. QED
          BY <1>s, <2>0, <2>2, <4>1
      <3>3. QED
        BY <3>1, <3>2
    <2>3. QED
      BY <1>11, <2>1, <2>2 DEF ReplyLost
  <1>12. QED
    BY <1>1, <1>2, <1>3, <1>4, <1>5, <1>6, <1>7, <1>8, <1>9, <1>10, <1>11 DEF Continues

\* What counting an event of w does to the counts.
LEMMA AddEffect ==
    ASSUME CtlInv, NEW w \in Writers, NEW count \in Counts
    PROVE  /\ Add(count, w, Sign(w)) \in Counts
           /\ \A u, t \in Users :
                 Add(count, w, Sign(w))[u][t] =
                    IF req[w].who = u /\ req[w].whom = t
                      THEN count[u][t] + (IF req[w].op = "follow" THEN 1 ELSE -1)
                      ELSE count[u][t]
  <1> DEFINE n == Sign(w)
             who == req[w].who
             whom == req[w].whom
  <1>1. who \in Users /\ whom \in Users
    BY DEF CtlInv, Request
  <1>2. n \in Int /\ n = IF req[w].op = "follow" THEN 1 ELSE -1
    BY DEF Sign
  <1> HIDE DEF n, who, whom
  <1>3. count[who] \in [Users -> Int] /\ \A u, t \in Users : count[u][t] \in Int
    BY <1>1 DEF Counts
  <1> DEFINE line == [count[who] EXCEPT ![whom] = @ + n]
  <1>4. /\ line \in [Users -> Int]
        /\ \A t \in Users : line[t] = IF t = whom THEN count[who][whom] + n ELSE count[who][t]
    BY <1>1, <1>2, <1>3
  <1>5. Add(count, w, Sign(w)) = [count EXCEPT ![who] = line]
    BY DEF Add, who, whom, n
  <1> HIDE DEF line
  <1>6. [count EXCEPT ![who] = line] \in Counts
        /\ \A u \in Users : [count EXCEPT ![who] = line][u] = IF u = who THEN line ELSE count[u]
    BY <1>1, <1>4 DEF Counts
  <1>7. QED
    BY <1>1, <1>2, <1>4, <1>5, <1>6 DEF who, whom

\* Every step keeps events and rows in agreement.
LEMMA EventStep == CtlInv /\ TabInv /\ TabInv' /\ EventInv /\ [Next]_vars => EventInv'
  <1> SUFFICES ASSUME CtlInv, TabInv, TabInv', EventInv, [Next]_vars PROVE EventInv'
    OBVIOUS
  <1>0. net \in Counts /\ unsent \in Counts
    BY DEF EventInv
  <1>1. ASSUME NEW w \in Writers, Begins(w)
        PROVE  EventInv'
    <2>1. /\ pc[w] = "idle" /\ pc'[w] \in {"find", "delete"}
          /\ \A v \in Writers : v # w => pc'[v] = pc[v] /\ req'[v] = req[v]
          /\ UNCHANGED <<dbVars, eventVars>>
      BY <1>1, BeginSets DEF CtlInv
    <2>2. \A op, u, t : InFlight(op, u, t)' = InFlight(op, u, t)
      BY <2>1 DEF InFlight
    <2>3. follows' = follows /\ net' = net /\ unsent' = unsent
      BY <2>1 DEF dbVars, eventVars
    <2>4. QED
      BY <2>2, <2>3 DEF EventInv, EventsMatchRows
  <1>2. ASSUME NEW w \in Writers, Continues(w)
        PROVE  EventInv'
    <2>1. PICK step \in Steps :
              /\ pc' = [pc EXCEPT ![w] = step] /\ req' = req
              /\ \/ /\ UNCHANGED <<follows, net, unsent>>
                    /\ pc[w] \in Changing <=> step \in Changing
                 \/ /\ Inserts(w) /\ req[w].op = "follow"
                    /\ pc[w] \notin Changing /\ step \in Changing /\ UNCHANGED <<net, unsent>>
                 \/ /\ Removes(w) /\ req[w].op = "unfollow"
                    /\ pc[w] \notin Changing /\ step \in Changing /\ UNCHANGED <<net, unsent>>
                 \/ /\ pc[w] \in Changing /\ step \notin Changing /\ UNCHANGED follows
                    /\ \/ net' = Add(net, w, Sign(w)) /\ UNCHANGED unsent
                       \/ unsent' = Add(unsent, w, Sign(w)) /\ UNCHANGED net
                 \/ /\ Inserts(w) /\ req[w].op = "follow"
                    /\ pc[w] \notin Changing /\ step \notin Changing
                    /\ unsent' = Add(unsent, w, Sign(w)) /\ UNCHANGED net
                 \/ /\ Removes(w) /\ req[w].op = "unfollow"
                    /\ pc[w] \notin Changing /\ step \notin Changing
                    /\ unsent' = Add(unsent, w, Sign(w)) /\ UNCHANGED net
      BY <1>2, EventSteps
    <2>2. /\ Add(net, w, Sign(w)) \in Counts /\ Add(unsent, w, Sign(w)) \in Counts
      BY <1>0, AddEffect
    <2>3. net' \in Counts /\ unsent' \in Counts
      BY <1>0, <2>1, <2>2
    <2>4. ASSUME NEW u \in Users, NEW t \in Users
          PROVE  (net[u][t] + unsent[u][t] + Cardinality(InFlight("follow", u, t))
                    - Cardinality(InFlight("unfollow", u, t)) = Cardinality(Edge(follows, u, t)))'
      <3> DEFINE n == net[u][t]
                 m == unsent[u][t]
                 f == Cardinality(InFlight("follow", u, t))
                 g == Cardinality(InFlight("unfollow", u, t))
                 e == Cardinality(Edge(follows, u, t))
                 mine == req[w].who = u /\ req[w].whom = t
                 d == IF req[w].op = "follow" THEN 1 ELSE -1
      <3>r. req[w] \in Request
        BY DEF CtlInv
      <3>o. req[w].op = "follow" \/ req[w].op = "unfollow"
        BY <3>r DEF Request
      <3>m. \A op : req[w] = [op |-> op, who |-> u, whom |-> t] <=> mine /\ req[w].op = op
        BY <3>r DEF Request
      <3>n. n \in Int /\ m \in Int
        BY <1>0 DEF Counts
      <3>c. /\ Add(net, w, Sign(w))[u][t] = (IF mine THEN n + d ELSE n)
            /\ Add(unsent, w, Sign(w))[u][t] = (IF mine THEN m + d ELSE m)
        BY <1>0, AddEffect
      <3>e. n + m + f - g = e
        BY DEF EventInv, EventsMatchRows
      <3>f. /\ f \in Nat /\ f' \in Nat
            /\ ~(mine /\ req[w].op = "follow") \/ (pc[w] \in Changing <=> step \in Changing) => f' = f
            /\ mine /\ req[w].op = "follow" /\ pc[w] \notin Changing /\ step \in Changing => f' = f + 1
            /\ mine /\ req[w].op = "follow" /\ pc[w] \in Changing /\ step \notin Changing => f' = f - 1
        <4> DEFINE is == Mine(w, "follow", u, t)
        <4>1. is <=> mine /\ req[w].op = "follow"
          BY <3>m DEF Mine
        <4>2. MovesTo(w, step)
          BY <2>1 DEF MovesTo
        <4>3. /\ f \in Nat /\ f' \in Nat
              /\ ~is \/ (pc[w] \in Changing <=> step \in Changing) => f' = f
              /\ is /\ pc[w] \notin Changing /\ step \in Changing => f' = f + 1
              /\ is /\ pc[w] \in Changing /\ step \notin Changing => f' = f - 1
          BY <4>2, InFlightMove
        <4> HIDE DEF is, f, mine
        <4>4. QED
          BY <4>1, <4>3
      <3>g. /\ g \in Nat /\ g' \in Nat
            /\ ~(mine /\ req[w].op = "unfollow") \/ (pc[w] \in Changing <=> step \in Changing) => g' = g
            /\ mine /\ req[w].op = "unfollow" /\ pc[w] \notin Changing /\ step \in Changing => g' = g + 1
            /\ mine /\ req[w].op = "unfollow" /\ pc[w] \in Changing /\ step \notin Changing => g' = g - 1
        <4> DEFINE is == Mine(w, "unfollow", u, t)
        <4>1. is <=> mine /\ req[w].op = "unfollow"
          BY <3>m DEF Mine
        <4>2. MovesTo(w, step)
          BY <2>1 DEF MovesTo
        <4>3. /\ g \in Nat /\ g' \in Nat
              /\ ~is \/ (pc[w] \in Changing <=> step \in Changing) => g' = g
              /\ is /\ pc[w] \notin Changing /\ step \in Changing => g' = g + 1
              /\ is /\ pc[w] \in Changing /\ step \notin Changing => g' = g - 1
          BY <4>2, InFlightMove
        <4> HIDE DEF is, g, mine
        <4>4. QED
          BY <4>1, <4>3
      <3>k. e \in Int
        BY EdgeCard
      <3>i. /\ Inserts(w) => IF mine THEN e = 0 /\ e' = 1 ELSE e' = e
            /\ Removes(w) => IF mine THEN e = 1 /\ e' = 0 ELSE e' = e
        BY EdgeMoves
      <3>u. (net' = net => n' = n) /\ (unsent' = unsent => m' = m) /\ (follows' = follows => e' = e)
            /\ (net' = Add(net, w, Sign(w)) => n' = IF mine THEN n + d ELSE n)
            /\ (unsent' = Add(unsent, w, Sign(w)) => m' = IF mine THEN m + d ELSE m)
        BY <3>c
      <3> SUFFICES n' + m' + f' - g' = e'
        OBVIOUS
      <3> HIDE DEF n, m, f, g, e, mine, d
      <3>d. d = IF req[w].op = "follow" THEN 1 ELSE -1
        BY DEF d
      <3>1. CASE ~mine
        BY <2>1, <3>1, <3>e, <3>f, <3>g, <3>i, <3>u
      <3>2. CASE mine /\ req[w].op = "follow"
        BY <2>1, <3>2, <3>d, <3>e, <3>f, <3>g, <3>i, <3>k, <3>n, <3>u
      <3>3. CASE mine /\ req[w].op = "unfollow"
        BY <2>1, <3>3, <3>d, <3>e, <3>f, <3>g, <3>i, <3>k, <3>n, <3>u
      <3>4. QED
        BY <3>1, <3>2, <3>3, <3>o
    <2>5. QED
      BY <2>3, <2>4 DEF EventInv, EventsMatchRows
  <1>3. CASE UNCHANGED <<pc, req, net, unsent, follows>>
    BY <1>3 DEF EventInv, EventsMatchRows, InFlight
  <1>4. QED
    BY <1>1, <1>2, <1>3, WriterSteps, OtherSteps

\* EventsMatchRows (follow_service.go:157-159, "no double counting"): follow events
\* minus unfollow events, sent, about to be sent or lost with an error, are 1 while
\* the row exists and 0 while it does not.
THEOREM EventsAreExact == Spec => []EventsMatchRows
  <1>1. Init => EventInv
    <2> SUFFICES ASSUME Init PROVE EventInv
      OBVIOUS
    <2>1. net \in Counts /\ unsent \in Counts
      BY DEF Init, Counts
    <2>2. ASSUME NEW u \in Users, NEW t \in Users
          PROVE  net[u][t] + unsent[u][t] + Cardinality(InFlight("follow", u, t))
                   - Cardinality(InFlight("unfollow", u, t)) = Cardinality(Edge(follows, u, t))
      <3>1. InFlight("follow", u, t) = {} /\ InFlight("unfollow", u, t) = {} /\ Edge(follows, u, t) = {}
        BY DEF Init, InFlight, Edge
      <3>2. net[u][t] = 0 /\ unsent[u][t] = 0
        BY DEF Init
      <3>3. QED
        BY <3>1, <3>2, FS_EmptySet
    <2>3. QED
      BY <2>1, <2>2 DEF EventInv, EventsMatchRows
  <1>2. EventInv => EventsMatchRows
    BY DEF EventInv
  <1>3. QED
    BY <1>1, <1>2, EventStep, TabInvariance, PTL DEF Spec

-----------------------------------------------------------------------------
(***************************************************************************)
(* The replica, and the cap that is checked against it.                    *)
(***************************************************************************)

\* Change i is the last one of its row.
LastOf(i) == \A j \in 1..Len(binlog) : j > i => binlog[j].row # binlog[i].row

\* Rows that are not pending are the same on both sides, and the last pending
\* change of any other says whether the master has it.
ReplInv ==
    Split =>
       /\ \A row \in Known : row \notin Pending => (row \in replica <=> row \in follows)
       /\ \A i \in 1..Len(binlog) :
             LastOf(i) => (binlog[i].op = "ins" <=> binlog[i].row \in follows)

\* A commit keeps it.
LEMMA ReplCommit ==
    ASSUME TabInv, ReplInv, NEW op \in {"ins", "del"}, NEW row \in Row, Commit(op, row)
    PROVE  ReplInv'
  <1> SUFFICES ASSUME Split
               PROVE  /\ \A r \in Known' : r \notin Pending' => (r \in replica' <=> r \in follows')
                      /\ \A i \in 1..Len(binlog') :
                            LastOf(i)' => (binlog'[i].op = "ins" <=> binlog'[i].row \in follows')
    BY DEF ReplInv
  <1>1. /\ follows' = Changed(follows, op, row) /\ replica' = replica
        /\ Len(binlog') = Len(binlog) + 1 /\ Pending' = Pending \cup {row}
        /\ \A i \in 1..Len(binlog) : binlog'[i] = binlog[i]
        /\ binlog'[Len(binlog) + 1].op = op /\ binlog'[Len(binlog) + 1].row = row
    BY CommitEffect
  <1>2. /\ \A r \in Known : r \notin Pending => (r \in replica <=> r \in follows)
        /\ \A i \in 1..Len(binlog) :
              LastOf(i) => (binlog[i].op = "ins" <=> binlog[i].row \in follows)
    BY DEF ReplInv
  <1>3. (op = "ins" <=> row \in follows') /\ \A r : r # row => (r \in follows' <=> r \in follows)
    BY <1>1 DEF Changed
  <1>4. \A r \in Known' : r \notin Pending' => (r \in replica' <=> r \in follows')
    BY <1>1, <1>2, <1>3 DEF Known
  <1>5. Len(binlog) \in Nat
    BY DEF TabInv
  <1>6. ASSUME NEW i \in 1..Len(binlog'), LastOf(i)'
        PROVE  binlog'[i].op = "ins" <=> binlog'[i].row \in follows'
    <2>1. CASE i = Len(binlog) + 1
      BY <1>1, <1>3, <2>1
    <2>2. CASE i # Len(binlog) + 1
      <3>1. i \in 1..Len(binlog) /\ Len(binlog) + 1 > i /\ Len(binlog) + 1 \in 1..Len(binlog')
            /\ \A j \in 1..Len(binlog) : j \in 1..Len(binlog')
        BY <1>1, <1>5, <2>2
      <3>2. binlog'[i] = binlog[i]
        BY <1>1, <3>1
      <3>3. \A j \in 1..Len(binlog') : j > i => binlog'[j].row # binlog'[i].row
        BY <1>6 DEF LastOf
      <3>4. binlog[i].row # row
        BY <1>1, <3>1, <3>2, <3>3
      <3>5. LastOf(i)
        BY <1>1, <3>1, <3>2, <3>3 DEF LastOf
      <3>6. QED
        BY <1>2, <1>3, <3>1, <3>2, <3>4, <3>5
    <2>3. QED
      BY <2>1, <2>2
  <1>7. QED
    BY <1>4, <1>6

\* So does the replica when it applies a change.
LEMMA ReplApply ==
    ASSUME TabInv, ReplInv, Replicate
    PROVE  ReplInv'
  <1> SUFFICES ASSUME Split
               PROVE  /\ \A r \in Known' : r \notin Pending' => (r \in replica' <=> r \in follows')
                      /\ \A i \in 1..Len(binlog') :
                            LastOf(i)' => (binlog'[i].op = "ins" <=> binlog'[i].row \in follows')
    BY DEF ReplInv
  <1> DEFINE c == binlog[1]
  <1>1. /\ c \in Change /\ Len(binlog) > 0 /\ c.row \in Pending
        /\ replica' = Changed(replica, c.op, c.row)
        /\ follows' = follows
        /\ binlog' \in Seq(Change) /\ Len(binlog') = Len(binlog) - 1
        /\ \A i \in 1..Len(binlog') : binlog'[i] = binlog[i + 1] /\ i + 1 \in 1..Len(binlog)
        /\ \A i \in 1..Len(binlog) : i = 1 \/ (i - 1 \in 1..Len(binlog') /\ binlog'[i - 1] = binlog[i])
        /\ Pending \subseteq Pending' \cup {c.row} /\ Pending' \subseteq Pending
    BY ReplicateEffect
  <1>2. /\ \A r \in Known : r \notin Pending => (r \in replica <=> r \in follows)
        /\ \A i \in 1..Len(binlog) :
              LastOf(i) => (binlog[i].op = "ins" <=> binlog[i].row \in follows)
    BY DEF ReplInv
  <1>3. Len(binlog) \in Nat /\ 1 \in 1..Len(binlog)
    BY <1>1 DEF TabInv
  <1>4. c.row \notin Pending' => (c.op = "ins" <=> c.row \in follows)
    <2>1. ASSUME c.row \notin Pending' PROVE LastOf(1)
      <3>1. ASSUME NEW j \in 1..Len(binlog), j > 1
            PROVE  binlog[j].row # binlog[1].row
        <4>1. j - 1 \in 1..Len(binlog') /\ binlog'[j - 1] = binlog[j]
          BY <1>1, <3>1
        <4>2. binlog'[j - 1].row \in Pending'
          BY <1>1, <4>1 DEF Pending
        <4>3. QED
          BY <2>1, <4>1, <4>2
      <3>2. QED
        BY <3>1 DEF LastOf
    <2>2. QED
      BY <1>2, <1>3, <2>1
  <1>5. c.op = "ins" \/ c.op = "del"
    BY <1>1 DEF Change
  <1> HIDE DEF c
  <1>6. Known' \subseteq Known
    BY <1>1, <1>5 DEF Known, Changed
  <1>7. ASSUME NEW r \in Known', r \notin Pending'
        PROVE  r \in replica' <=> r \in follows'
    <2>1. CASE r = c.row
      BY <1>1, <1>4, <1>5, <1>7, <2>1 DEF Changed
    <2>2. CASE r # c.row
      <3>1. r \in Known /\ r \notin Pending
        BY <1>1, <1>6, <1>7, <2>2
      <3>2. r \in replica' <=> r \in replica
        BY <1>1, <2>2 DEF Changed
      <3>3. QED
        BY <1>1, <1>2, <3>1, <3>2
    <2>3. QED
      BY <2>1, <2>2
  <1>8. ASSUME NEW i \in 1..Len(binlog'), LastOf(i)'
        PROVE  binlog'[i].op = "ins" <=> binlog'[i].row \in follows'
    <2>1. binlog'[i] = binlog[i + 1] /\ i + 1 \in 1..Len(binlog)
      BY <1>1
    <2>2. ASSUME NEW j \in 1..Len(binlog), j > i + 1
          PROVE  binlog[j].row # binlog[i + 1].row
      <3>1. j # 1 /\ j - 1 > i
        BY <1>3, <2>2
      <3>2. j - 1 \in 1..Len(binlog') /\ binlog'[j - 1] = binlog[j]
        BY <1>1, <3>1
      <3>3. \A k \in 1..Len(binlog') : k > i => binlog'[k].row # binlog'[i].row
        BY <1>8 DEF LastOf
      <3>4. QED
        BY <2>1, <3>1, <3>2, <3>3
    <2>3. LastOf(i + 1)
      BY <2>2 DEF LastOf
    <2>4. QED
      BY <1>1, <1>2, <2>1, <2>3
  <1>9. QED
    BY <1>7, <1>8

\* Every step keeps it.
LEMMA ReplStep == CtlInv /\ TabInv /\ ReplInv /\ [Next]_vars => ReplInv'
  <1> SUFFICES ASSUME CtlInv, TabInv, ReplInv, [Next]_vars PROVE ReplInv'
    OBVIOUS
  <1>1. CASE Quiet
    BY <1>1 DEF Quiet, ReplInv, Known, Pending, LastOf
  <1>2. ASSUME NEW w \in Writers, Inserts(w)
        PROVE  ReplInv'
    <2>1. NewRow(w) \in Row
      BY DEF NewRow, Row, CtlInv, TabInv, Request
    <2>2. QED
      BY <1>2, <2>1, ReplCommit DEF Inserts
  <1>3. ASSUME NEW w \in Writers, Removes(w)
        PROVE  ReplInv'
    <2>1. PICK row \in EdgeOf(w) : Commit("del", row)
      BY <1>3 DEF Removes
    <2>2. row \in Row
      BY DEF EdgeOf, Edge, TabInv
    <2>3. QED
      BY <2>1, <2>2, ReplCommit
  <1>4. CASE Replicate
    BY <1>4, ReplApply
  <1>5. QED
    BY <1>1, <1>2, <1>3, <1>4, TableSteps

\* Master and replica differ in pending rows only.
LEMMA ReplInvariance == Spec => [](CtlInv /\ TabInv /\ ReplInv)
  <1>1. Init => ReplInv
    BY DEF Init, ReplInv, Known, Pending
  <1>2. QED
    BY <1>1, ReplStep, TabInvariance, PTL DEF Spec

\* Only one follow of a user outside raced is past the check, and there is room
\* for it.
CapInv ==
    \A u \in Users \ raced :
        /\ Cardinality(Following(follows, u)) <= MaxFollowing
        /\ Passed(u) => Cardinality(Following(follows, u)) < MaxFollowing
        /\ \A v, w \in Writers :
              pc[v] = "create" /\ req[v].who = u /\ pc[w] = "create" /\ req[w].who = u => v = w

\* Without a change of u on its way, the table that reads use has all rows of u.
LEMMA ReadIsCurrent ==
    ASSUME TabInv, ReplInv, NEW u, ~Behind(u)
    PROVE  Following(ReadTable(FALSE), u) = Following(follows, u)
  <1>1. CASE ~Split
    BY <1>1 DEF ReadTable
  <1>2. CASE Split
    <2>1. \A row \in Known : row \notin Pending => (row \in replica <=> row \in follows)
      BY <1>2 DEF ReplInv
    <2>2. \A row \in Pending : row.who # u
      BY DEF Pending, Behind, Ends
    <2>3. Following(replica, u) = Following(follows, u)
      BY <2>1, <2>2 DEF Following, Known
    <2>4. QED
      BY <1>2, <2>3 DEF ReadTable
  <1>3. QED
    BY <1>1, <1>2

\* The steps of a request and the check.
LEMMA CapSteps ==
    ASSUME CtlInv, NEW w \in Writers, Continues(w), ~CountFollowing(w)
    PROVE  /\ req' = req /\ raced' = raced /\ pc'[w] # "create"
           /\ \A v \in Writers : v # w => pc'[v] = pc[v]
           /\ follows' = follows \/ (pc[w] = "create" /\ Inserts(w)) \/ Removes(w)
  <1>1. /\ req' = req /\ \A v \in Writers : v # w => pc'[v] = pc[v]
    BY ContinueMoves DEF GoesOn, Returns, CtlInv
  <1>2. raced' = raced
    BY DEF Continues, FindTarget, Exists, Create, Delete, Mark, MarkFails, Publish,
           PublishFails, StatementFails, ReplyLost
  <1>3. pc'[w] # "create"
    <2>1. pc[w] # "count" \/ StatementFails(w)
      BY DEF Continues, FindTarget, Exists, Create, Delete, Mark, MarkFails, Publish,
             PublishFails, ReplyLost
    <2>2. StatementFails(w) => pc'[w] = "idle"
      BY DEF StatementFails, Return, Goto, CtlInv
    <2>3. pc'[w] = "create" => pc[w] = "count" 
      BY ContinueMoves DEF GoesOn, Returns, Flow, CtlInv
    <2>4. QED
      BY <2>1, <2>2, <2>3
  <1>4. follows' = follows \/ (pc[w] = "create" /\ Inserts(w)) \/ Removes(w)
    <2>1. CASE Insert(w) /\ pc[w] = "create"
      BY <2>1, InsertEffect DEF Quiet
    <2>2. CASE Remove(w)
      BY <2>2, RemoveEffect DEF Quiet
    <2>3. CASE ~Create(w) /\ ~Delete(w) /\ ~ReplyLost(w)
      BY <2>3, NoStatement DEF WriterStep, Continues
    <2>4. QED
      BY <2>1, <2>2, <2>3 DEF Create, Delete, ReplyLost
  <1>5. QED
    BY <1>1, <1>2, <1>3, <1>4

\* A user's rows are finitely many.
LEMMA FollowingFinite ==
    ASSUME TabInv, NEW u
    PROVE  IsFiniteSet(Following(follows, u)) /\ Cardinality(Following(follows, u)) \in Nat
  <1>1. IsFiniteSet(Following(follows, u))
    BY FS_Subset DEF TabInv, Following
  <1>2. QED
    BY <1>1, FS_CardinalityType

\* An INSERT adds one row to the follower's, a DELETE none to anybody's.
LEMMA FollowingMoves ==
    ASSUME TabInv, NEW w \in Writers, NEW u
    PROVE  /\ Inserts(w) => /\ u = req[w].who => Cardinality(Following(follows', u)) =
                                                    Cardinality(Following(follows, u)) + 1
                            /\ u # req[w].who => Following(follows', u) = Following(follows, u)
           /\ Removes(w) => /\ Cardinality(Following(follows', u)) <= Cardinality(Following(follows, u))
                            /\ Cardinality(Following(follows', u)) \in Nat
  <1>0. IsFiniteSet(Following(follows, u)) /\ Cardinality(Following(follows, u)) \in Nat
    BY FollowingFinite
  <1>1. ASSUME Inserts(w)
        PROVE  /\ u = req[w].who => Cardinality(Following(follows', u)) =
                                       Cardinality(Following(follows, u)) + 1
               /\ u # req[w].who => Following(follows', u) = Following(follows, u)
    <2>1. follows' = follows \cup {NewRow(w)} /\ EdgeOf(w) = {}
      BY <1>1 DEF Inserts, Commit, Changed
    <2> DEFINE new == NewRow(w)
    <2>2. new.who = req[w].who /\ new \notin follows
      BY <2>1 DEF NewRow, EdgeOf, Edge
    <2> HIDE DEF new
    <2>3. follows' = follows \cup {new}
      BY <2>1 DEF new
    <2>4. u # req[w].who => Following(follows', u) = Following(follows, u)
      BY <2>2, <2>3 DEF Following
    <2>5. ASSUME u = req[w].who
          PROVE  Cardinality(Following(follows', u)) = Cardinality(Following(follows, u)) + 1
      <3>1. Following(follows', u) = Following(follows, u) \cup {new} /\ new \notin Following(follows, u)
        BY <2>2, <2>3, <2>5 DEF Following
      <3>2. QED
        BY <1>0, <3>1, FS_AddElement
    <2>6. QED
      BY <2>4, <2>5
  <1>2. ASSUME Removes(w)
        PROVE  /\ Cardinality(Following(follows', u)) <= Cardinality(Following(follows, u))
               /\ Cardinality(Following(follows', u)) \in Nat
    <2>1. follows' \subseteq follows
      BY <1>2 DEF Removes, Commit, Changed
    <2>2. Following(follows', u) \subseteq Following(follows, u)
      BY <2>1 DEF Following
    <2>3. QED
      BY <1>0, <2>2, FS_Subset, FS_CardinalityType
  <1>3. QED
    BY <1>1, <1>2

\* Every step keeps the cap.
LEMMA CapStep == CtlInv /\ TabInv /\ ReplInv /\ CapInv /\ [Next]_vars => CapInv'
  <1> SUFFICES ASSUME CtlInv, TabInv, ReplInv, CapInv, [Next]_vars PROVE CapInv'
    OBVIOUS
  <1>0. MaxFollowing \in Nat
    BY FollowConstants
  <1>1. ASSUME NEW w \in Writers, Begins(w)
        PROVE  CapInv'
    <2>1. /\ pc'[w] # "create"
          /\ \A v \in Writers : v # w => pc'[v] = pc[v] /\ req'[v] = req[v]
          /\ UNCHANGED <<dbVars, raced>>
      BY <1>1, BeginSets DEF CtlInv
    <2>2. follows' = follows /\ \A u : Passed(u)' => Passed(u)
      BY <2>1 DEF dbVars, Passed
    <2>3. QED
      BY <2>1, <2>2 DEF CapInv
  <1>2. ASSUME NEW w \in Writers, Continues(w), ~CountFollowing(w)
        PROVE  CapInv'
    <2>1. /\ req' = req /\ raced' = raced /\ pc'[w] # "create"
          /\ \A v \in Writers : v # w => pc'[v] = pc[v]
          /\ follows' = follows \/ (pc[w] = "create" /\ Inserts(w)) \/ Removes(w)
      BY <1>2, CapSteps
    <2> SUFFICES ASSUME NEW u \in Users, u \notin raced
                 PROVE  /\ Cardinality(Following(follows', u)) <= MaxFollowing
                        /\ Passed(u)' => Cardinality(Following(follows', u)) < MaxFollowing
                        /\ \A v, x \in Writers :
                              pc'[v] = "create" /\ req'[v].who = u /\ pc'[x] = "create" /\ req'[x].who = u => v = x
      BY <2>1 DEF CapInv
    <2>2. /\ Cardinality(Following(follows, u)) <= MaxFollowing
          /\ Passed(u) => Cardinality(Following(follows, u)) < MaxFollowing
          /\ \A v, x \in Writers :
                pc[v] = "create" /\ req[v].who = u /\ pc[x] = "create" /\ req[x].who = u => v = x
      BY DEF CapInv
    <2>3. /\ Passed(u)' => Passed(u)
          /\ \A v, x \in Writers :
                pc'[v] = "create" /\ req'[v].who = u /\ pc'[x] = "create" /\ req'[x].who = u => v = x
      BY <2>1, <2>2 DEF Passed
    <2>4. Cardinality(Following(follows, u)) \in Nat
      BY FollowingFinite
    <2>5. CASE follows' = follows
      BY <2>2, <2>3, <2>5
    <2>6. CASE pc[w] = "create" /\ Inserts(w)
      <3>1. CASE u = req[w].who
        <4>1. Passed(u) /\ ~Passed(u)'
          BY <2>1, <2>2, <2>6, <3>1 DEF Passed
        <4>2. Cardinality(Following(follows', u)) = Cardinality(Following(follows, u)) + 1
          BY <2>6, <3>1, FollowingMoves
        <4>3. QED
          BY <1>0, <2>2, <2>3, <2>4, <4>1, <4>2
      <3>2. CASE u # req[w].who
        <4>1. Following(follows', u) = Following(follows, u)
          BY <2>6, <3>2, FollowingMoves
        <4>2. QED
          BY <2>2, <2>3, <4>1
      <3>3. QED
        BY <3>1, <3>2
    <2>7. CASE Removes(w)
      <3>1. /\ Cardinality(Following(follows', u)) <= Cardinality(Following(follows, u))
            /\ Cardinality(Following(follows', u)) \in Nat
        BY <2>7, FollowingMoves
      <3>2. QED
        BY <1>0, <2>2, <2>3, <2>4, <3>1
    <2>8. QED
      BY <2>1, <2>5, <2>6, <2>7
  <1>3. ASSUME NEW w \in Writers, CountFollowing(w)
        PROVE  CapInv'
    <2> DEFINE me == req[w].who
               seen == Cardinality(Following(ReadTable(FALSE), me))
    <2>1. /\ pc[w] = "count" /\ follows' = follows /\ req' = req
          /\ \/ pc' = [pc EXCEPT ![w] = "idle"] /\ raced' = raced
             \/ /\ ~(seen >= MaxFollowing) /\ pc' = [pc EXCEPT ![w] = "create"]
                /\ raced' = IF Passed(me) \/ Behind(me) THEN raced \cup {me} ELSE raced
      BY <1>3 DEF CountFollowing, Return, Proceed, Goto, OverCap, dbVars
    <2>2. /\ pc'[w] \in {"idle", "create"} /\ \A v \in Writers : v # w => pc'[v] = pc[v]
      BY <2>1 DEF CtlInv
    <2> HIDE DEF seen
    <2> SUFFICES ASSUME NEW u \in Users, u \notin raced'
                 PROVE  /\ Cardinality(Following(follows, u)) <= MaxFollowing
                        /\ Passed(u)' => Cardinality(Following(follows, u)) < MaxFollowing
                        /\ \A v, x \in Writers :
                              pc'[v] = "create" /\ req[v].who = u /\ pc'[x] = "create" /\ req[x].who = u => v = x
      BY <2>1 DEF CapInv
    <2>3. u \notin raced
      BY <2>1
    <2>4. /\ Cardinality(Following(follows, u)) <= MaxFollowing
          /\ Passed(u) => Cardinality(Following(follows, u)) < MaxFollowing
          /\ \A v, x \in Writers :
                pc[v] = "create" /\ req[v].who = u /\ pc[x] = "create" /\ req[x].who = u => v = x
      BY <2>3 DEF CapInv
    <2>5. CASE pc'[w] = "create" /\ u = me
      <3>1. ~(seen >= MaxFollowing) /\ ~Passed(u) /\ ~Behind(u)
        BY <2>1, <2>5 DEF CtlInv
      <3>2. seen = Cardinality(Following(follows, u))
        BY <2>5, <3>1, ReadIsCurrent DEF seen
      <3>3. Cardinality(Following(follows, u)) \in Nat
        BY FollowingFinite
      <3>4. Cardinality(Following(follows, u)) < MaxFollowing
        BY <1>0, <3>1, <3>2, <3>3
      <3>5. \A v \in Writers : pc'[v] = "create" /\ req[v].who = u => v = w
        BY <2>2, <3>1 DEF Passed
      <3>6. QED
        BY <2>4, <3>4, <3>5
    <2>6. CASE ~(pc'[w] = "create" /\ u = me)
      <3>1. Passed(u)' => Passed(u)
        BY <2>1, <2>2, <2>6 DEF Passed
      <3>2. QED
        BY <2>2, <2>4, <2>6, <3>1
    <2>7. QED
      BY <2>5, <2>6
  <1>4. CASE UNCHANGED <<pc, req, raced, follows>>
    BY <1>4 DEF CapInv, Passed
  <1>5. QED
    BY <1>1, <1>2, <1>3, <1>4, WriterSteps, OtherSteps DEF Continues

\* LimitHeld (follow_service.go:146-153): the cap holds for every user whose follows
\* did not overlap between the check and the INSERT and were not checked against a
\* replica that was behind.
THEOREM CapIsHeld == Spec => []LimitHeld
  <1>1. Init => CapInv
    <2> SUFFICES ASSUME Init PROVE CapInv
      OBVIOUS
    <2>1. \A u \in Users : Following(follows, u) = {} /\ ~Passed(u)
      BY DEF Init, Following, Passed
    <2>2. Cardinality({}) = 0 /\ MaxFollowing \in Nat
      BY FS_EmptySet, FollowConstants
    <2>3. \A v \in Writers : pc[v] # "create"
      BY DEF Init
    <2>4. 0 <= MaxFollowing
      BY <2>2
    <2>5. QED
      BY <2>1, <2>2, <2>3, <2>4 DEF CapInv
  <1>2. CapInv => LimitHeld
    BY DEF CapInv, LimitHeld
  <1>3. QED
    BY <1>1, <1>2, CapStep, ReplInvariance, PTL DEF Spec

-----------------------------------------------------------------------------
(***************************************************************************)
(* Pages.                                                                  *)
(***************************************************************************)

\* A set of naturals has a least member.
LEMMA LeastNat ==
    ASSUME NEW T, T \subseteq Nat, T # {}
    PROVE  \E x \in T : \A y \in T : x <= y
  <1> DEFINE R == OpToRel(<, Nat)
  <1>1. IsWellFoundedOn(R, Nat)
    BY NatLessThanWellFounded
  <1>2. \A x, y \in Nat : y < x => <<y, x>> \in R
    BY DEF OpToRel
  <1> HIDE DEF R
  <1>3. PICK x \in T : \A y \in T : ~(<<y, x>> \in R)
    BY <1>1, WFMin
  <1>4. \A y \in T : ~(y < x)
    BY <1>2, <1>3
  <1>5. \A y \in T : x <= y
    BY <1>4
  <1>6. QED
    BY <1>5

\* Rows with ids below a bound have a newest one.
LEMMA NewestRow ==
    ASSUME NEW S, S # {}, NEW n \in Nat, \A s \in S : s.id \in Nat /\ s.id < n
    PROVE  \E top \in S : \A s \in S : s.id <= top.id
  <1> DEFINE T == {n - s.id : s \in S}
  <1>1. T \subseteq Nat /\ T # {}
    OBVIOUS
  <1>2. \A s \in S : n - s.id \in T
    OBVIOUS
  <1>3. \A x \in T : \E s \in S : x = n - s.id
    OBVIOUS
  <1> HIDE DEF T
  <1>4. PICK x \in T : \A y \in T : x <= y
    BY <1>1, LeastNat
  <1>5. PICK top \in S : x = n - top.id
    BY <1>3
  <1>6. ASSUME NEW s \in S
        PROVE  s.id <= top.id
    <2>1. n - top.id <= n - s.id /\ s.id \in Nat /\ top.id \in Nat
      BY <1>2, <1>4, <1>5
    <2>2. QED
      BY <2>1
  <1>7. QED
    BY <1>6

Above(S, row) == {s \in S : s.id > row.id}

\* A set whose rows can be told apart by their ids.
Listed(S, n) == IsFiniteSet(S) /\ n \in Nat /\ \A s \in S : s.id \in Nat /\ s.id < n

\* What is left out by LIMIT is older than what is kept.
LEMMA KeptAreNewer ==
    ASSUME NEW S, NEW n, Listed(S, n), NEW k \in Nat, NEW a \in S, a \notin Newest(S, k),
           NEW b \in Newest(S, k)
    PROVE  a.id < b.id
  <1>1. b \in S /\ a.id \in Nat /\ b.id \in Nat /\ \A s \in S : s.id \in Nat
    BY DEF Newest, Listed
  <1>2. ~(Cardinality(Above(S, a)) < k) /\ Cardinality(Above(S, b)) < k
    BY DEF Newest, Above
  <1>3. ASSUME ~(a.id < b.id) PROVE Above(S, a) \subseteq Above(S, b)
    BY <1>1, <1>3 DEF Above
  <1>4. IsFiniteSet(Above(S, b)) /\ IsFiniteSet(Above(S, a))
    BY FS_Subset DEF Above, Listed
  <1>5. Cardinality(Above(S, b)) \in Nat /\ Cardinality(Above(S, a)) \in Nat
    BY <1>4, FS_CardinalityType
  <1>6. Above(S, a) \subseteq Above(S, b) => Cardinality(Above(S, a)) <= Cardinality(Above(S, b))
    BY <1>4, FS_Subset
  <1>7. QED
    BY <1>2, <1>3, <1>5, <1>6

\* LIMIT k leaves something out only when it keeps k rows.
LEMMA LimitIsFull ==
    ASSUME NEW S, NEW n, Listed(S, n), NEW k \in Nat, Newest(S, k) # S
    PROVE  Cardinality(Newest(S, k)) >= k
  <1> DEFINE rest == S \ Newest(S, k)
  <1>1. rest # {} /\ rest \subseteq S
    BY DEF Newest
  <1>2. \A s \in rest : s.id \in Nat /\ s.id < n
    BY <1>1 DEF Listed
  <1>3. n \in Nat
    BY DEF Listed
  <1>4. PICK top \in rest : \A s \in rest : s.id <= top.id
    <2> HIDE DEF rest
    <2> QED
      BY <1>1, <1>2, <1>3, NewestRow
  <1>5. Above(S, top) \subseteq Newest(S, k)
    <2>1. ASSUME NEW s \in S, s.id > top.id
          PROVE  s \notin rest
      BY <1>1, <1>2, <1>4, <2>1 DEF Listed
    <2>2. QED
      BY <2>1 DEF Above
  <1>6. ~(Cardinality(Above(S, top)) < k)
    BY <1>1 DEF Newest, Above
  <1>7. IsFiniteSet(Newest(S, k))
    BY FS_Subset DEF Newest, Listed
  <1>8. IsFiniteSet(Above(S, top)) /\ Cardinality(Above(S, top)) <= Cardinality(Newest(S, k))
    BY <1>5, <1>7, FS_Subset
  <1>9. Cardinality(Above(S, top)) \in Nat /\ Cardinality(Newest(S, k)) \in Nat
    BY <1>7, <1>8, FS_CardinalityType
  <1>10. QED
    BY <1>6, <1>8, <1>9

\* A page of at least one row shows a row if there is one.
LEMMA LimitShows ==
    ASSUME NEW S, NEW n, Listed(S, n), S # {}, NEW k \in Nat \ {0}
    PROVE  Newest(S, k) # {}
  <1>1. PICK top \in S : \A s \in S : s.id <= top.id
    BY NewestRow DEF Listed
  <1>2. {s \in S : s.id > top.id} = {}
    BY <1>1 DEF Listed
  <1>3. Cardinality({s \in S : s.id > top.id}) = 0
    BY <1>2, FS_EmptySet
  <1>4. QED
    BY <1>3 DEF Newest

\* listJoin and buildFollowListResp: a row that matches is on the page or below the
\* cursor of the next one.
LEMMA PageIsComplete ==
    ASSUME NEW M, NEW n, Listed(M, n), \A s \in M : s.id # NoCursor, NEW size \in Nat \ {0},
           NEW row \in M
    PROVE  LET page == BuildResp(Newest(M, size + 1), size)
           IN  row \in page.rows \/ (page.next # NoCursor /\ row.id < page.next)
  <1> DEFINE N == Newest(M, size + 1)
             kept == Newest(N, size)
             least == CHOOSE i \in {s.id : s \in kept} : \A s \in kept : i <= s.id
             page == BuildResp(N, size)
  <1>1. /\ page.rows = kept
        /\ page.next = IF Cardinality(N) > size THEN least ELSE NoCursor
    BY DEF BuildResp
  <1>2. N \subseteq M /\ kept \subseteq N
    BY DEF Newest
  <1>3. Listed(N, n)
    BY <1>2, FS_Subset DEF Listed
  <1>4. IsFiniteSet(N) /\ Cardinality(N) \in Nat /\ size + 1 \in Nat
    BY <1>3, FS_CardinalityType DEF Listed
  <1>5. CASE row \in kept
    BY <1>1, <1>5
  <1>6. CASE row \notin kept
    <2>1. Cardinality(N) > size
      <3>1. CASE row \in N
        <4>1. ~(Cardinality(Above(N, row)) < size)
          BY <1>6, <3>1 DEF Newest, Above
        <4>2. Above(N, row) \subseteq N \ {row}
          BY <1>3, <3>1 DEF Above, Listed
        <4>3. IsFiniteSet(N \ {row}) /\ Cardinality(N \ {row}) = Cardinality(N) - 1
          BY <1>4, <3>1, FS_RemoveElement
        <4>4. IsFiniteSet(Above(N, row)) /\ Cardinality(Above(N, row)) <= Cardinality(N \ {row})
          BY <4>2, <4>3, FS_Subset
        <4>5. Cardinality(Above(N, row)) \in Nat
          BY <4>4, FS_CardinalityType
        <4> HIDE DEF N
        <4>6. QED
          BY <1>4, <4>1, <4>3, <4>4, <4>5
      <3>2. CASE row \notin N
        <4>1. N # M
          BY <3>2
        <4>2. Cardinality(N) >= size + 1
          BY <1>4, <4>1, LimitIsFull
        <4>3. QED
          BY <1>4, <4>2
      <3>3. QED
        BY <3>1, <3>2
    <2>2. N # {}
      <3>1. CASE N = {}
        BY <1>4, <2>1, <3>1, FS_EmptySet
      <3>2. QED
        BY <3>1
    <2>3. kept # {}
      BY <1>3, <2>2, LimitShows
    <2>4. \A s \in kept : s.id \in Nat /\ s.id # NoCursor
      BY <1>2 DEF Listed
    <2>5. PICK i \in {s.id : s \in kept} : \A s \in kept : i <= s.id
      <3> DEFINE T == {s.id : s \in kept}
      <3>1. T \subseteq Nat /\ T # {}
        BY <2>3, <2>4
      <3>2. \E x \in T : \A y \in T : x <= y
        <4> HIDE DEF T
        <4> QED
          BY <3>1, LeastNat
      <3>3. QED
        BY <3>2
    <2>6. least \in {s.id : s \in kept}
      BY <2>5
    <2>7. PICK b \in kept : least = b.id
      BY <2>6
    <2>8. row.id < b.id
      <3>1. CASE row \in N
        BY <1>3, <1>6, <3>1, KeptAreNewer
      <3>2. CASE row \notin N
        <4>1. b \in N
          BY <1>2
        <4>2. QED
          BY <1>4, <3>2, <4>1, KeptAreNewer
      <3>3. QED
        BY <3>1, <3>2
    <2>9. page.next = b.id /\ b.id # NoCursor
      BY <1>1, <2>1, <2>4, <2>7
    <2>10. QED
      BY <2>8, <2>9
  <1>7. QED
    BY <1>5, <1>6

-----------------------------------------------------------------------------
(***************************************************************************)
(* Markers and lists.                                                      *)
(***************************************************************************)

EdgePair(row) == <<row.who, row.whom>>

\* A user whose reads may go to the replica has pending rows only from requests
\* that have yet to mark it.
MarkInv ==
    \A x \in Users : x \notin marker /\ x \notin exposed =>
        \A row \in Pending : x \in Ends(row) => EdgePair(row) \in Unmarked(x)

\* What lets x keep that.
Kept(x) ==
    \/ ~Behind(x)'
    \/ /\ x \notin marker /\ x \notin exposed
       /\ Unmarked(x) \subseteq Unmarked(x)'
       /\ \A row \in Pending' : x \in Ends(row) => row \in Pending \/ EdgePair(row) \in Unmarked(x)'

\* The requests that have yet to mark x.
Marking(v, x) ==
    \/ pc[v] = "markWho" /\ x \in {req[v].who, req[v].whom}
    \/ pc[v] = "markWhom" /\ x = req[v].whom

\* A step that leaves the requests about x alone.
LEMMA UnmarkedStays ==
    ASSUME NEW x, \A v \in Writers : Marking(v, x) => Marking(v, x)' /\ req'[v] = req[v]
    PROVE  Unmarked(x) \subseteq Unmarked(x)'
  <1>1. Unmarked(x) = {<<req[w].who, req[w].whom>> : w \in {v \in Writers : Marking(v, x)}}
    BY DEF Unmarked, Marking
  <1>2. Unmarked(x)' = {<<req'[w].who, req'[w].whom>> : w \in {v \in Writers : Marking(v, x)'}}
    BY DEF Unmarked, Marking
  <1>3. QED
    BY <1>1, <1>2

\* A request that has just changed its row has yet to mark both ends.
LEMMA UnmarkedNew ==
    ASSUME NEW w \in Writers, pc'[w] = "markWho", NEW row, row.who = req'[w].who, row.whom = req'[w].whom,
           NEW x \in Ends(row)
    PROVE  EdgePair(row) \in Unmarked(x)'
  <1>1. x \in {req'[w].who, req'[w].whom}
    BY DEF Ends
  <1>2. <<req'[w].who, req'[w].whom>> \in Unmarked(x)'
    BY <1>1 DEF Unmarked
  <1>3. QED
    BY <1>2 DEF EdgePair

\* Rows that become pending belong to the request that changes them.
LEMMA PendingGrows ==
    ASSUME CtlInv, TabInv, NEW w \in Writers, Insert(w) \/ Remove(w)
    PROVE  \A row \in Pending' : row \in Pending \/ (row.who = req[w].who /\ row.whom = req[w].whom)
  <1>1. CASE Inserts(w)
    <2>1. NewRow(w) \in Row /\ NewRow(w).who = req[w].who /\ NewRow(w).whom = req[w].whom
      BY DEF NewRow, Row, CtlInv, TabInv, Request
    <2>2. Pending' \subseteq Pending \cup {NewRow(w)}
      BY <1>1, <2>1, CommitEffect DEF Inserts
    <2>3. QED
      BY <2>1, <2>2
  <1>2. CASE Removes(w)
    <2>1. PICK row \in EdgeOf(w) : Commit("del", row)
      BY <1>2 DEF Removes
    <2>2. row \in Row /\ row.who = req[w].who /\ row.whom = req[w].whom
      BY DEF EdgeOf, Edge, TabInv
    <2>3. Pending' \subseteq Pending \cup {row}
      BY <2>1, <2>2, CommitEffect
    <2>4. QED
      BY <2>2, <2>3
  <1>3. CASE Quiet
    BY <1>3 DEF Quiet, Pending
  <1>4. QED
    BY <1>1, <1>2, <1>3, InsertEffect, RemoveEffect

\* A request that begins, fails, counts, or publishes touches no marker.
LEMMA MarkQuiet ==
    ASSUME CtlInv, NEW w \in Writers, WriterStep(w), ~Create(w), ~Delete(w), ~Mark(w), ~MarkFails(w),
           ~ReplyLost(w)
    PROVE  /\ UNCHANGED <<marker, exposed, binlog>>
           /\ \A v \in Writers : v # w => pc'[v] = pc[v] /\ req'[v] = req[v]
           /\ pc[w] \notin {"markWho", "markWhom"}
  <1>1. UNCHANGED <<marker, exposed, binlog>> /\ pc[w] \notin {"markWho", "markWhom"}
    BY DEF WriterStep, Begin, FindTarget, Exists, CountFollowing, Publish, PublishFails,
       StatementFails, dbVars
  <1>2. CASE Begins(w)
    <2>1. \A v \in Writers : v # w => pc'[v] = pc[v] /\ req'[v] = req[v]
      BY <1>2, BeginSets DEF CtlInv
    <2>2. QED
      BY <1>1, <2>1
  <1>3. CASE Continues(w)
    <2>1. req' = req /\ \A v \in Writers : v # w => pc'[v] = pc[v]
      BY <1>3, ContinueMoves DEF GoesOn, Returns, CtlInv
    <2>2. QED
      BY <1>1, <2>1
  <1>4. QED
    BY <1>2, <1>3, WriterSteps

\* Every step lets every user outside marker and exposed keep it.
LEMMA MarkKept ==
    ASSUME CtlInv, TabInv, [Next]_vars, NEW x \in Users, x \notin marker', x \notin exposed'
    PROVE  Kept(x)
  <1>0. pc \in [Writers -> Steps]
    BY DEF CtlInv
  <1>1. ASSUME NEW w \in Writers, Create(w) \/ Delete(w)
        PROVE  Kept(x)
    <2>1. /\ UNCHANGED <<marker, exposed, req>> /\ pc[w] \in {"create", "delete"} /\ (Insert(w) \/ Remove(w))
          /\ \A v \in Writers : v # w => pc'[v] = pc[v]
      BY <1>0, <1>1 DEF Create, Delete, Proceed, Return, Goto
    <2>2. \A v \in Writers : Marking(v, x) => Marking(v, x)' /\ req'[v] = req[v]
      BY <2>1 DEF Marking
    <2>3. Unmarked(x) \subseteq Unmarked(x)'
      BY <2>2, UnmarkedStays
    <2>4. CASE pc'[w] = "markWho"
      <3>1. \A row \in Pending' : row \in Pending \/ (row.who = req[w].who /\ row.whom = req[w].whom)
        BY <2>1, PendingGrows
      <3>2. \A row \in Pending' : x \in Ends(row) => row \in Pending \/ EdgePair(row) \in Unmarked(x)'
        BY <2>1, <2>4, <3>1, UnmarkedNew
      <3>3. QED
        BY <2>1, <2>3, <3>2 DEF Kept
    <2>5. CASE pc'[w] # "markWho"
      <3>1. follows' = follows
        BY <1>0, <1>1, <2>5 DEF Create, Delete, Proceed, Goto
      <3>2. Quiet
        BY <2>1, <3>1, InsertEffect, RemoveEffect
      <3>3. Pending' = Pending
        BY <3>2 DEF Quiet, Pending
      <3>4. QED
        BY <2>1, <2>3, <3>3 DEF Kept
    <2>6. QED
      BY <2>4, <2>5
  <1>2. ASSUME NEW w \in Writers, Mark(w) \/ MarkFails(w)
        PROVE  Kept(x)
    <2>1. /\ pc[w] \in {"markWho", "markWhom"} /\ UNCHANGED <<req, binlog>>
          /\ pc'[w] = IF pc[w] = "markWho" THEN "markWhom" ELSE "publish"
          /\ \A v \in Writers : v # w => pc'[v] = pc[v]
      BY <1>0, <1>2 DEF Mark, MarkFails, Goto, dbVars
    <2>2. Pending' = Pending
      BY <2>1 DEF Pending
    <2>3. CASE x = ToMark(w)
      <3>1. MarkFails(w)
        BY <1>2, <2>3 DEF Mark
      <3>2. exposed' = exposed \cup {u \in {ToMark(w)} : u \notin marker' /\ Behind(u)'}
        BY <3>1 DEF MarkFails, Expose
      <3>3. QED
        BY <2>3, <3>2 DEF Kept
    <2>4. CASE x # ToMark(w)
      <3>1. x \notin marker /\ x \notin exposed
        BY <1>2, <2>4 DEF Mark, MarkFails, Expose
      <3>2. \A v \in Writers : Marking(v, x) => Marking(v, x)' /\ req'[v] = req[v]
        BY <2>1, <2>4 DEF Marking, ToMark
      <3>3. Unmarked(x) \subseteq Unmarked(x)'
        BY <3>2, UnmarkedStays
      <3>4. QED
        BY <2>2, <3>1, <3>3 DEF Kept
    <2>5. QED
      BY <2>3, <2>4
  <1>3. ASSUME NEW w \in Writers, ReplyLost(w)
        PROVE  Kept(x)
    <2>1. /\ UNCHANGED <<marker, req>> /\ pc[w] \in {"create", "delete"} /\ (Insert(w) \/ Remove(w))
          /\ exposed' = exposed \cup {u \in {req[w].who, req[w].whom} : u \notin marker' /\ Behind(u)'}
          /\ \A v \in Writers : v # w => pc'[v] = pc[v]
      BY <1>0, <1>3 DEF ReplyLost, Return, Goto, Expose
    <2>2. CASE x \in {req[w].who, req[w].whom}
      BY <2>1, <2>2 DEF Kept
    <2>3. CASE x \notin {req[w].who, req[w].whom}
      <3>1. \A row \in Pending' : x \in Ends(row) => row \in Pending
        BY <2>1, <2>3, PendingGrows DEF Ends
      <3>2. \A v \in Writers : Marking(v, x) => Marking(v, x)' /\ req'[v] = req[v]
        BY <2>1 DEF Marking
      <3>3. Unmarked(x) \subseteq Unmarked(x)'
        BY <3>2, UnmarkedStays
      <3>4. QED
        BY <2>1, <3>1, <3>3 DEF Kept
    <2>4. QED
      BY <2>2, <2>3
  <1>4. ASSUME NEW w \in Writers, WriterStep(w), ~Create(w), ~Delete(w), ~Mark(w),
               ~MarkFails(w), ~ReplyLost(w)
        PROVE  Kept(x)
    <2>1. /\ UNCHANGED <<marker, exposed, binlog>>
          /\ \A v \in Writers : v # w => pc'[v] = pc[v] /\ req'[v] = req[v]
          /\ pc[w] \notin {"markWho", "markWhom"}
      BY <1>4, MarkQuiet
    <2>2. \A v \in Writers : Marking(v, x) => Marking(v, x)' /\ req'[v] = req[v]
      BY <2>1 DEF Marking
    <2>3. Unmarked(x) \subseteq Unmarked(x)'
      BY <2>2, UnmarkedStays
    <2>4. QED
      BY <2>1, <2>3 DEF Kept, Pending
  <1>5. CASE ~(\E w \in Writers : WriterStep(w))
    <2>0. UNCHANGED <<pc, req>>
      BY <1>5, OtherSteps
    <2>1. Unmarked(x)' = Unmarked(x)
      BY <2>0 DEF Unmarked
    <2>2. CASE Replicate
      <3>1. Pending' \subseteq Pending /\ marker' = marker /\ exposed' = {u \in exposed : Behind(u)'}
        BY <2>2, ReplicateEffect DEF Replicate
      <3>2. QED
        BY <2>1, <3>1 DEF Kept
    <2>3. ASSUME NEW u \in Users, MarkerExpires(u) PROVE Kept(x)
      <3>1. /\ marker' = marker \ {u} /\ binlog' = binlog
            /\ exposed' = exposed \cup {v \in {u} : v \notin marker' /\ Behind(v)'}
        BY <2>3 DEF MarkerExpires, Expose, dbVars
      <3>2. QED
        BY <2>1, <3>1 DEF Kept, Pending
    <2>4. CASE UNCHANGED <<marker, exposed, binlog>>
      BY <2>1, <2>4 DEF Kept, Pending
    <2>5. ASSUME NEW r \in Readers, ReaderStep(r)
          PROVE  UNCHANGED <<marker, exposed, binlog>>
      BY <2>5 DEF ReaderStep, ListBegin, ListBeginHasFails, ListQuery, ListQueryFails, dbVars
    <2>6. (\E u \in Leaving : Deactivate(u)) \/ UNCHANGED vars => UNCHANGED <<marker, exposed, binlog>>
      BY DEF Deactivate, vars, dbVars
    <2>7. QED
      BY <1>5, <2>2, <2>3, <2>4, <2>5, <2>6 DEF Next
  <1>6. QED
    BY <1>1, <1>2, <1>3, <1>4, <1>5

\* Every step keeps the markers.
LEMMA MarkStep == CtlInv /\ TabInv /\ MarkInv /\ [Next]_vars => MarkInv'
  <1> SUFFICES ASSUME CtlInv, TabInv, MarkInv, [Next]_vars,
                      NEW x \in Users, x \notin marker', x \notin exposed', NEW row \in Pending', x \in Ends(row)
               PROVE  EdgePair(row) \in Unmarked(x)'
    BY DEF MarkInv, EdgePair, Ends
  <1>1. Kept(x)
    BY MarkKept
  <1>2. Behind(x)'
    BY DEF Behind, Pending
  <1>3. QED
    BY <1>1, <1>2 DEF Kept, MarkInv

\* The requests of readers.
Query == [user : Users, dir : {"followers", "following"}, cursor : Nat, size : Nat \ {0}]
Lists == [q : Query, force : BOOLEAN, must : SUBSET Row, gone : SUBSET Row]

\* What a reader counts on is in the table it will read, and what it counts on not
\* to see is not, until its query.
Sound(l) ==
    /\ \A row \in l.must : row \in follows /\ Pivot(row, l.q.dir) = l.q.user /\ Before(row, l.q.cursor)
    /\ \A row \in l.gone : row \notin follows /\ row.id < nextId
    /\ Split /\ ~l.force =>
          /\ \A row \in l.must : row \in replica /\ row \notin Pending
          /\ \A row \in l.gone : Pivot(row, l.q.dir) = l.q.user => row \notin replica /\ row \notin Pending

ListInv ==
    /\ DOMAIN list = Readers
    /\ \A r \in Readers : list[r] # NoList => list[r] \in Lists /\ Sound(list[r])

\* The list of r after w removed rows.
Without(l, rows) == [l EXCEPT !.must = @ \ rows]

\* A request that began with what was due and gone then.
LEMMA BeginIsSound ==
    ASSUME CtlInv, TabInv, ReplInv, MarkInv, NEW q \in Query, NEW l \in Lists, l.q = q,
           \/ l.must = {} /\ l.gone = {}
           \/ l.must = Due(q) /\ l.gone = Gone(q) /\ (l.force <=> Has(q.user))
    PROVE  Sound(l)
  <1>1. CASE l.must = {} /\ l.gone = {}
    BY <1>1 DEF Sound
  <1>2. CASE l.must = Due(q) /\ l.gone = Gone(q) /\ (l.force <=> Has(q.user))
    <2>1. \A row \in l.must : row \in follows /\ Pivot(row, q.dir) = q.user /\ Before(row, q.cursor)
      BY <1>2 DEF Due, Before
    <2>2. \A row \in l.gone : row \notin follows /\ row \in Known
      BY <1>2 DEF Gone, Known, Pending
    <2>3. \A row \in l.gone : row.id < nextId
      BY <2>2 DEF TabInv
    <2>4. ASSUME Split, ~l.force
          PROVE  /\ \A row \in l.must : row \in replica /\ row \notin Pending
                 /\ \A row \in l.gone : Pivot(row, q.dir) = q.user => row \notin replica /\ row \notin Pending
      <3>1. q.user \notin marker /\ q.user \in Users /\ q.dir \in {"followers", "following"}
        BY <1>2, <2>4 DEF Has, Query
      <3>2. \A row \in Known : row \notin Pending => (row \in replica <=> row \in follows)
        BY <2>4 DEF ReplInv
      <3>3. \A row : Pivot(row, q.dir) \in Ends(row)
        BY DEF Pivot, Ends
      <3>4. ASSUME NEW row \in l.must
            PROVE  row \in replica /\ row \notin Pending
        <4>1. row \in follows /\ q.user \notin exposed /\ EdgePair(row) \notin Unmarked(q.user)
              /\ Pivot(row, q.dir) = q.user
          BY <1>2 DEF Due, EdgePair
        <4>2. row \notin Pending
          BY <3>1, <3>3, <4>1 DEF MarkInv
        <4>3. QED
          BY <3>2, <4>1, <4>2 DEF Known
      <3>5. ASSUME NEW row \in l.gone, Pivot(row, q.dir) = q.user
            PROVE  row \notin replica /\ row \notin Pending
        <4>1. row \notin follows /\ row \in Known /\ q.user \notin exposed /\ EdgePair(row) \notin Unmarked(q.user)
          BY <1>2, <2>2 DEF Gone, EdgePair
        <4>2. row \notin Pending
          BY <3>1, <3>3, <3>5, <4>1 DEF MarkInv
        <4>3. QED
          BY <3>2, <4>1, <4>2
      <3>6. QED
        BY <3>4, <3>5
    <2>5. QED
      BY <2>1, <2>2, <2>3, <2>4 DEF Sound
  <1>3. QED
    BY <1>1, <1>2

\* ClampSize asks for at least one row.
LEMMA Clamped ==
    ASSUME NEW n \in Int
    PROVE  ClampSize(n) \in Nat \ {0}
  BY FollowConstants DEF ClampSize

\* A list that begins.
LEMMA ListBegins ==
    ASSUME CtlInv, TabInv, ReplInv, MarkInv, ListInv, NEW r \in Readers, NEW x \in Users,
           NEW dir \in {"followers", "following"}, NEW cursor \in Nat, NEW n \in Int, NEW probed \in BOOLEAN,
           ListBegin(r, x, dir, cursor, n, probed)
    PROVE  ListInv'
  <1> DEFINE q == [user |-> x, dir |-> dir, cursor |-> cursor, size |-> ClampSize(n)]
             force == probed /\ Has(x)
             must == IF probed THEN Due(q) ELSE {}
             gone == IF probed THEN Gone(q) ELSE {}
  <1>1. ClampSize(n) \in Nat \ {0}
    BY Clamped
  <1>2. q \in Query /\ q.user = x
    BY <1>1 DEF Query
  <1>3. force \in BOOLEAN /\ (probed => (force <=> Has(x)))
    OBVIOUS
  <1>4. must \subseteq Row /\ gone \subseteq Row
    <2>1. Known \subseteq Row
      <3>1. binlog \in Seq(Change)
        BY DEF TabInv
      <3>2. \A i \in DOMAIN binlog : binlog[i] \in Change
        BY <3>1
      <3>3. Pending \subseteq Row
        BY <3>2 DEF Pending, Change
      <3>4. QED
        BY <3>3 DEF Known, TabInv
    <2>2. Due(q) \subseteq Known /\ Gone(q) \subseteq Known
      BY DEF Due, Gone, Known, Pending
    <2>3. QED
      BY <2>1, <2>2
  <1>5. /\ list' = [list EXCEPT ![r] = [q |-> q, force |-> force, must |-> must, gone |-> gone]]
        /\ UNCHANGED dbVars
    BY DEF ListBegin
  <1>6. \/ must = {} /\ gone = {}
        \/ must = Due(q) /\ gone = Gone(q) /\ (force <=> Has(q.user))
    BY <1>2, <1>3
  <1> HIDE DEF q, force, must, gone
  <1> DEFINE l == [q |-> q, force |-> force, must |-> must, gone |-> gone]
  <1>7. l \in Lists /\ l.q = q /\ l.must = must /\ l.gone = gone /\ l.force = force
    BY <1>2, <1>3, <1>4 DEF Lists
  <1>8. list' = [list EXCEPT ![r] = l]
    BY <1>5
  <1> HIDE DEF l
  <1>9. Sound(l)
    BY <1>2, <1>6, <1>7, BeginIsSound
  <1>11. DOMAIN list' = Readers /\ list'[r] = l /\ \A s \in Readers : s # r => list'[s] = list[s]
    BY <1>8 DEF ListInv
  <1>12. ASSUME NEW s \in Readers, list'[s] # NoList
         PROVE  list'[s] \in Lists /\ Sound(list'[s])
    BY <1>7, <1>9, <1>11, <1>12 DEF ListInv
  <1>13. \A s \in Readers : list'[s] # NoList => list'[s] \in Lists /\ Sound(list[s])'
    <2>1. ASSUME NEW s \in Readers, list'[s] # NoList
          PROVE  list'[s] \in Lists /\ Sound(list[s])'
      <3>1. Sound(list'[s]) /\ list'[s] \in Lists
        BY <1>12, <2>1
      <3>2. QED
        BY <1>5, <3>1 DEF dbVars, Sound, Pending
    <2>2. QED
      BY <2>1
  <1>14. QED
    BY <1>11, <1>13 DEF ListInv

\* Tables that change without any row being deleted keep a list sound.
LEMMA SoundStays ==
    ASSUME CtlInv, TabInv, NEW l \in Lists, Sound(l),
           Quiet \/ Replicate \/ \E w \in Writers : Inserts(w)
    PROVE  Sound(l)'
  <1>0. /\ l.must \subseteq Row /\ l.gone \subseteq Row /\ nextId \in Nat
        /\ \A row \in follows : row.id < nextId
    BY DEF Lists, TabInv, Known
  <1>i. \A row \in l.must \cup l.gone : row.id \in Nat /\ row.id < nextId
    BY <1>0 DEF Sound, Row
  <1>1. CASE Quiet
    <2>1. UNCHANGED <<follows, replica, binlog>> /\ nextId' \in {nextId, nextId + 1}
      BY <1>1 DEF Quiet
    <2>2. Pending' = Pending
      BY <2>1 DEF Pending
    <2>3. \A row \in l.gone : row.id < nextId'
      BY <1>0, <1>i, <2>1
    <2>4. QED
      BY <2>1, <2>2, <2>3 DEF Sound
  <1>2. ASSUME NEW w \in Writers, Inserts(w)
        PROVE  Sound(l)'
    <2> DEFINE new == NewRow(w)
    <2>1. new \in Row /\ new.id = nextId
      BY <1>0 DEF NewRow, Row, CtlInv, Request
    <2> HIDE DEF new
    <2>2. Commit("ins", new) /\ nextId' = nextId + 1
      BY <1>2 DEF Inserts, new
    <2>3. /\ follows' = follows \cup {new} /\ replica' = replica
          /\ Pending' \subseteq Pending \cup {new}
      BY <2>1, <2>2, CommitEffect DEF Changed
    <2>4. new \notin l.must /\ new \notin l.gone
      BY <1>0, <1>i, <2>1
    <2>5. \A row \in l.gone : row.id < nextId'
      BY <1>0, <1>i, <2>2
    <2>6. QED
      BY <2>3, <2>4, <2>5 DEF Sound
  <1>3. CASE Replicate
    <2> DEFINE c == binlog[1]
    <2>1. /\ c.row \in Pending /\ replica' = Changed(replica, c.op, c.row)
          /\ follows' = follows /\ nextId' = nextId /\ Pending' \subseteq Pending
      BY <1>3, ReplicateEffect
    <2> HIDE DEF c
    <2>2. \A row : row \notin Pending => row \notin Pending' /\ (row \in replica' <=> row \in replica)
      BY <2>1 DEF Changed
    <2>3. QED
      BY <2>1, <2>2 DEF Sound
  <1>4. QED
    BY <1>1, <1>2, <1>3

\* A DELETE takes the row out of what readers count on.
LEMMA SoundWithout ==
    ASSUME CtlInv, TabInv, NEW w \in Writers, Remove(w), NEW l \in Lists, Sound(l),
           NEW rows, rows = EdgeOf(w), NEW k, k = Without(l, rows)
    PROVE  k \in Lists /\ Sound(k)'
  <1>1. k \in Lists /\ k.q = l.q /\ k.force = l.force /\ k.gone = l.gone /\ k.must = l.must \ rows
    BY DEF Without, Lists
  <1>2. CASE rows = {}
    <2>1. Quiet
      BY <1>2, RemoveEffect
    <2>2. Sound(k)
      BY <1>1 DEF Sound
    <2>3. Sound(k)'
      BY <1>1, <2>1, <2>2, SoundStays
    <2>4. QED
      BY <1>1, <2>3
  <1>3. CASE rows # {}
    <2>1. PICK row \in rows : Commit("del", row) /\ nextId' = nextId
      BY <1>3, RemoveEffect DEF Removes
    <2>2. row \in follows /\ row \in Row
      BY DEF EdgeOf, Edge, TabInv
    <2>3. /\ follows' = follows \ {row} /\ replica' = replica
          /\ Pending' \subseteq Pending \cup {row}
      BY <2>1, <2>2, CommitEffect DEF Changed
    <2>4. row \notin k.must /\ row \notin k.gone
      BY <1>1, <2>1, <2>2 DEF Sound
    <2>5. Sound(k)'
      BY <1>1, <2>1, <2>3, <2>4 DEF Sound
    <2>6. QED
      BY <1>1, <2>5
  <1>4. QED
    BY <1>2, <1>3

\* What a step does to the readers' requests.
LEMMA ListSteps ==
    ASSUME [Next]_vars
    PROVE  \/ list' = list /\ (Quiet \/ Replicate \/ \E w \in Writers : Inserts(w))
           \/ \E w \in Writers : Remove(w)
           \/ \E r \in Readers : ReaderStep(r)
  <1>1. ASSUME NEW w \in Writers, WriterStep(w)
        PROVE  (list' = list /\ (Quiet \/ Inserts(w))) \/ Remove(w)
    <2>1. CASE Insert(w) /\ list' = list
      BY <2>1, InsertEffect
    <2>2. CASE ~Create(w) /\ ~Delete(w) /\ ~ReplyLost(w)
      <3>1. Quiet
        BY <1>1, <2>2, NoStatement DEF Quiet
      <3>2. list' = list
        BY <1>1, <2>2 DEF WriterStep, Begin, FindTarget, Exists, CountFollowing, Mark, MarkFails, Publish,
               PublishFails, StatementFails
      <3>3. QED
        BY <3>1, <3>2
    <2>3. QED
      BY <2>1, <2>2 DEF Create, Delete, ReplyLost
  <1>2. CASE Replicate
    BY <1>2 DEF Replicate
  <1>3. CASE \E u \in Leaving : Deactivate(u)
    BY <1>3 DEF Deactivate, Quiet
  <1>4. CASE \E u \in Users : MarkerExpires(u)
    BY <1>4 DEF MarkerExpires, Quiet, dbVars
  <1>5. CASE UNCHANGED vars
    BY <1>5 DEF vars, dbVars, Quiet
  <1>6. QED
    BY <1>1, <1>2, <1>3, <1>4, <1>5 DEF Next

\* Every step keeps the lists.
LEMMA ListStep ==
    CtlInv /\ TabInv /\ ReplInv /\ MarkInv /\ ListInv /\ [Next]_vars => ListInv'
  <1> SUFFICES ASSUME CtlInv, TabInv, ReplInv, MarkInv, ListInv, [Next]_vars PROVE ListInv'
    OBVIOUS
  <1>0. DOMAIN list = Readers /\ \A r \in Readers : list[r] # NoList => list[r] \in Lists /\ Sound(list[r])
    BY DEF ListInv
  <1>s. ASSUME NEW r \in Readers, list'[r] # NoList, NEW l, list'[r] = l, Sound(l)'
        PROVE  Sound(list[r])'
    BY <1>s DEF Sound, Pending
  <1>1. CASE list' = list /\ (Quiet \/ Replicate \/ \E w \in Writers : Inserts(w))
    <2>1. ASSUME NEW r \in Readers, list'[r] # NoList
          PROVE  list'[r] \in Lists /\ Sound(list[r])'
      <3>1. PICK l \in Lists : l = list[r] /\ Sound(l) /\ list'[r] = l
        BY <1>0, <1>1, <2>1
      <3>2. Sound(l)'
        BY <1>1, <3>1, SoundStays
      <3>3. QED
        BY <1>s, <2>1, <3>1, <3>2
    <2>2. QED
      BY <1>0, <1>1, <2>1 DEF ListInv
  <1>2. ASSUME NEW w \in Writers, Remove(w)
        PROVE  ListInv'
    <2>0. list' = [r \in Readers |-> IF list[r] = NoList THEN NoList ELSE Without(list[r], EdgeOf(w))]
      BY <1>2 DEF Remove, Without, EdgeOf
    <2>1. ASSUME NEW r \in Readers, list'[r] # NoList
          PROVE  list'[r] \in Lists /\ Sound(list[r])'
      <3>1. list[r] # NoList /\ list'[r] = Without(list[r], EdgeOf(w))
        BY <2>0, <2>1
      <3>2. list[r] \in Lists /\ Sound(list[r])
        BY <1>0, <3>1
      <3>3. PICK l, rows : l = list[r] /\ rows = EdgeOf(w)
        OBVIOUS
      <3>4. PICK k : k = Without(l, rows)
        OBVIOUS
      <3>5. l \in Lists /\ Sound(l) /\ list'[r] = k
        BY <3>1, <3>2, <3>3, <3>4
      <3>6. k \in Lists /\ Sound(k)'
        BY <1>2, <3>3, <3>4, <3>5, SoundWithout
      <3>7. QED
        BY <1>s, <2>1, <3>5, <3>6
    <2>2. QED
      BY <2>0, <2>1 DEF ListInv
  <1>3. ASSUME NEW r \in Readers, ReaderStep(r)
        PROVE  ListInv'
    <2>1. ASSUME ListQuery(r) \/ ListQueryFails(r)
          PROVE  ListInv'
      <3>1. list' = [list EXCEPT ![r] = NoList] /\ UNCHANGED dbVars
        BY <2>1 DEF ListQuery, ListQueryFails
      <3>2. ASSUME NEW s \in Readers, list'[s] # NoList
            PROVE  list'[s] \in Lists /\ Sound(list[s])'
        <4>1. list'[s] = list[s]
          BY <1>0, <3>1, <3>2
        <4>2. list[s] \in Lists /\ Sound(list[s])
          BY <1>0, <3>2, <4>1
        <4>3. QED
          BY <3>1, <4>1, <4>2 DEF dbVars, Sound, Pending
      <3>3. QED
        BY <1>0, <3>1, <3>2 DEF ListInv
    <2>2. ASSUME NEW a \in Asked, NEW cursor \in 0..(nextId - 1), NEW size \in Sizes, NEW probed \in BOOLEAN,
                 ListBegin(r, a[1], a[2], cursor, size, probed)
          PROVE  ListInv'
      <3>1. a[1] \in Users /\ a[2] \in {"followers", "following"} /\ size \in Int
        BY FollowConstants
      <3>2. cursor \in Nat
        BY DEF TabInv
      <3>3. QED
        BY <2>2, <3>1, <3>2, ListBegins
    <2>3. QED
      BY <1>3, <2>1, <2>2 DEF ReaderStep, ListBeginHasFails
  <1>4. QED
    BY <1>1, <1>2, <1>3, ListSteps

ReadInv == CtlInv /\ TabInv /\ ReplInv /\ MarkInv /\ ListInv

\* What readers count on always holds.
LEMMA ReadInvariance == Spec => []ReadInv
  <1>1. Init => MarkInv
    BY DEF Init, MarkInv, Pending
  <1>2. Init => ListInv
    BY DEF Init, ListInv
  <1>3. MarkInv /\ ListInv /\ CtlInv /\ TabInv /\ ReplInv /\ [Next]_vars => MarkInv' /\ ListInv'
    BY MarkStep, ListStep
  <1>4. QED
    BY <1>1, <1>2, <1>3, ReplInvariance, PTL DEF Spec, ReadInv

\* What a list answers.
LEMMA AnswerIsRight ==
    ASSUME ReadInv, NEW r \in Readers, list[r] # NoList
    PROVE  /\ \A row \in list[r].must :
                 \/ row \in Page(r).rows
                 \/ Page(r).next # NoCursor /\ row.id < Page(r).next
                 \/ Other(row, list[r].q.dir) \in deleted
           /\ Page(r).rows \cap list[r].gone = {}
  <1> DEFINE l == list[r]
             q == l.q
             table == ReadTable(l.force)
             M == Matching(table, q)
  <1>1. l \in Lists /\ Sound(l) /\ q \in Query /\ q.size \in Nat \ {0}
    BY DEF ReadInv, ListInv, Lists, Query
  <1>2. Page(r) = BuildResp(Newest(M, q.size + 1), q.size)
    BY DEF Page
  <1>3. table \subseteq Known /\ IsFiniteSet(table) /\ (table = IF Split /\ ~l.force THEN replica ELSE follows)
    BY DEF ReadTable, Known, ReadInv, TabInv
  <1>4. table \subseteq Row
    BY <1>3 DEF ReadInv, TabInv
  <1>5. M \subseteq table
    BY DEF Matching
  <1>6. IsFiniteSet(M) /\ nextId \in Nat /\ \A s \in M : s.id \in Nat /\ s.id < nextId /\ s.id # NoCursor
    BY <1>3, <1>4, <1>5, FS_Subset DEF ReadInv, TabInv, Row
  <1>7. ASSUME NEW row \in l.must, Other(row, q.dir) \notin deleted
        PROVE  row \in Page(r).rows \/ (Page(r).next # NoCursor /\ row.id < Page(r).next)
    <2>1. row \in table /\ Pivot(row, q.dir) = q.user /\ Before(row, q.cursor)
      BY <1>1, <1>3 DEF Sound
    <2>2. row \in M
      BY <1>7, <2>1 DEF Matching
    <2>3. QED
      <3> HIDE DEF M
      <3>1. Listed(M, nextId)
        BY <1>6 DEF Listed
      <3>2. QED
        BY <1>1, <1>2, <1>6, <2>2, <3>1, PageIsComplete
  <1>8. ASSUME NEW row \in Page(r).rows
        PROVE  row \notin l.gone
    <2>1. row \in M
      BY <1>2 DEF BuildResp, Newest
    <2>2. row \in table /\ Pivot(row, q.dir) = q.user
      BY <2>1 DEF Matching
    <2>3. QED
      BY <1>1, <1>3, <2>2 DEF Sound
  <1>9. QED
    BY <1>7, <1>8

\* ReadYourWrites (write_marker.go, follow_service.go ListFollowers and
\* ListFollowing): a list shows every row written and marked when the request began,
\* on its page or below the cursor of the next one, and none deleted and marked then,
\* for every number of rows and every page size, whatever the replica has applied.
THEOREM ListsShowWrites == Spec => ReadYourWrites
  <1>1. ReadInv /\ [Next]_vars =>
          [\A r \in Readers : ListQuery(r) =>
             /\ \A row \in list[r].must :
                   \/ row \in Page(r).rows
                   \/ Page(r).next # NoCursor /\ row.id < Page(r).next
                   \/ Other(row, list[r].q.dir) \in deleted
             /\ Page(r).rows \cap list[r].gone = {}]_vars
    BY AnswerIsRight DEF ListQuery
  <1>2. QED
    BY <1>1, ReadInvariance, PTL DEF Spec, ReadYourWrites

=============================================================================
