--------------------------- MODULE PostFeedProofs ---------------------------
(***************************************************************************)
(* Proofs about PostFeed, for any constants: types, the deletion event,    *)
(* the compliance trail, the freshness of the cached feed and of what its  *)
(* readers get; then what the author sees of his own writes (AuthorPage).  *)
(***************************************************************************)
EXTENDS AuthorPage, TLAPS, NaturalsInduction, WellFoundedInduction

\* A commit stores a table.
LEMMA CommitType ==
  ASSUME NEW t \in Tables, db \in Tables, slave \in Tables, binlog \in Seq(Tables),
         Commit(t)
  PROVE  db' \in Tables /\ slave' \in Tables /\ binlog' \in Seq(Tables)
  BY PostFeedAssumption DEF Commit

\* Counting one more keeps a counter a counter.
LEMMA CountType ==
  ASSUME NEW f \in [Posts -> Nat], NEW p \in Posts
  PROVE  [f EXCEPT ![p] = @ + 1] \in [Posts -> Nat]
  OBVIOUS

\* A reader that is idle.
LEMMA NoRequestType == NoRequest \in Requests
  BY DEF NoRequest, Requests, ReadSteps

\* Taking posts off what requests owe leaves the rest of them, their versions
\* included; taking none off leaves them all.
LEMMA OwedType ==
  ASSUME TypeOK
  PROVE  /\ \A taken : NoLongerOwed(taken) \in [Readers -> Requests]
         /\ \A taken : \A r \in Readers : NoLongerOwed(taken)[r].ver = read[r].ver
         /\ NoLongerOwed({}) = read
  <1>1. read \in [Readers -> Requests]
    BY DEF TypeOK
  <1>2. ASSUME NEW taken, NEW r \in Readers
        PROVE  /\ [read[r] EXCEPT !.mustShow = @ \ taken] \in Requests
               /\ [read[r] EXCEPT !.mustShow = @ \ taken].ver = read[r].ver
    BY <1>1 DEF Requests
  <1>3. ASSUME NEW r \in Readers
        PROVE  [read[r] EXCEPT !.mustShow = @ \ {}] = read[r]
    <2>1. read[r].mustShow \ {} = read[r].mustShow
      OBVIOUS
    <2>2. QED
      BY <1>1, <2>1 DEF Requests
  <1>4. QED
    BY <1>1, <1>2, <1>3 DEF NoLongerOwed

\* Every variable keeps its type.
LEMMA TypeStep == TypeOK /\ [Next]_vars => TypeOK'
  <1> SUFFICES ASSUME TypeOK, [Next]_vars PROVE TypeOK'
    OBVIOUS
  <1> USE PostFeedAssumption
  <1>1. ASSUME NEW p \in Posts, CreateInsert(p) PROVE TypeOK'
    <2>1. [db EXCEPT !.status[p] = "pending"] \in Tables
      BY DEF TypeOK, Tables, Statuses
    <2>2. db' \in Tables /\ slave' \in Tables /\ binlog' \in Seq(Tables)
      BY <1>1, <2>1, CommitType DEF CreateInsert, NoCommit, TypeOK
    <2>3. create' \in [Posts -> CreateSteps]
      BY <1>1 DEF CreateInsert, TypeOK, CreateSteps
    <2>4. QED
      BY <1>1, <2>2, <2>3 DEF CreateInsert, TypeOK
  <1>2. ASSUME NEW p \in Posts, PublishAuditEvent(p) PROVE TypeOK'
    <2>t. queued \in [Posts -> Nat]
      BY DEF TypeOK
    <2>1. queued' \in [Posts -> Nat]
      BY <1>2, <2>t, CountType DEF PublishAuditEvent
    <2>2. QED
      BY <1>2, <2>1 DEF PublishAuditEvent, TypeOK, CreateSteps
  <1>3. ASSUME NEW p \in Posts, CreateBump(p) PROVE TypeOK'
    BY <1>3 DEF CreateBump, BumpFeedVersion, TypeOK, CreateSteps
  <1>4. ASSUME NEW p \in Posts, Redeliver(p) PROVE TypeOK'
    BY <1>4 DEF Redeliver, TypeOK
  <1>5. ASSUME NEW d \in Deleters, NEW p \in Posts, BeginDelete(d, p) PROVE TypeOK'
    BY <1>5 DEF BeginDelete, TypeOK, DeleteSteps
  <1>6. ASSUME NEW d \in Deleters, NEW step \in DeleteSteps, DeleteGoto(d, step)
        PROVE  del' \in [Deleters -> [step : DeleteSteps, post : Posts]]
    BY <1>6 DEF DeleteGoto, TypeOK
  <1>7. ASSUME NEW d \in Deleters, DeleteFind(d) PROVE TypeOK'
    BY <1>6, <1>7 DEF DeleteFind, TypeOK, DeleteSteps
  <1>8. ASSUME NEW d \in Deleters, SoftDeleteByOwner(d) PROVE TypeOK'
    <2>1. [db EXCEPT !.deleted = @ \cup {del[d].post}] \in Tables
      BY DEF TypeOK, Tables
    <2>2. db' \in Tables /\ slave' \in Tables /\ binlog' \in Seq(Tables)
      BY <1>8, <2>1, CommitType DEF SoftDeleteByOwner, TypeOK, NoCommit
    <2>3. del' \in [Deleters -> [step : DeleteSteps, post : Posts]]
      BY <1>6, <1>8 DEF SoftDeleteByOwner, DeleteSteps
    <2>4. QED
      BY <1>8, <2>2, <2>3 DEF SoftDeleteByOwner, TypeOK
  <1>9. ASSUME NEW d \in Deleters, PublishPostDeletedEvent(d) PROVE TypeOK'
    <2>1. del' \in [Deleters -> [step : DeleteSteps, post : Posts]]
      BY <1>6, <1>9 DEF PublishPostDeletedEvent, DeleteSteps
    <2>t. delEvents \in [Posts -> Nat] /\ del[d].post \in Posts
      BY DEF TypeOK
    <2>2. delEvents' \in [Posts -> Nat]
      BY <1>9, <2>t, CountType DEF PublishPostDeletedEvent
    <2>3. QED
      BY <1>9, <2>1, <2>2 DEF PublishPostDeletedEvent, TypeOK
  <1>10. ASSUME NEW d \in Deleters, DeleteBump(d) PROVE TypeOK'
    <2>1. del' \in [Deleters -> [step : DeleteSteps, post : Posts]]
      BY <1>6, <1>10 DEF DeleteBump, DeleteSteps
    <2>2. ver' \in Nat /\ cache' = cache /\ missed' \subseteq Posts
      BY <1>10 DEF DeleteBump, BumpFeedVersion, TypeOK
    <2>3. QED
      BY <1>10, <2>1, <2>2 DEF DeleteBump, TypeOK
  <1>11. ASSUME NEW p \in Posts, AuditReceive(p) PROVE TypeOK'
    <2>1. audit' \in [step : AuditSteps, post : Posts, verdict : Verdicts]
      BY <1>11 DEF AuditReceive, TypeOK, AuditSteps
    <2>2. queued' \in [Posts -> Nat]
      BY <1>11 DEF AuditReceive, TypeOK
    <2>3. QED
      BY <1>11, <2>1, <2>2 DEF AuditReceive, TypeOK
  <1>12. CASE AuditFind \/ AuditReview \/ AuditLogCreate
    <2>1. audit' \in [step : AuditSteps, post : Posts, verdict : Verdicts]
      BY <1>12 DEF AuditFind, AuditReview, AuditLogCreate, Verdict, AuditGiveUp, AuditGoto, TypeOK,
                   AuditSteps
    <2>2. auditLog' \subseteq Posts \X Verdicts
      BY <1>12 DEF AuditFind, AuditReview, AuditLogCreate, TypeOK
    <2>3. QED
      BY <1>12, <2>1, <2>2 DEF AuditFind, AuditReview, AuditLogCreate, AuditGiveUp, TypeOK
  <1>13. CASE UpdateAuditStatus
    <2>1. \A verdict \in Statuses : [db EXCEPT !.status[audit.post] = verdict] \in Tables
      BY DEF TypeOK, Tables
    <2>2. \E verdict \in Statuses :
             NoCommit \/ Commit([db EXCEPT !.status[audit.post] = verdict])
      BY <1>13 DEF UpdateAuditStatus, Statuses, Verdicts, TypeOK
    <2>3. db' \in Tables /\ slave' \in Tables /\ binlog' \in Seq(Tables)
      BY <2>1, <2>2, CommitType DEF TypeOK, NoCommit
    <2>4. audit' \in [step : AuditSteps, post : Posts, verdict : Verdicts]
      BY <1>13 DEF UpdateAuditStatus, AuditGiveUp, AuditGoto, AuditSteps, TypeOK
    <2>5. missed' \subseteq Posts
      BY <1>13 DEF UpdateAuditStatus, AuditGiveUp, TakenBack, TypeOK
    <2>6. read' \in [Readers -> Requests]
      BY <1>13, OwedType DEF UpdateAuditStatus, TypeOK
    <2>7. QED
      BY <1>13, <2>3, <2>4, <2>5, <2>6 DEF UpdateAuditStatus, AuditGiveUp, TypeOK
  <1>14. CASE AuditBump
    <2>1. ver' \in Nat /\ cache' = cache /\ missed' \subseteq Posts
      BY <1>14 DEF AuditBump, BumpFeedVersion, TypeOK
    <2>2. audit' \in [step : AuditSteps, post : Posts, verdict : Verdicts]
      BY <1>14 DEF AuditBump, AuditGoto, AuditSteps, TypeOK
    <2>3. QED
      BY <1>14, <2>1, <2>2 DEF AuditBump, TypeOK
  <1>15. ASSUME NEW r \in Readers, NEW q \in Requests, read' = [read EXCEPT ![r] = q]
         PROVE  read' \in [Readers -> Requests]
    BY <1>15 DEF TypeOK
  <1>16. ASSUME NEW r \in Readers, BeginRead(r) PROVE TypeOK'
    <2> DEFINE q == [step |-> "getVer", ver |-> 0, cached |-> FALSE, page |-> {},
                     mustShow |-> Settled \cap Visible(db),
                     mustHide |-> Settled \cap db.deleted]
    <2>1. Settled \subseteq Posts
      BY DEF Settled
    <2>2. q \in Requests
      BY <2>1 DEF Requests, ReadSteps
    <2>3. read' = [read EXCEPT ![r] = q]
      BY <1>16 DEF BeginRead
    <2> HIDE DEF q
    <2>4. QED
      BY <1>15, <1>16, <2>2, <2>3 DEF BeginRead, TypeOK
  <1>17. ASSUME NEW r \in Readers, NEW step \in ReadSteps
         PROVE  [read[r] EXCEPT !.step = step] \in Requests
    BY <1>17 DEF TypeOK, Requests
  <1>18. ASSUME NEW r \in Readers, NEW step \in ReadSteps, NEW page \in SUBSET Posts
         PROVE  [read[r] EXCEPT !.step = step, !.page = page] \in Requests
    BY <1>18 DEF TypeOK, Requests
  <1>19. ASSUME NEW r \in Readers, GetFeedVersion(r) PROVE TypeOK'
    <2>1. [read[r] EXCEPT !.step = "getFeed", !.ver = ver, !.cached = TRUE] \in Requests
      BY DEF TypeOK, Requests, ReadSteps
    <2>2. \E q \in Requests : read' = [read EXCEPT ![r] = q]
      BY <1>17, <1>19, <2>1 DEF GetFeedVersion, ReadSteps
    <2>3. read' \in [Readers -> Requests]
      BY <1>15, <2>2
    <2>4. QED
      BY <1>19, <2>3 DEF GetFeedVersion, TypeOK
  <1>20. ASSUME NEW r \in Readers, GetFeed(r) PROVE TypeOK'
    <2>1. \A entry \in cache : entry[2] \in SUBSET Posts
      BY DEF TypeOK
    <2>2. \E q \in Requests : read' = [read EXCEPT ![r] = q]
      BY <1>17, <1>18, <1>20, <2>1 DEF GetFeed, ReadSteps
    <2>3. read' \in [Readers -> Requests]
      BY <1>15, <2>2
    <2>4. QED
      BY <1>20, <2>3 DEF GetFeed, TypeOK
  <1>21. ASSUME NEW r \in Readers, ListFeedQuery(r) PROVE TypeOK'
    <2>1. Visible(slave) \in SUBSET Posts
      BY DEF Visible
    <2>2. \E q \in Requests : read' = [read EXCEPT ![r] = q]
      BY <1>17, <1>18, <1>21, <2>1, NoRequestType DEF ListFeedQuery, ReadSteps
    <2>3. read' \in [Readers -> Requests]
      BY <1>15, <2>2
    <2>4. missed' \subseteq Posts
      BY <1>21 DEF ListFeedQuery, Differing, Visible, TypeOK
    <2>5. QED
      BY <1>21, <2>3, <2>4 DEF ListFeedQuery, TypeOK
  <1>22. ASSUME NEW r \in Readers, SetFeed(r) \/ Respond(r) PROVE TypeOK'
    <2>1. \E q \in Requests : read' = [read EXCEPT ![r] = q]
      BY <1>17, <1>22, NoRequestType DEF SetFeed, Respond, ReadSteps
    <2>2. read' \in [Readers -> Requests]
      BY <1>15, <2>1
    <2>3. <<read[r].ver, read[r].page>> \in Nat \X SUBSET Posts
      BY DEF TypeOK, Requests
    <2>4. cache' \subseteq Nat \X SUBSET Posts
      BY <1>22, <2>3 DEF SetFeed, Respond, TypeOK
    <2>5. QED
      BY <1>22, <2>2, <2>4 DEF SetFeed, Respond, TypeOK
  <1>23. CASE Replicate
    BY <1>23 DEF Replicate, TypeOK
  <1>24. CASE ExpirePage
    BY <1>24 DEF ExpirePage, TypeOK
  <1>25. CASE UNCHANGED vars
    BY <1>25 DEF vars, TypeOK
  <1>26. QED
    BY <1>1, <1>2, <1>3, <1>4, <1>5, <1>7, <1>8, <1>9, <1>10, <1>11, <1>12, <1>13,
       <1>14, <1>16, <1>19, <1>20, <1>21, <1>22, <1>23, <1>24, <1>25
       DEF Next, CreateStep, DeleteStep, AuditStep, ReadStep

\* The initial state is well typed.
LEMMA TypeInit == Init => TypeOK
  BY DEF Init, TypeOK, Tables, Statuses, Verdicts, CreateSteps, DeleteSteps, AuditSteps, ReadSteps,
         Requests, NoRequest

\* Every variable has its type in every state, with or without a replica.
THEOREM TypeCorrectness == Spec => []TypeOK
  BY TypeInit, TypeStep, PTL DEF Spec

-----------------------------------------------------------------------------

\* Only SoftDeleteByOwner touches deleted_at.
LEMMA DeletedSame ==
  ASSUME TypeOK, [Next]_vars, \A d \in Deleters : ~SoftDeleteByOwner(d)
  PROVE  db'.deleted = db.deleted
  <1>1. ASSUME NEW p \in Posts, CreateInsert(p) PROVE db'.deleted = db.deleted
    BY <1>1 DEF CreateInsert, Commit, NoCommit, TypeOK, Tables
  <1>2. CASE UpdateAuditStatus
    BY <1>2 DEF UpdateAuditStatus, Commit, NoCommit, TypeOK, Tables
  <1>3. CASE db' = db
    BY <1>3
  <1>4. QED
    BY <1>1, <1>2, <1>3
       DEF Next, vars, CreateStep, PublishAuditEvent, CreateBump, Redeliver, DeleteStep,
           BeginDelete, DeleteFind, PublishPostDeletedEvent, DeleteBump, ReadStep, BeginRead,
           GetFeedVersion, GetFeed, ListFeedQuery, SetFeed, Respond, AuditStep, AuditReceive,
           AuditFind, AuditReview, AuditLogCreate, AuditBump, Replicate, ExpirePage

\* The deleters' invariant is inductive: the row decides who goes on.
LEMMA DeleteInvStep == TypeOK /\ DeleteInv /\ [Next]_vars => DeleteInv'
  <1> SUFFICES ASSUME TypeOK, DeleteInv, [Next]_vars PROVE DeleteInv'
    OBVIOUS
  <1> USE DEF DeleteInv, DeleteGoto
  <1>1. ASSUME NEW d \in Deleters, SoftDeleteByOwner(d) PROVE DeleteInv'
    <2>1. del[d].post \in Posts /\ del \in [Deleters -> [step : DeleteSteps, post : Posts]]
      BY DEF TypeOK
    <2>2. CASE /\ Found(db, del[d].post)
               /\ Commit([db EXCEPT !.deleted = @ \cup {del[d].post}])
               /\ DeleteGoto(d, "publish")
      <3>1. db'.deleted = db.deleted \cup {del[d].post}
        BY <2>2 DEF Commit, TypeOK, Tables
      <3>2. del' = [del EXCEPT ![d].step = "publish"] /\ delEvents' = delEvents
        BY <1>1, <2>2 DEF SoftDeleteByOwner
      <3>3. del[d].post \notin db.deleted
        BY <2>2 DEF Found
      <3>4. QED
        BY <2>1, <3>1, <3>2, <3>3
    <2>3. CASE NoCommit /\ DeleteGoto(d, "returned")
      BY <1>1, <2>1, <2>3 DEF SoftDeleteByOwner, NoCommit
    <2>4. QED
      BY <1>1, <2>2, <2>3 DEF SoftDeleteByOwner
  <1>2. ASSUME \A d \in Deleters : ~SoftDeleteByOwner(d) PROVE DeleteInv'
    <2>1. db'.deleted = db.deleted
      BY <1>2, DeletedSame
    <2>2. del \in [Deleters -> [step : DeleteSteps, post : Posts]] /\ delEvents \in [Posts -> Nat]
      BY DEF TypeOK
    <2>3. ASSUME NEW d \in Deleters, NEW p \in Posts, BeginDelete(d, p) PROVE DeleteInv'
      BY <2>1, <2>2, <2>3 DEF BeginDelete
    <2>4. ASSUME NEW d \in Deleters, DeleteFind(d) PROVE DeleteInv'
      BY <2>1, <2>2, <2>4 DEF DeleteFind
    <2>5. ASSUME NEW d \in Deleters, PublishPostDeletedEvent(d) PROVE DeleteInv'
      BY <2>1, <2>2, <2>5 DEF PublishPostDeletedEvent
    <2>6. ASSUME NEW d \in Deleters, DeleteBump(d) PROVE DeleteInv'
      BY <2>1, <2>2, <2>6 DEF DeleteBump
    <2>7. CASE UNCHANGED <<del, delEvents>>
      BY <2>1, <2>7
    <2>8. QED
      BY <1>2, <2>3, <2>4, <2>5, <2>6, <2>7
         DEF Next, vars, CreateStep, CreateInsert, PublishAuditEvent, CreateBump, Redeliver,
             DeleteStep, ReadStep, BeginRead, GetFeedVersion, GetFeed, ListFeedQuery, SetFeed,
             Respond, AuditStep, AuditReceive, AuditFind, AuditReview, AuditLogCreate, UpdateAuditStatus,
             AuditBump, Replicate, ExpirePage
  <1>3. QED
    BY <1>1, <1>2

\* DeletedEventOnce follows from the deleters' invariant step by step.
LEMMA EventOnceStep ==
  TypeOK /\ DeleteInv /\ DeletedEventOnce /\ [Next]_vars => DeletedEventOnce'
  <1> SUFFICES ASSUME TypeOK, DeleteInv, DeletedEventOnce, [Next]_vars
               PROVE  DeletedEventOnce'
    OBVIOUS
  <1>1. ASSUME NEW d \in Deleters, PublishPostDeletedEvent(d) PROVE DeletedEventOnce'
    <2>1. delEvents[del[d].post] = 0 /\ delEvents \in [Posts -> Nat]
      BY <1>1 DEF PublishPostDeletedEvent, DeleteInv, TypeOK
    <2>2. QED
      BY <1>1, <2>1 DEF PublishPostDeletedEvent, DeletedEventOnce
  <1>2. CASE delEvents' = delEvents
    BY <1>2 DEF DeletedEventOnce
  <1>3. QED
    BY <1>1, <1>2
       DEF Next, vars, CreateStep, CreateInsert, PublishAuditEvent, CreateBump, Redeliver,
           DeleteStep, BeginDelete, DeleteFind, SoftDeleteByOwner, DeleteBump, ReadStep,
           BeginRead, GetFeedVersion, GetFeed, ListFeedQuery, SetFeed, Respond, AuditStep,
           AuditReceive, AuditFind, AuditReview, AuditLogCreate, UpdateAuditStatus, AuditBump, Replicate,
           ExpirePage

\* However many Deletes of a post run at once and whatever the replica shows
\* them, the author's post_count is decremented by at most one event.
THEOREM OneDeletedEvent == Spec => []DeletedEventOnce
  <1>1. Init => DeleteInv /\ DeletedEventOnce
    BY DEF Init, DeleteInv, DeletedEventOnce
  <1>2. QED
    BY <1>1, TypeCorrectness, DeleteInvStep, EventOnceStep, PTL DEF Spec

-----------------------------------------------------------------------------
(* The compliance trail *)

\* The verdict AuditConsumer is about to write to the post is in audit_log.
LoggedInv ==
  ~MySQLMayFail =>
      (audit.step = "update" => <<audit.post, audit.verdict>> \in auditLog)

\* Only UpdateAuditStatus gives a verdict, after the row was written.
LEMMA LoggedStep ==
  TypeOK /\ LoggedInv /\ VerdictLogged /\ [Next]_vars => LoggedInv' /\ VerdictLogged'
  <1> SUFFICES ASSUME TypeOK, LoggedInv, VerdictLogged, [Next]_vars, ~MySQLMayFail
               PROVE  LoggedInv' /\ VerdictLogged'
    BY DEF LoggedInv, VerdictLogged
  <1>t. /\ db.status \in [Posts -> Statuses]
        /\ audit \in [step : AuditSteps, post : Posts, verdict : Verdicts]
    BY DEF TypeOK, Tables
  <1>1. ASSUME NEW p \in Posts, CreateInsert(p) PROVE LoggedInv' /\ VerdictLogged'
    <2>1. db'.status = [db.status EXCEPT ![p] = "pending"] /\ UNCHANGED <<audit, auditLog>>
      BY <1>1 DEF CreateInsert, Commit, NoCommit, TypeOK, Tables
    <2>2. QED
      BY <1>t, <2>1 DEF LoggedInv, VerdictLogged, Verdicts
  <1>2. ASSUME NEW d \in Deleters, SoftDeleteByOwner(d) PROVE LoggedInv' /\ VerdictLogged'
    <2>1. db'.status = db.status /\ UNCHANGED <<audit, auditLog>>
      BY <1>2 DEF SoftDeleteByOwner, Commit, NoCommit, TypeOK, Tables
    <2>2. QED
      BY <2>1 DEF LoggedInv, VerdictLogged
  <1>3. CASE UpdateAuditStatus
    <2>1. /\ audit.step = "update" /\ auditLog' = auditLog /\ audit'.step # "update"
          /\ \/ db'.status = [db.status EXCEPT ![audit.post] = audit.verdict]
             \/ db'.status = db.status
      BY <1>3, <1>t DEF UpdateAuditStatus, Commit, NoCommit, AuditGoto, TypeOK, Tables
    <2>2. QED
      BY <1>t, <2>1 DEF LoggedInv, VerdictLogged
  <1>4. CASE AuditLogCreate
    <2>1. /\ auditLog' = auditLog \cup {<<audit.post, audit.verdict>>} /\ db' = db
          /\ audit'.post = audit.post /\ audit'.verdict = audit.verdict
      BY <1>4, <1>t DEF AuditLogCreate, AuditGoto
    <2>2. QED
      BY <2>1 DEF LoggedInv, VerdictLogged
  <1>5. ASSUME NEW p \in Posts, AuditReceive(p) PROVE LoggedInv' /\ VerdictLogged'
    <2>1. audit'.step = "find" /\ UNCHANGED <<db, auditLog>>
      BY <1>5, <1>t DEF AuditReceive
    <2>2. QED
      BY <2>1 DEF LoggedInv, VerdictLogged
  <1>6. CASE AuditFind \/ AuditReview \/ AuditBump
    <2>1. audit'.step # "update" /\ UNCHANGED <<db, auditLog>>
      BY <1>6, <1>t DEF AuditFind, AuditReview, AuditBump, AuditGiveUp, AuditGoto, Verdict
    <2>2. QED
      BY <2>1 DEF LoggedInv, VerdictLogged
  <1>7. CASE UNCHANGED <<db, audit, auditLog>>
    BY <1>7 DEF LoggedInv, VerdictLogged
  <1>8. QED
    BY <1>1, <1>2, <1>3, <1>4, <1>5, <1>6, <1>7
       DEF Next, vars, CreateStep, PublishAuditEvent, CreateBump, Redeliver, DeleteStep,
           BeginDelete, DeleteFind, PublishPostDeletedEvent, DeleteBump, ReadStep, BeginRead,
           GetFeedVersion, GetFeed, ListFeedQuery, SetFeed, Respond, AuditStep, Replicate,
           ExpirePage

\* While MySQL answers no post carries a verdict without its audit_log row, for
\* any number of posts and redeliveries and with or without a replica.
THEOREM ComplianceTrail == Spec => []VerdictLogged
  <1>1. Init => LoggedInv /\ VerdictLogged
    BY DEF Init, LoggedInv, VerdictLogged, Verdicts
  <1>2. QED
    BY <1>1, TypeCorrectness, LoggedStep, PTL DEF Spec

-----------------------------------------------------------------------------
(***************************************************************************)
(* The freshness of the feed.  A write takes the posts it changes out of   *)
(* those a page must be right about until its bump; a request owes only    *)
(* posts on which all states of the table agree, so whatever it reads, and *)
(* whenever, answers it.                                                   *)
(***************************************************************************)

\* A write on the master that undoes no deletion, a step of the replica, or neither.
TableMoves ==
    \/ UNCHANGED <<db, slave, binlog>>
    \/ \E t \in Tables : db.deleted \subseteq t.deleted /\ Commit(t)
    \/ Replicate
\* What a step of PostFeed does to the tables.
LEMMA TablesMove ==
  ASSUME TypeOK, [Next]_vars
  PROVE  TableMoves
  <1>1. ASSUME NEW p \in Posts, CreateInsert(p) PROVE TableMoves
    <2>1. PICK t : t = [db EXCEPT !.status[p] = "pending"]
      OBVIOUS
    <2>2. t \in Tables /\ t.deleted = db.deleted
      BY <2>1 DEF TypeOK, Tables, Statuses
    <2>3. Commit(t) \/ NoCommit
      BY <1>1, <2>1 DEF CreateInsert
    <2>4. QED
      BY <2>2, <2>3 DEF TableMoves, NoCommit
  <1>2. ASSUME NEW d \in Deleters, SoftDeleteByOwner(d) PROVE TableMoves
    <2>1. PICK t : t = [db EXCEPT !.deleted = @ \cup {del[d].post}]
      OBVIOUS
    <2>2. t \in Tables /\ db.deleted \subseteq t.deleted
      BY <2>1 DEF TypeOK, Tables
    <2>3. Commit(t) \/ NoCommit
      BY <1>2, <2>1 DEF SoftDeleteByOwner
    <2>4. QED
      BY <2>2, <2>3 DEF TableMoves, NoCommit
  <1>3. CASE UpdateAuditStatus
    <2>1. PICK t : t = [db EXCEPT !.status[audit.post] = audit.verdict]
      OBVIOUS
    <2>2. t \in Tables /\ t.deleted = db.deleted
      BY <2>1 DEF TypeOK, Tables, Statuses, Verdicts
    <2>3. Commit(t) \/ NoCommit
      BY <1>3, <2>1 DEF UpdateAuditStatus
    <2>4. QED
      BY <2>2, <2>3 DEF TableMoves, NoCommit
  <1>4. CASE Replicate
    BY <1>4 DEF TableMoves
  <1>5. CASE UNCHANGED <<db, slave, binlog>>
    BY <1>5 DEF TableMoves
  <1>6. QED
    BY <1>1, <1>2, <1>3, <1>4, <1>5
       DEF Next, vars, CreateStep, PublishAuditEvent, CreateBump, Redeliver, DeleteStep,
           BeginDelete, DeleteFind, PublishPostDeletedEvent, DeleteBump, ReadStep, BeginRead,
           GetFeedVersion, GetFeed, ListFeedQuery, SetFeed, Respond, AuditStep, AuditReceive,
           AuditFind, AuditReview, AuditLogCreate, AuditBump, ExpirePage

\* A step adds at most the master's state to the states of the table, and undoes
\* no deletion.
LEMMA StatesMove ==
  ASSUME TypeOK, TableMoves
  PROVE  /\ \A t \in TableStates' : t = db' \/ t \in TableStates
         /\ db.deleted \subseteq db'.deleted
  <1>0. binlog \in Seq(Tables) /\ Len(binlog) \in Nat /\ DOMAIN binlog = 1..Len(binlog)
    BY DEF TypeOK
  <1>1. CASE UNCHANGED <<db, slave, binlog>>
    BY <1>1 DEF TableStates
  <1>2. ASSUME NEW t \in Tables, db.deleted \subseteq t.deleted, Commit(t)
        PROVE  /\ \A u \in TableStates' : u = db' \/ u \in TableStates
               /\ db.deleted \subseteq db'.deleted
    <2>1. db' = t
      BY <1>2 DEF Commit
    <2>2. CASE Split
      <3>1. slave' = slave /\ binlog' = Append(binlog, t)
        BY <1>2, <2>2 DEF Commit
      <3>2. DOMAIN binlog' = 1..Len(binlog) + 1
        BY <1>0, <3>1
      <3>3. \A i \in 1..Len(binlog) + 1 : binlog'[i] = IF i = Len(binlog) + 1 THEN t ELSE binlog[i]
        BY <1>0, <3>1
      <3>4. ASSUME NEW i \in DOMAIN binlog' PROVE binlog'[i] = db' \/ binlog'[i] \in TableStates
        <4>1. CASE i = Len(binlog) + 1
          BY <2>1, <3>2, <3>3, <3>4, <4>1
        <4>2. CASE i # Len(binlog) + 1
          <5>1. i \in DOMAIN binlog /\ binlog'[i] = binlog[i]
            BY <1>0, <3>2, <3>3, <3>4, <4>2
          <5>2. QED
            BY <5>1 DEF TableStates
        <4>3. QED
          BY <4>1, <4>2
      <3>5. QED
        BY <1>2, <2>1, <3>1, <3>4 DEF TableStates
    <2>3. CASE ~Split
      BY <1>2, <2>1, <2>3 DEF Commit, TableStates
    <2>4. QED
      BY <2>2, <2>3
  <1>3. CASE Replicate
    <2>1. /\ binlog # <<>> /\ slave' = Head(binlog) /\ binlog' = Tail(binlog) /\ db' = db
      BY <1>3 DEF Replicate
    <2>2. /\ Len(binlog) > 0 /\ slave' = binlog[1] /\ 1 \in DOMAIN binlog
      BY <1>0, <2>1
    <2>3. /\ DOMAIN binlog' = 1..Len(binlog) - 1
          /\ \A i \in 1..Len(binlog) - 1 : binlog'[i] = binlog[i + 1] /\ i + 1 \in DOMAIN binlog
      BY <1>0, <2>1
    <2>4. slave' \in TableStates /\ \A i \in DOMAIN binlog' : binlog'[i] \in TableStates
      BY <2>2, <2>3 DEF TableStates
    <2>5. QED
      BY <2>1, <2>4 DEF TableStates
  <1>4. QED
    BY <1>1, <1>2, <1>3 DEF TableMoves

\* The part of FeedInv that speaks about pages and requests.
PageInv == PagesUpToDate /\ OwedByAll /\ PagesServe

\* A step of a writer, of AuditConsumer or of the replica: it takes the posts whose
\* visibility it changes out of what a page is right about, and the approvals it
\* takes back out of what requests owe.
Writes ==
  /\ TableMoves
  /\ UNCHANGED <<cache, ver>>
  /\ \A r \in Readers :
        /\ read'[r].step = read[r].step /\ read'[r].ver = read[r].ver
        /\ read'[r].page = read[r].page /\ read'[r].mustHide = read[r].mustHide
        /\ read'[r].mustShow \subseteq read[r].mustShow
        /\ \A p \in read'[r].mustShow : db.status[p] = "pass" => db'.status[p] = "pass"
  /\ Pending \cup missed \subseteq Pending' \cup missed'
  /\ \A p \in Posts : (p \in Visible(db)' <=> p \in Visible(db)) \/ p \in Pending' \cup missed'

\* Such a step keeps the pages right.
LEMMA WritesKeep ==
  ASSUME TypeOK, PageInv, Writes
  PROVE  PageInv'
  <1>1. /\ \A t \in TableStates' : t = db' \/ t \in TableStates
        /\ db.deleted \subseteq db'.deleted
    BY StatesMove DEF Writes
  <1>2. \A page : UpToDate(page) => UpToDate(page)'
    BY DEF Writes, UpToDate
  <1>3. PagesUpToDate'
    BY <1>2 DEF Writes, PageInv, PagesUpToDate
  <1>4. ASSUME NEW r \in Readers PROVE read[r].mustShow \subseteq Posts /\ read[r].mustHide \subseteq Posts
    BY DEF TypeOK, Requests
  <1>5. ASSUME NEW r \in Readers, NEW p \in read'[r].mustShow
        PROVE  p \in Posts /\ (p \in Visible(db)' => p \in Visible(db)) /\ db'.status[p] = "pass"
    <2>1. p \in read[r].mustShow /\ (db.status[p] = "pass" => db'.status[p] = "pass")
      BY DEF Writes
    <2>2. p \in Posts /\ db.status[p] = "pass"
      BY <1>4, <2>1 DEF PageInv, OwedByAll
    <2>3. QED
      BY <1>1, <2>1, <2>2 DEF Visible
  <1>6. ASSUME NEW r \in Readers
        PROVE  /\ \A p \in read'[r].mustHide :
                     p \in db'.deleted /\ \A t \in TableStates' : p \notin Visible(t)
               /\ \A p \in read'[r].mustShow :
                     /\ db'.status[p] = "pass"
                     /\ p \in Visible(db') => \A t \in TableStates' : p \in Visible(t)
    <2>1. ASSUME NEW p \in read'[r].mustHide
          PROVE  p \in db'.deleted /\ \A t \in TableStates' : p \notin Visible(t)
      <3>1. p \in db.deleted /\ \A t \in TableStates : p \notin Visible(t)
        BY DEF Writes, PageInv, OwedByAll
      <3>2. p \in db'.deleted /\ p \notin Visible(db')
        BY <1>1, <3>1 DEF Visible
      <3>3. QED
        BY <1>1, <3>1, <3>2
    <2>2. ASSUME NEW p \in read'[r].mustShow
          PROVE  /\ db'.status[p] = "pass"
                 /\ p \in Visible(db') => \A t \in TableStates' : p \in Visible(t)
      <3>1. p \in read[r].mustShow
        BY DEF Writes
      <3>2. p \in Visible(db) => \A t \in TableStates : p \in Visible(t)
        BY <3>1 DEF PageInv, OwedByAll
      <3>3. p \in Visible(db') => p \in Visible(db)
        BY <1>5 DEF Visible
      <3>4. QED
        BY <1>1, <1>5, <3>2, <3>3
    <2>3. QED
      BY <2>1, <2>2
  <1>7. OwedByAll'
    BY <1>6 DEF OwedByAll, Visible
  <1>8. ASSUME NEW r \in Readers, NEW page, Serves(r, page) PROVE Serves(r, page)'
    <2>1. read'[r].mustHide = read[r].mustHide /\ read'[r].mustShow \subseteq read[r].mustShow
      BY DEF Writes
    <2>2. QED
      BY <1>5, <1>8, <2>1 DEF Serves
  <1>9. ASSUME NEW r \in Readers
        PROVE  /\ read'[r].step = read[r].step /\ read'[r].ver = read[r].ver
               /\ read'[r].page = read[r].page /\ LookedUp(r)' = LookedUp(r)
    BY DEF Writes, LookedUp
  <1>10. PagesServe'
    <2>1. ASSUME NEW r \in Readers, read[r].step \in {"set", "respond"}
          PROVE  Serves(r, read[r].page)'
      <3>1. read'[r].page = read[r].page /\ Serves(r, read[r].page)
        BY <1>9, <2>1 DEF PageInv, PagesServe
      <3>2. PICK page : page = read[r].page
        OBVIOUS
      <3>3. Serves(r, page)'
        BY <1>8, <3>1, <3>2
      <3>4. QED
        BY <3>1, <3>2, <3>3
    <2>2. ASSUME NEW r \in Readers, read[r].step \in {"getVer", "getFeed"},
                 NEW entry \in cache, entry[1] = LookedUp(r)
          PROVE  Serves(r, entry[2])'
      BY <1>8, <2>2 DEF PageInv, PagesServe
    <2>3. ASSUME NEW r \in Readers, read[r].step \in {"getVer", "getFeed"},
                 NEW q \in Readers, read[q].step = "set", read[q].ver = LookedUp(r)
          PROVE  Serves(r, read[q].page)'
      <3>1. read'[q].page = read[q].page /\ Serves(r, read[q].page)
        BY <1>9, <2>3 DEF PageInv, PagesServe
      <3>2. PICK page : page = read[q].page
        OBVIOUS
      <3>3. Serves(r, page)'
        BY <1>8, <3>1, <3>2
      <3>4. QED
        BY <3>1, <3>2, <3>3
    <2>4. cache' = cache
      BY DEF Writes
    <2>5. QED
      BY <1>9, <2>1, <2>2, <2>3, <2>4 DEF PagesServe
  <1>11. QED
    BY <1>3, <1>7, <1>10 DEF PageInv

\* After a bump no page is current.
LEMMA BumpKeeps ==
  ASSUME TypeOK, PageInv, VersionInv, UNCHANGED <<db, slave, binlog, cache, read>>, ver' = ver + 1
  PROVE  PageInv'
  <1>1. \A entry \in cache : entry[1] \in Nat /\ entry[1] # ver'
    BY DEF VersionInv, TypeOK
  <1>2. \A r \in Readers : read[r].ver # ver'
    BY DEF VersionInv, TypeOK, Requests
  <1>3. PagesUpToDate'
    BY <1>1, <1>2 DEF PagesUpToDate
  <1>4. TableStates' = TableStates
    BY DEF TableStates
  <1>5. OwedByAll'
    BY <1>4 DEF PageInv, OwedByAll, Visible
  <1>6. \A r \in Readers : \A page : Serves(r, page)' <=> Serves(r, page)
    BY DEF Serves, Visible
  <1>7. \A r \in Readers : LookedUp(r)' = LookedUp(r) \/ LookedUp(r)' = ver'
    BY DEF LookedUp
  <1>8. PagesServe'
    BY <1>1, <1>2, <1>6, <1>7 DEF PageInv, PagesServe, LookedUp
  <1>9. QED
    BY <1>3, <1>5, <1>8 DEF PageInv

\* What GetFeedVersion leaves in a request.
LEMMA TakeVersion ==
  ASSUME NEW r \in Readers, read \in [Readers -> Requests], NEW v,
         \/ read' = [read EXCEPT ![r] = [@ EXCEPT !.step = "getFeed", !.ver = v, !.cached = TRUE]]
         \/ read' = [read EXCEPT ![r].step = "query"]
  PROVE  /\ \/ read'[r].step = "query" /\ read'[r].ver = read[r].ver
            \/ read'[r].step = "getFeed" /\ read'[r].ver = v
         /\ read'[r].mustShow = read[r].mustShow /\ read'[r].mustHide = read[r].mustHide
  <1>1. read[r] \in Requests
    OBVIOUS
  <1>2. CASE read' = [read EXCEPT ![r] = [@ EXCEPT !.step = "getFeed", !.ver = v, !.cached = TRUE]]
    <2>1. read'[r] = [read[r] EXCEPT !.step = "getFeed", !.ver = v, !.cached = TRUE]
      BY <1>2
    <2>2. QED
      BY <1>1, <2>1 DEF Requests
  <1>3. CASE read' = [read EXCEPT ![r].step = "query"]
    BY <1>1, <1>3 DEF Requests
  <1>4. QED
    BY <1>2, <1>3

\* Versions are only taken from feed:ver, which only grows.
LEMMA VersionStep ==
  TypeOK /\ VersionInv /\ [Next]_vars => VersionInv'
  <1> SUFFICES ASSUME TypeOK, VersionInv, [Next]_vars PROVE VersionInv'
    OBVIOUS
  <1> USE DEF VersionInv
  <1>t. /\ ver \in Nat /\ \A entry \in cache : entry[1] \in Nat
        /\ read \in [Readers -> Requests]
        /\ \A r \in Readers : read[r].ver \in Nat
    BY DEF TypeOK, Requests
  <1>1. ASSUME UNCHANGED <<cache, read>>, ver' = ver \/ ver' = ver + 1 PROVE VersionInv'
    BY <1>t, <1>1
  <1>2. ASSUME NEW r \in Readers, ver' = ver,
               \A q \in Readers \ {r} : read'[q] = read[q],
               read'[r].ver \in {read[r].ver, ver, 0},
               \A entry \in cache' : entry \in cache \/ entry[1] = read[r].ver
        PROVE  VersionInv'
    BY <1>t, <1>2
  <1>3. ASSUME NEW r \in Readers, BeginRead(r) PROVE VersionInv'
    BY <1>2, <1>3, <1>t DEF BeginRead, Requests
  <1>4. ASSUME NEW r \in Readers, GetFeedVersion(r) PROVE VersionInv'
    <2>1. ver' = ver /\ cache' = cache /\ \A q \in Readers \ {r} : read'[q] = read[q]
      BY <1>4, <1>t DEF GetFeedVersion
    <2>2. read'[r].ver \in {read[r].ver, ver}
      BY <1>4, <1>t, TakeVersion DEF GetFeedVersion
    <2>3. QED
      BY <1>2, <2>1, <2>2
  <1>5. ASSUME NEW r \in Readers, GetFeed(r) PROVE VersionInv'
    BY <1>2, <1>5, <1>t DEF GetFeed, Requests
  <1>6. ASSUME NEW r \in Readers, ListFeedQuery(r) PROVE VersionInv'
    <2>1. ver' = ver /\ cache' = cache /\ \A q \in Readers \ {r} : read'[q] = read[q]
      BY <1>6, <1>t DEF ListFeedQuery
    <2>2. /\ [read[r] EXCEPT !.step = "set", !.page = Visible(slave)].ver = read[r].ver
          /\ [read[r] EXCEPT !.step = "respond", !.page = Visible(slave)].ver = read[r].ver
          /\ NoRequest.ver = 0
      BY <1>t DEF Requests, NoRequest
    <2>3. read'[r].ver \in {read[r].ver, 0}
      BY <1>6, <1>t, <2>2 DEF ListFeedQuery
    <2>4. QED
      BY <1>2, <2>1, <2>3
  <1>7. ASSUME NEW r \in Readers, SetFeed(r) \/ Respond(r) PROVE VersionInv'
    BY <1>2, <1>7, <1>t DEF SetFeed, Respond, NoRequest, Requests
  <1>8. CASE ExpirePage
    BY <1>8, <1>t DEF ExpirePage
  <1>10. CASE UpdateAuditStatus
    <2>1. /\ ver' = ver /\ cache' = cache
          /\ \A r \in Readers : read'[r].ver = read[r].ver
      BY <1>10, OwedType DEF UpdateAuditStatus
    <2>2. QED
      BY <2>1
  <1>9. QED
    BY <1>1, <1>3, <1>4, <1>5, <1>6, <1>7, <1>8, <1>10
       DEF Next, vars, CreateStep, CreateInsert, PublishAuditEvent, CreateBump, Redeliver,
           DeleteStep, BeginDelete, DeleteFind, SoftDeleteByOwner, PublishPostDeletedEvent,
           DeleteBump, ReadStep, AuditStep, AuditReceive, AuditFind, AuditReview, AuditLogCreate,
           AuditBump, Replicate, BumpFeedVersion

\* A post is reviewed only after it was created.
LEMMA CreatedFirstStep ==
  TypeOK /\ CreatedFirst /\ [Next]_vars => CreatedFirst'
  <1> SUFFICES ASSUME TypeOK, CreatedFirst, [Next]_vars PROVE CreatedFirst'
    OBVIOUS
  <1> USE DEF CreatedFirst
  <1>t. /\ db.status \in [Posts -> Statuses] /\ queued \in [Posts -> Nat]
        /\ create \in [Posts -> CreateSteps]
        /\ audit \in [step : AuditSteps, post : Posts, verdict : Verdicts]
    BY DEF TypeOK, Tables
  <1>1. ASSUME NEW p \in Posts, CreateInsert(p) PROVE CreatedFirst'
    <2>1. /\ \/ /\ db'.status = [db.status EXCEPT ![p] = "pending"]
                /\ create' = [create EXCEPT ![p] = "publish"]
             \/ /\ db'.status = db.status
                /\ create' = [create EXCEPT ![p] = "failed"]
          /\ UNCHANGED <<queued, audit>>
      BY <1>1 DEF CreateInsert, Commit, NoCommit, TypeOK, Tables
    <2>2. QED
      BY <1>t, <2>1
  <1>2. ASSUME NEW p \in Posts, PublishAuditEvent(p) PROVE CreatedFirst'
    BY <1>t, <1>2 DEF PublishAuditEvent
  <1>3. ASSUME NEW p \in Posts, CreateBump(p) PROVE CreatedFirst'
    BY <1>t, <1>3 DEF CreateBump
  <1>4. ASSUME NEW p \in Posts, Redeliver(p) PROVE CreatedFirst'
    BY <1>t, <1>4 DEF Redeliver
  <1>5. ASSUME NEW d \in Deleters, SoftDeleteByOwner(d) PROVE CreatedFirst'
    <2>1. db'.status = db.status /\ UNCHANGED <<create, queued, audit>>
      BY <1>5 DEF SoftDeleteByOwner, Commit, NoCommit, TypeOK, Tables
    <2>2. QED
      BY <2>1
  <1>6. ASSUME NEW p \in Posts, AuditReceive(p) PROVE CreatedFirst'
    BY <1>t, <1>6 DEF AuditReceive
  <1>7. CASE AuditFind \/ AuditReview \/ AuditLogCreate \/ AuditBump
    <2>1. audit'.post = audit.post /\ audit.step # "idle" /\ UNCHANGED <<db, create, queued>>
      BY <1>t, <1>7 DEF AuditFind, AuditReview, AuditLogCreate, AuditBump, Verdict, AuditGiveUp,
                        AuditGoto
    <2>2. QED
      BY <1>t, <2>1
  <1>8. CASE UpdateAuditStatus
    <2>1. audit'.post = audit.post /\ audit.step # "idle" /\ UNCHANGED <<create, queued>>
      BY <1>t, <1>8 DEF UpdateAuditStatus, AuditGiveUp, AuditGoto
    <2>2. \A p \in Posts : p # audit.post => db'.status[p] = db.status[p]
      BY <1>8 DEF UpdateAuditStatus, Commit, NoCommit, TypeOK, Tables
    <2>3. QED
      BY <1>t, <2>1, <2>2
  <1>9. CASE UNCHANGED <<db, create, queued, audit>>
    BY <1>9
  <1>10. QED
    BY <1>1, <1>2, <1>3, <1>4, <1>5, <1>6, <1>7, <1>8, <1>9
       DEF Next, vars, CreateStep, DeleteStep, BeginDelete, DeleteFind,
           PublishPostDeletedEvent, DeleteBump, ReadStep, BeginRead, GetFeedVersion,
           GetFeed, ListFeedQuery, SetFeed, Respond, AuditStep, Replicate, ExpirePage

\* What UpdateAuditStatus takes off the requests, and leaves in them.
LEMMA OwedLeft ==
  ASSUME TypeOK, NEW taken, NEW r \in Readers
  PROVE  /\ NoLongerOwed(taken)[r].step = read[r].step
         /\ NoLongerOwed(taken)[r].ver = read[r].ver
         /\ NoLongerOwed(taken)[r].page = read[r].page
         /\ NoLongerOwed(taken)[r].mustHide = read[r].mustHide
         /\ NoLongerOwed(taken)[r].mustShow = read[r].mustShow \ taken
  <1>1. read[r] \in Requests
    BY DEF TypeOK
  <1>2. NoLongerOwed(taken)[r] = [read[r] EXCEPT !.mustShow = @ \ taken]
    BY DEF NoLongerOwed
  <1>3. QED
    BY <1>1, <1>2 DEF Requests

\* The commit of a verdict: an approval has its bump to come, and a post it takes
\* out of the feed is recorded.
LEMMA VerdictWrites ==
  ASSUME TypeOK, UpdateAuditStatus, TableMoves
  PROVE  Writes
  <1>t. /\ db.status \in [Posts -> Statuses] /\ db.deleted \subseteq Posts
        /\ audit \in [step : AuditSteps, post : Posts, verdict : Verdicts]
    BY DEF TypeOK, Tables
  <1>u. audit.step = "update" /\ UNCHANGED <<cache, ver, del>>
    BY DEF UpdateAuditStatus
  <1>1. PICK x : x = audit.post
    OBVIOUS
  <1>2. x \in Posts /\ audit.verdict \in {"pass", "reject"} /\ audit'.post = x
    BY <1>1, <1>t DEF UpdateAuditStatus, AuditGiveUp, AuditGoto, Verdicts
  <1>3. CASE MySQLMayFail /\ NoCommit /\ AuditGiveUp /\ UNCHANGED <<missed, read>>
    <2>1. UNCHANGED <<db, missed, read, del>> /\ audit'.step = "idle"
      BY <1>3, <1>t, <1>u DEF NoCommit, AuditGiveUp, AuditGoto
    <2>2. Pending' = Pending /\ Visible(db)' = Visible(db)
      BY <1>1, <1>2, <1>u, <2>1 DEF Pending, Visible
    <2>3. QED
      BY <1>u, <2>1, <2>2 DEF Writes
  <1>4. CASE /\ IF audit.post \in db.deleted
                THEN NoCommit
                ELSE Commit([db EXCEPT !.status[audit.post] = audit.verdict])
             /\ AuditGoto(IF audit.verdict = "pass" THEN "bump" ELSE "idle")
             /\ missed' = missed \cup TakenBack
             /\ read' = NoLongerOwed(TakenBack)
    <2>1. PICK taken : taken = TakenBack
      OBVIOUS
    <2>2. missed' = missed \cup taken /\ read' = NoLongerOwed(taken)
      BY <1>4, <2>1
    <2>3. ASSUME NEW r \in Readers
          PROVE  /\ read'[r].step = read[r].step /\ read'[r].ver = read[r].ver
                 /\ read'[r].page = read[r].page /\ read'[r].mustHide = read[r].mustHide
                 /\ read'[r].mustShow = read[r].mustShow \ taken
                 /\ read[r].mustShow \subseteq Posts
      <3>1. read[r] \in Requests
        BY DEF TypeOK
      <3>2. QED
        BY <2>2, <3>1, OwedLeft DEF Requests
    <2>4. audit'.step = IF audit.verdict = "pass" THEN "bump" ELSE "idle"
      BY <1>4, <1>t DEF AuditGoto
    <2>5. CASE x \in db.deleted
      <3>1. db' = db /\ taken = {}
        BY <1>1, <1>4, <2>1, <2>5 DEF NoCommit, TakenBack, Visible
      <3>2. Pending' = Pending /\ Visible(db)' = Visible(db)
        BY <1>1, <1>2, <1>u, <2>5, <3>1 DEF Pending, Visible
      <3>3. QED
        BY <1>u, <2>2, <2>3, <3>1, <3>2 DEF Writes
    <2>6. CASE x \notin db.deleted
      <3>1. /\ db'.status = [db.status EXCEPT ![x] = audit.verdict] /\ db'.deleted = db.deleted
        BY <1>1, <1>4, <2>6 DEF Commit, TypeOK, Tables
      <3>2. \A q \in Posts : q # x => db'.status[q] = db.status[q]
        BY <1>t, <3>1
      <3>3. db'.status[x] = audit.verdict
        BY <1>t, <1>2, <3>1
      <3>4. \A q \in Posts : q # x => (q \in Visible(db)' <=> q \in Visible(db))
        BY <3>1, <3>2 DEF Visible
      <3>5. Pending \subseteq Pending'
        BY <1>1, <1>2, <1>u, <3>1 DEF Pending
      <3>6. audit.verdict = "pass" => x \in Pending'
        BY <1>2, <2>4, <2>6, <3>1 DEF Pending
      <3>7. audit.verdict = "reject" => (db.status[x] = "pass" => x \in taken)
        BY <1>1, <1>2, <2>1, <2>6 DEF TakenBack, Visible
      <3>8. audit.verdict = "reject" =>
               (x \in Visible(db)' <=> x \in Visible(db)) \/ x \in missed'
        BY <2>2, <3>3, <3>7 DEF Visible
      <3>9. \A p \in Posts : (p \in Visible(db)' <=> p \in Visible(db)) \/ p \in Pending' \cup missed'
        BY <1>2, <3>4, <3>6, <3>8
      <3>10. \A r \in Readers : \A p \in read'[r].mustShow :
                db.status[p] = "pass" => db'.status[p] = "pass"
        BY <1>2, <2>3, <3>2, <3>3, <3>7
      <3>11. QED
        BY <1>u, <2>2, <2>3, <3>5, <3>9, <3>10 DEF Writes
    <2>7. QED
      BY <2>5, <2>6
  <1>5. QED
    BY <1>3, <1>4 DEF UpdateAuditStatus

\* The steps of the requests that write, of AuditConsumer and of the replica keep
\* the pages right.
LEMMA WriterStep ==
  ASSUME TypeOK, CreatedFirst, VersionInv, PageInv, TableMoves,
         \/ \E p \in Posts : CreateStep(p) \/ Redeliver(p)
         \/ \E d \in Deleters : DeleteStep(d) \/ \E p \in Posts : BeginDelete(d, p)
         \/ AuditStep
         \/ Replicate
  PROVE  PageInv'
  <1>t. /\ db.status \in [Posts -> Statuses] /\ db.deleted \subseteq Posts
        /\ del \in [Deleters -> [step : DeleteSteps, post : Posts]]
        /\ audit \in [step : AuditSteps, post : Posts, verdict : Verdicts]
    BY DEF TypeOK, Tables
  <1>1. ASSUME Pending' = Pending, missed' = missed, Visible(db)' = Visible(db),
               \A q \in Posts : db.status[q] = "pass" => db'.status[q] = "pass",
               UNCHANGED <<cache, ver, read>>
        PROVE  PageInv'
    <2>1. \A r \in Readers : read[r].mustShow \subseteq Posts
      BY DEF TypeOK, Requests
    <2>2. Writes
      BY <1>1, <2>1 DEF Writes
    <2>3. QED
      BY <2>2, WritesKeep
  <1>2. ASSUME NEW changed \in SUBSET Posts, UNCHANGED <<db, slave, binlog, read>>,
               BumpFeedVersion(changed), Pending \ changed \subseteq Pending'
        PROVE  PageInv'
    <2>1. CASE ver' = ver + 1 /\ missed' = {} /\ UNCHANGED cache
      BY <1>2, <2>1, BumpKeeps
    <2>2. CASE missed' = missed \cup changed /\ UNCHANGED <<ver, cache>>
      <3>1. Visible(db)' = Visible(db)
        BY <1>2 DEF Visible
      <3>2. Writes
        BY <1>2, <2>2, <3>1 DEF Writes
      <3>3. QED
        BY <3>2, WritesKeep
    <2>3. QED
      BY <1>2, <2>1, <2>2 DEF BumpFeedVersion
  <1>3. ASSUME NEW p \in Posts, CreateInsert(p) PROVE PageInv'
    <2>1. /\ db'.status \in {db.status, [db.status EXCEPT ![p] = "pending"]}
          /\ db'.deleted = db.deleted
          /\ UNCHANGED <<cache, ver, read, del, audit, missed>>
      BY <1>3 DEF CreateInsert, Commit, NoCommit, TypeOK, Tables
    <2>2. db.status[p] = "none"
      BY <1>3 DEF CreateInsert, CreatedFirst
    <2>3. Pending' = Pending
      BY <2>1 DEF Pending
    <2>4. Visible(db)' = Visible(db)
      BY <1>t, <2>1, <2>2 DEF Visible
    <2>5. QED
      BY <1>1, <1>t, <2>1, <2>2, <2>3, <2>4
  <1>4. ASSUME NEW p \in Posts, PublishAuditEvent(p) \/ Redeliver(p) PROVE PageInv'
    <2>1. Pending' = Pending /\ Visible(db)' = Visible(db)
      BY <1>4 DEF PublishAuditEvent, Redeliver, Pending, Visible
    <2>2. QED
      BY <1>1, <1>4, <2>1 DEF PublishAuditEvent, Redeliver
  <1>5. ASSUME NEW p \in Posts, CreateBump(p) PROVE PageInv'
    <2>1. Pending' = Pending
      BY <1>5 DEF CreateBump, Pending
    <2>2. QED
      BY <1>2, <1>5, <2>1 DEF CreateBump
  <1>6. ASSUME NEW d \in Deleters, NEW p \in Posts, BeginDelete(d, p) PROVE PageInv'
    <2>1. Pending' = Pending
      BY <1>t, <1>6 DEF BeginDelete, Pending
    <2>2. QED
      BY <1>1, <1>6, <2>1 DEF BeginDelete, Visible
  <1>7. ASSUME NEW d \in Deleters, DeleteFind(d) PROVE PageInv'
    <2>1. Pending' = Pending
      BY <1>t, <1>7 DEF DeleteFind, DeleteGoto, Pending
    <2>2. QED
      BY <1>1, <1>7, <2>1 DEF DeleteFind, Visible
  <1>8. ASSUME NEW d \in Deleters, SoftDeleteByOwner(d) PROVE PageInv'
    <2> DEFINE x == del[d].post
    <2>1. CASE NoCommit /\ DeleteGoto(d, "returned")
      <3>1. Pending' = Pending
        BY <1>t, <1>8, <2>1 DEF SoftDeleteByOwner, NoCommit, DeleteGoto, Pending
      <3>2. QED
        BY <1>1, <1>8, <2>1, <3>1 DEF SoftDeleteByOwner, NoCommit, Visible
    <2>2. CASE /\ Commit([db EXCEPT !.deleted = @ \cup {x}])
               /\ DeleteGoto(d, "publish")
      <3>1. /\ db'.status = db.status /\ db'.deleted = db.deleted \cup {x}
            /\ del' = [del EXCEPT ![d].step = "publish"]
            /\ UNCHANGED <<cache, ver, read, audit, missed>>
        BY <1>8, <2>2 DEF SoftDeleteByOwner, Commit, DeleteGoto, TypeOK, Tables
      <3>2. del[d].step = "delete"
        BY <1>8 DEF SoftDeleteByOwner
      <3>3. Pending \cup {x} \subseteq Pending'
        BY <1>t, <3>1, <3>2 DEF Pending
      <3>4. Visible(db)' = Visible(db) \ {x}
        BY <3>1 DEF Visible
      <3>5. Writes
        BY <3>1, <3>3, <3>4 DEF Writes
      <3>6. QED
        BY <3>5, WritesKeep
    <2>3. QED
      BY <1>8, <2>1, <2>2 DEF SoftDeleteByOwner
  <1>9. ASSUME NEW d \in Deleters, PublishPostDeletedEvent(d) PROVE PageInv'
    <2>1. Pending' = Pending
      BY <1>t, <1>9 DEF PublishPostDeletedEvent, DeleteGoto, Pending
    <2>2. QED
      BY <1>1, <1>9, <2>1 DEF PublishPostDeletedEvent, Visible
  <1>10. ASSUME NEW d \in Deleters, DeleteBump(d) PROVE PageInv'
    <2>1. /\ del' = [del EXCEPT ![d].step = "returned"]
          /\ del[d].step = "bump" /\ UNCHANGED <<db, slave, binlog, audit, read>>
      BY <1>10 DEF DeleteBump, DeleteGoto
    <2>2. Pending \ {del[d].post} \subseteq Pending'
      BY <1>t, <2>1 DEF Pending
    <2>3. {del[d].post} \in SUBSET Posts /\ BumpFeedVersion({del[d].post})
      BY <1>10, <1>t DEF DeleteBump
    <2>4. QED
      BY <1>2, <2>1, <2>2, <2>3
  <1>11. ASSUME NEW p \in Posts, AuditReceive(p) PROVE PageInv'
    <2>1. Pending' = Pending
      BY <1>t, <1>11 DEF AuditReceive, Pending
    <2>2. QED
      BY <1>1, <1>11, <2>1 DEF AuditReceive, Visible
  <1>12. CASE AuditFind \/ AuditReview \/ AuditLogCreate
    <2>1. /\ audit.step # "bump" /\ audit'.step # "bump" /\ UNCHANGED <<del, db>>
      BY <1>t, <1>12 DEF AuditFind, AuditReview, AuditLogCreate, Verdict, AuditGiveUp, AuditGoto
    <2>2. Pending' = Pending
      BY <2>1 DEF Pending
    <2>3. QED
      BY <1>1, <1>12, <2>2 DEF AuditFind, AuditReview, AuditLogCreate, Visible
  <1>13. CASE UpdateAuditStatus
    BY <1>13, VerdictWrites, WritesKeep
  <1>14. CASE AuditBump
    <2> DEFINE changed == {audit.post} \ db.deleted
    <2>1. /\ audit' = [audit EXCEPT !.step = "idle"]
          /\ audit.step = "bump" /\ UNCHANGED <<db, slave, binlog, del, read>>
      BY <1>14 DEF AuditBump, AuditGoto
    <2>2. Pending \ changed \subseteq Pending'
      BY <1>t, <2>1 DEF Pending
    <2>3. changed \in SUBSET Posts /\ BumpFeedVersion(changed)
      BY <1>14, <1>t DEF AuditBump
    <2>4. QED
      BY <1>2, <2>1, <2>2, <2>3
  <1>15. CASE Replicate
    <2>1. Pending' = Pending /\ Visible(db)' = Visible(db)
      BY <1>15 DEF Replicate, Pending, Visible
    <2>2. QED
      BY <1>1, <1>15, <2>1 DEF Replicate
  <1>16. QED
    BY <1>3, <1>4, <1>5, <1>6, <1>7, <1>8, <1>9, <1>10, <1>11, <1>12, <1>13, <1>14, <1>15
       DEF CreateStep, DeleteStep, AuditStep

\* Whatever state of the table a query is answered from, it answers every request.
LEMMA TableServes ==
  ASSUME OwedByAll, NEW r \in Readers, NEW t \in TableStates
  PROVE  Serves(r, Visible(t))
  BY DEF OwedByAll, Serves

\* A step of reader r: it stores only the page it holds, takes only the current
\* version, and holds only what answers its request; a page it is about to store
\* is that of a state of the table, and up to date but for what is now recorded.
Advances(r) ==
  /\ UNCHANGED <<db, slave, binlog, ver, del, audit>>
  /\ missed \subseteq missed'
  /\ \A q \in Readers \ {r} : read'[q] = read[q]
  /\ \/ read'[r].mustShow = read[r].mustShow /\ read'[r].mustHide = read[r].mustHide
     \/ read'[r].mustShow = {} /\ read'[r].mustHide = {}
  /\ \A entry \in cache' :
        \/ entry \in cache
        \/ read[r].step = "set" /\ entry = <<read[r].ver, read[r].page>>
  /\ read'[r].step = "set" =>
        UpToDate(read[r].page)' /\ \E t \in TableStates : read'[r].page = Visible(t)
  /\ read'[r].step # "getVer"
  /\ read'[r].step = "getFeed" => read[r].step = "getVer" /\ read'[r].ver = ver
  /\ read'[r].step \in {"set", "respond"} => Serves(r, read'[r].page)

\* Such a step keeps the pages right.
LEMMA ReaderMoves ==
  ASSUME TypeOK, PageInv, NEW r \in Readers, Advances(r)
  PROVE  PageInv'
  <1> USE DEF Advances
  <1>1. Pending' = Pending /\ Visible(db)' = Visible(db) /\ TableStates' = TableStates
    BY DEF Pending, Visible, TableStates
  <1>2. \A page : UpToDate(page) => UpToDate(page)'
    BY <1>1 DEF UpToDate
  <1>3. ASSUME NEW q \in Readers, NEW page, Serves(q, page) PROVE Serves(q, page)'
    BY <1>1, <1>3 DEF Serves
  <1>4. ASSUME NEW entry \in cache', entry[1] = ver PROVE UpToDate(entry[2])'
    BY <1>2, <1>4 DEF PageInv, PagesUpToDate
  <1>5. ASSUME NEW q \in Readers, read'[q].step = "set", read'[q].ver = ver
        PROVE  UpToDate(read[q].page)'
    <2>1. CASE q = r
      BY <1>5, <2>1
    <2>2. CASE q # r
      <3>1. read'[q] = read[q] /\ UpToDate(read[q].page)
        BY <1>5, <2>2 DEF PageInv, PagesUpToDate
      <3>2. PICK page : page = read[q].page
        OBVIOUS
      <3>3. UpToDate(page)'
        BY <1>2, <3>1, <3>2
      <3>4. QED
        BY <3>1, <3>2, <3>3
    <2>3. QED
      BY <2>1, <2>2
  <1>6. PagesUpToDate'
    BY <1>4, <1>5 DEF PagesUpToDate
  <1>7. OwedByAll'
    <2>1. ASSUME NEW q \in Readers
          PROVE  read'[q].mustShow \subseteq read[q].mustShow /\ read'[q].mustHide \subseteq read[q].mustHide
      OBVIOUS
    <2>2. \A t : Visible(t)' = Visible(t)
      BY DEF Visible
    <2>3. QED
      BY <1>1, <2>1, <2>2 DEF PageInv, OwedByAll
  <1>8. ASSUME NEW q \in Readers, read'[q].step \in {"set", "respond"}
        PROVE  Serves(q, read[q].page)'
    <2>1. Serves(q, read'[q].page)
      <3>1. CASE q = r
        BY <1>8, <3>1
      <3>2. CASE q # r
        BY <1>8, <3>2 DEF PageInv, PagesServe
      <3>3. QED
        BY <3>1, <3>2
    <2>2. PICK page : page = read'[q].page
      OBVIOUS
    <2>3. Serves(q, page)'
      BY <1>3, <2>1, <2>2
    <2>4. QED
      BY <2>2, <2>3
  <1>9. ASSUME NEW q \in Readers, read'[q].step \in {"getVer", "getFeed"}
        PROVE  /\ read[q].step \in {"getVer", "getFeed"} /\ LookedUp(q)' = LookedUp(q)
    <2>1. CASE q = r
      BY <1>9, <2>1 DEF LookedUp
    <2>2. CASE q # r
      BY <1>9, <2>2 DEF LookedUp
    <2>3. QED
      BY <2>1, <2>2
  <1>10. ASSUME NEW q \in Readers, read'[q].step \in {"getVer", "getFeed"},
                NEW entry \in cache', entry[1] = LookedUp(q)
         PROVE  Serves(q, entry[2])'
    <2>1. Serves(q, entry[2])
      BY <1>9, <1>10 DEF PageInv, PagesServe
    <2>2. QED
      BY <1>3, <2>1
  <1>11. ASSUME NEW q \in Readers, read'[q].step \in {"getVer", "getFeed"},
                NEW s \in Readers, read'[s].step = "set", read'[s].ver = LookedUp(q)
         PROVE  Serves(q, read[s].page)'
    <2>1. Serves(q, read'[s].page)
      <3>1. CASE s = r
        <4>1. PICK t \in TableStates : read'[r].page = Visible(t)
          BY <1>11, <3>1
        <4>2. Serves(q, Visible(t))
          BY TableServes DEF PageInv
        <4>3. QED
          BY <3>1, <4>1, <4>2
      <3>2. CASE s # r
        BY <1>9, <1>11, <3>2 DEF PageInv, PagesServe
      <3>3. QED
        BY <3>1, <3>2
    <2>2. PICK page : page = read'[s].page
      OBVIOUS
    <2>3. Serves(q, page)'
      BY <1>3, <2>1, <2>2
    <2>4. QED
      BY <2>2, <2>3
  <1>12. PagesServe'
    BY <1>8, <1>9, <1>10, <1>11 DEF PagesServe
  <1>13. QED
    BY <1>6, <1>7, <1>12 DEF PageInv

\* A request that arrives owes what every state of the table, and every current
\* page, agrees on.
LEMMA BeginStep ==
  ASSUME TypeOK, PageInv, NEW r \in Readers, BeginRead(r)
  PROVE  PageInv'
  <1>t. read \in [Readers -> Requests]
    BY DEF TypeOK
  <1>1. /\ \A q \in Readers \ {r} : read'[q] = read[q]
        /\ read'[r].step = "getVer"
        /\ read'[r].mustShow = Settled \cap Visible(db)
        /\ read'[r].mustHide = Settled \cap db.deleted
        /\ UNCHANGED <<db, slave, binlog, ver, cache, del, audit, missed>>
    BY <1>t DEF BeginRead
  <1>2. /\ Pending' = Pending /\ TableStates' = TableStates
        /\ \A t : Visible(t)' = Visible(t)
    BY <1>1 DEF Pending, Visible, TableStates
  <1>3. \A page : UpToDate(page)' <=> UpToDate(page)
    BY <1>1, <1>2 DEF UpToDate
  <1>4. PagesUpToDate'
    BY <1>1, <1>3 DEF PageInv, PagesUpToDate
  <1>5. ASSUME NEW p \in Settled, NEW t \in TableStates
        PROVE  p \in Visible(t) <=> p \in Visible(db)
    BY DEF Settled, Lagging, Differing, TableStates
  <1>6. Settled \subseteq Posts \ (Pending \cup missed)
    BY DEF Settled
  <1>7. /\ \A p \in read'[r].mustHide :
              p \in db.deleted /\ p \notin Visible(db) /\ \A t \in TableStates : p \notin Visible(t)
        /\ \A p \in read'[r].mustShow :
              /\ db.status[p] = "pass"
              /\ p \in Visible(db) => \A t \in TableStates : p \in Visible(t)
    <2>1. \A p \in read'[r].mustHide : p \in db.deleted /\ p \notin Visible(db)
      BY <1>1 DEF Visible
    <2>2. \A p \in read'[r].mustShow : db.status[p] = "pass" /\ p \in Visible(db)
      BY <1>1 DEF Visible
    <2>3. QED
      BY <1>1, <1>5, <2>1, <2>2
  <1>8. OwedByAll'
    BY <1>1, <1>2, <1>7 DEF PageInv, OwedByAll
  <1>9. ASSUME NEW page, UpToDate(page) PROVE Serves(r, page)'
    BY <1>1, <1>2, <1>6, <1>7, <1>9 DEF UpToDate, Serves
  <1>10. \A q \in Readers \ {r} : LookedUp(q)' = LookedUp(q) /\ \A page : Serves(q, page)' <=> Serves(q, page)
    BY <1>1, <1>2 DEF Serves, LookedUp
  <1>11. LookedUp(r)' = ver
    BY <1>1 DEF LookedUp
  <1>12. ASSUME NEW q \in Readers, read'[q].step \in {"set", "respond"} PROVE Serves(q, read[q].page)'
    <2>1. q # r /\ read'[q] = read[q] /\ Serves(q, read[q].page)
      BY <1>1, <1>12 DEF PageInv, PagesServe
    <2>2. PICK page : page = read[q].page
      OBVIOUS
    <2>3. Serves(q, page)'
      BY <1>10, <2>1, <2>2
    <2>4. QED
      BY <2>1, <2>2, <2>3
  <1>13. ASSUME NEW q \in Readers, read'[q].step \in {"getVer", "getFeed"}
         PROVE  /\ \A entry \in cache' : entry[1] = LookedUp(q)' => Serves(q, entry[2])'
                /\ \A s \in Readers : read'[s].step = "set" /\ read'[s].ver = LookedUp(q)' =>
                      Serves(q, read[s].page)'
    <2>1. CASE q = r
      <3>1. \A entry \in cache : entry[1] = ver => Serves(r, entry[2])'
        BY <1>9 DEF PageInv, PagesUpToDate
      <3>2. ASSUME NEW s \in Readers, read'[s].step = "set", read'[s].ver = ver
            PROVE  Serves(r, read[s].page)'
        <4>1. s # r /\ read'[s] = read[s]
          BY <1>1, <3>2
        <4>2. UpToDate(read[s].page)
          BY <3>2, <4>1 DEF PageInv, PagesUpToDate
        <4>3. PICK page : page = read[s].page
          OBVIOUS
        <4>4. Serves(r, page)'
          BY <1>9, <4>2, <4>3
        <4>5. QED
          BY <4>1, <4>3, <4>4
      <3>3. QED
        BY <1>1, <1>11, <2>1, <3>1, <3>2
    <2>2. CASE q # r
      <3>1. read'[q] = read[q] /\ LookedUp(q)' = LookedUp(q) /\ read[q].step \in {"getVer", "getFeed"}
        BY <1>1, <1>10, <1>13, <2>2
      <3>2. \A entry \in cache' : entry[1] = LookedUp(q)' => Serves(q, entry[2])'
        BY <1>1, <1>10, <2>2, <3>1 DEF PageInv, PagesServe
      <3>3. ASSUME NEW s \in Readers, read'[s].step = "set", read'[s].ver = LookedUp(q)'
            PROVE  Serves(q, read[s].page)'
        <4>1. s # r /\ read'[s] = read[s]
          BY <1>1, <3>3
        <4>2. Serves(q, read[s].page)
          BY <3>1, <3>3, <4>1 DEF PageInv, PagesServe
        <4>3. PICK page : page = read[s].page
          OBVIOUS
        <4>4. Serves(q, page)'
          BY <1>10, <2>2, <4>2, <4>3
        <4>5. QED
          BY <4>1, <4>3, <4>4
      <3>4. QED
        BY <3>2, <3>3
    <2>3. QED
      BY <2>1, <2>2
  <1>14. PagesServe'
    BY <1>12, <1>13 DEF PagesServe
  <1>15. QED
    BY <1>4, <1>8, <1>14 DEF PageInv

\* The steps of ListFeed and the expiry of a page keep the pages right.
LEMMA ReaderStep ==
  ASSUME TypeOK, PageInv,
         (\E r \in Readers : ReadStep(r) \/ BeginRead(r)) \/ ExpirePage
  PROVE  PageInv'
  <1>t. read \in [Readers -> Requests]
    BY DEF TypeOK
  <1>1. ASSUME NEW r \in Readers, ReadStep(r)
        PROVE  UNCHANGED <<db, slave, binlog, ver, del, audit>> /\ missed \subseteq missed'
    BY <1>1 DEF ReadStep, GetFeedVersion, GetFeed, ListFeedQuery, SetFeed, Respond
  <1>2. CASE ExpirePage
    <2>1. cache' \subseteq cache /\ UNCHANGED <<db, slave, binlog, ver, del, audit, missed, read>>
      BY <1>2 DEF ExpirePage
    <2>2. /\ Pending' = Pending /\ TableStates' = TableStates /\ \A t : Visible(t)' = Visible(t)
      BY <2>1 DEF Pending, Visible, TableStates
    <2>3. /\ \A page : UpToDate(page)' <=> UpToDate(page)
          /\ \A r \in Readers : LookedUp(r)' = LookedUp(r)
          /\ \A r \in Readers : \A page : Serves(r, page)' <=> Serves(r, page)
      BY <2>1, <2>2 DEF UpToDate, LookedUp, Serves
    <2>4. PagesUpToDate'
      BY <2>1, <2>3 DEF PageInv, PagesUpToDate
    <2>5. OwedByAll'
      BY <2>1, <2>2 DEF PageInv, OwedByAll
    <2>6. PagesServe'
      BY <2>1, <2>3 DEF PageInv, PagesServe
    <2>7. QED
      BY <2>4, <2>5, <2>6 DEF PageInv
  <1>3. ASSUME NEW r \in Readers, GetFeedVersion(r) PROVE PageInv'
    <2>1. /\ \A q \in Readers \ {r} : read'[q] = read[q]
          /\ read[r].step = "getVer" /\ cache' = cache
      BY <1>3, <1>t DEF GetFeedVersion
    <2>2. /\ \/ read'[r].step = "query" /\ read'[r].ver = read[r].ver
             \/ read'[r].step = "getFeed" /\ read'[r].ver = ver
          /\ read'[r].mustShow = read[r].mustShow /\ read'[r].mustHide = read[r].mustHide
      BY <1>3, <1>t, TakeVersion DEF GetFeedVersion
    <2>3. Advances(r)
      BY <1>1, <1>3, <2>1, <2>2 DEF Advances, ReadStep
    <2>4. QED
      BY <2>3, ReaderMoves
  <1>4. ASSUME NEW r \in Readers, GetFeed(r) PROVE PageInv'
    <2>1. /\ \A q \in Readers \ {r} : read'[q] = read[q]
          /\ read'[r].mustShow = read[r].mustShow /\ read'[r].mustHide = read[r].mustHide
          /\ read[r].step = "getFeed" /\ cache' = cache
          /\ \/ read'[r].step = "query"
             \/ /\ read'[r].step = "respond"
                /\ \E hit \in cache : hit[1] = read[r].ver /\ read'[r].page = hit[2]
      BY <1>4, <1>t DEF GetFeed, Requests
    <2>2. read'[r].step = "respond" => Serves(r, read'[r].page)
      BY <2>1 DEF PageInv, PagesServe, LookedUp
    <2>3. Advances(r)
      BY <1>1, <1>4, <2>1, <2>2 DEF Advances, ReadStep
    <2>4. QED
      BY <2>3, ReaderMoves
  <1>5. ASSUME NEW r \in Readers, ListFeedQuery(r) PROVE PageInv'
    <2>1. /\ \A q \in Readers \ {r} : read'[q] = read[q]
          /\ read[r].step = "query" /\ cache' = cache
          /\ \/ /\ read'[r].step = "idle" /\ read'[r].mustShow = {} /\ read'[r].mustHide = {}
             \/ /\ read'[r].step \in {"set", "respond"} /\ read'[r].page = Visible(slave)
                /\ read'[r].step = "set" => missed' = missed \cup Differing(slave, db)
                /\ read'[r].mustShow = read[r].mustShow
                /\ read'[r].mustHide = read[r].mustHide
      <3> DEFINE next == IF read[r].cached THEN "set" ELSE "respond"
                 q1 == [read[r] EXCEPT !.step = next, !.page = Visible(slave)]
      <3>1. read[r] \in Requests
        BY <1>t
      <3>2. /\ q1.mustShow = read[r].mustShow /\ q1.mustHide = read[r].mustHide
            /\ q1.step \in {"set", "respond"} /\ q1.page = Visible(slave)
            /\ q1.step = "set" => read[r].cached
        BY <3>1 DEF Requests
      <3>3. NoRequest.step = "idle" /\ NoRequest.mustShow = {} /\ NoRequest.mustHide = {}
        BY DEF NoRequest
      <3>4. /\ \/ /\ read' = [read EXCEPT ![r] = q1]
                  /\ read[r].cached => missed' = missed \cup Differing(slave, db)
               \/ read' = [read EXCEPT ![r] = NoRequest]
            /\ read[r].step = "query" /\ cache' = cache
        BY <1>5 DEF ListFeedQuery
      <3> HIDE DEF q1
      <3>5. QED
        BY <1>t, <3>2, <3>3, <3>4
    <2>2. read'[r].step = "set" => UpToDate(read[r].page)'
      <3>1. read'[r].step = "set" =>
               missed' = missed \cup Differing(slave, db) /\ read'[r].page = Visible(slave)
        BY <2>1
      <3>2. Visible(db)' = Visible(db)
        BY <1>1, <1>5 DEF ReadStep, Visible
      <3>3. QED
        BY <3>1, <3>2 DEF UpToDate, Differing
    <2>3. slave \in TableStates
      BY DEF TableStates
    <2>4. Serves(r, Visible(slave))
      BY <2>3, TableServes DEF PageInv
    <2>5. Advances(r)
      BY <1>1, <1>5, <2>1, <2>2, <2>3, <2>4 DEF Advances, ReadStep
    <2>6. QED
      BY <2>5, ReaderMoves
  <1>6. ASSUME NEW r \in Readers, SetFeed(r) PROVE PageInv'
    <2>1. /\ \A q \in Readers \ {r} : read'[q] = read[q]
          /\ read'[r].mustShow = read[r].mustShow /\ read'[r].mustHide = read[r].mustHide
          /\ read[r].step = "set" /\ read'[r].step = "respond"
          /\ read'[r].page = read[r].page
          /\ \A entry \in cache' : entry \in cache \/ entry = <<read[r].ver, read[r].page>>
      BY <1>6, <1>t DEF SetFeed, Requests
    <2>2. Serves(r, read'[r].page)
      BY <2>1 DEF PageInv, PagesServe
    <2>3. Advances(r)
      BY <1>1, <1>6, <2>1, <2>2 DEF Advances, ReadStep
    <2>4. QED
      BY <2>3, ReaderMoves
  <1>7. ASSUME NEW r \in Readers, Respond(r) PROVE PageInv'
    <2>1. /\ \A q \in Readers \ {r} : read'[q] = read[q]
          /\ read[r].step = "respond" /\ read'[r].step = "idle" /\ cache' = cache
          /\ read'[r].mustShow = {} /\ read'[r].mustHide = {}
      BY <1>7, <1>t DEF Respond, NoRequest, Requests
    <2>2. Advances(r)
      BY <1>1, <1>7, <2>1 DEF Advances, ReadStep
    <2>3. QED
      BY <2>2, ReaderMoves
  <1>8. QED
    BY <1>2, <1>3, <1>4, <1>5, <1>6, <1>7, BeginStep DEF ReadStep

\* FeedInv holds initially and every step keeps it.
LEMMA FeedInvInductive ==
  (Init => FeedInv) /\ (FeedInv /\ [Next]_vars => FeedInv')
  <1>1. Init => FeedInv
    <2> SUFFICES ASSUME Init PROVE FeedInv
      OBVIOUS
    <2>1. TypeOK
      BY TypeInit
    <2>2. CreatedFirst /\ VersionInv
      BY DEF Init, NoRequest, CreatedFirst, VersionInv
    <2>3. PagesUpToDate /\ OwedByAll /\ PagesServe
      BY DEF Init, NoRequest, PagesUpToDate, OwedByAll, PagesServe
    <2>4. QED
      BY <2>1, <2>2, <2>3 DEF FeedInv
  <1>2. FeedInv /\ [Next]_vars => FeedInv'
    <2> SUFFICES ASSUME FeedInv, [Next]_vars PROVE FeedInv'
      OBVIOUS
    <2>1. TypeOK /\ CreatedFirst /\ VersionInv /\ PageInv
      BY DEF FeedInv, PageInv
    <2>2. TypeOK' /\ CreatedFirst' /\ VersionInv' /\ TableMoves
      BY <2>1, TypeStep, CreatedFirstStep, VersionStep, TablesMove
    <2>3. ASSUME UNCHANGED vars PROVE Writes
      <3>1. Pending' = Pending /\ Visible(db)' = Visible(db)
        BY <2>3 DEF vars, Pending, Visible
      <3>2. UNCHANGED <<db, cache, ver, read, missed>>
        BY <2>3 DEF vars
      <3>3. QED
        BY <2>2, <3>1, <3>2 DEF Writes
    <2>4. PageInv'
      BY <2>1, <2>2, <2>3, WritesKeep, WriterStep, ReaderStep DEF Next
    <2>5. QED
      BY <2>2, <2>4 DEF FeedInv, PageInv
  <1>3. QED
    BY <1>1, <1>2

\* A page cached under the current version is never stale on a settled post, for
\* any number of posts, requests, lost bumps and redeliveries, and however far the
\* replica is behind.
THEOREM Freshness == Spec => []FeedFresh
  <1>1. FeedInv => FeedFresh
    <2>1. Settled \subseteq Posts \ (Pending \cup missed)
      BY DEF Settled
    <2>2. QED
      BY <2>1 DEF FeedInv, PagesUpToDate, UpToDate, FeedFresh, Shows
  <1>2. QED
    BY <1>1, FeedInvInductive, PTL DEF Spec

\* Under the same conditions every answer of ListFeed hides what was settled as
\* deleted and shows what was settled as approved when the request arrived.
THEOREM SettledReads == Spec => []ReadSettled
  <1>1. FeedInv => ReadSettled
    BY DEF FeedInv, PagesServe, ReadSettled
  <1>2. QED
    BY <1>1, FeedInvInductive, PTL DEF Spec

-----------------------------------------------------------------------------
(***************************************************************************)
(* The author's own reads.  Without a marker the replica has everything    *)
(* that was marked, unless the history variable says it may not; master    *)
(* and replica only ever lose posts and gain edits, so what a request's    *)
(* source had when it began it still has when it is read.                  *)
(***************************************************************************)

\* A view under way: from where it reads, and what it has to reflect.
Views == [step : {"list", "author"}, force : BOOLEAN, mustHide : SUBSET Posts, mustSee : Nat]

Edits == [step : {"update", "returned"}, edit : Nat]

LogEntries == [edit : Nat, after : Nat]

OwnTypeOK ==
    /\ TypeOK
    /\ marker \in BOOLEAN
    /\ exposed \in BOOLEAN
    /\ profile \in Nat
    /\ slaveProfile \in Nat
    /\ edit \in [Editors -> Edits]
    /\ \A r \in Viewers : view[r] = NoView \/ view[r] \in Views
    /\ DOMAIN view = Viewers

\* The replica only gets nearer to the master: deletions and edits are never undone
\* on their way.
Catching ==
    /\ slave.deleted \subseteq db.deleted
    /\ \A i \in 1..Len(binlog) :
          slave.deleted \subseteq binlog[i].deleted /\ binlog[i].deleted \subseteq db.deleted
    /\ Split \/ binlog = <<>>
    /\ \A i, j \in 1..Len(binlog) : i <= j => binlog[i].deleted \subseteq binlog[j].deleted

ProfileCatching ==
    /\ profileLog \in Seq(LogEntries)
    /\ Split \/ profileLog = <<>>
    /\ slaveProfile <= profile
    /\ \A i \in 1..Len(profileLog) :
          slaveProfile <= profileLog[i].edit /\ profileLog[i].edit <= profile
    /\ \A i, j \in 1..Len(profileLog) : i <= j => profileLog[i].edit <= profileLog[j].edit
    /\ \A e \in Editors : edit[e].edit <= profile

\* Deletions and edits whose request has come past Mark are on the replica.
MarkedReplicated ==
    /\ MarkedDeletions \subseteq slave.deleted
    /\ \A e \in Editors : <<"edit", e>> \notin owes => edit[e].edit <= slaveProfile

\* While there is no marker, the replica has what has been marked, unless exposed.
MarkerInv == marker \/ exposed \/ MarkedReplicated

\* What r reads from has what r has to reflect.
ViewServed(r) ==
    view[r] # NoView =>
        /\ view[r].mustHide \subseteq db.deleted /\ view[r].mustSee <= profile
        /\ ~view[r].force =>
              view[r].mustHide \subseteq slave.deleted /\ view[r].mustSee <= slaveProfile

OwnInv ==
    /\ OwnTypeOK
    /\ Catching
    /\ ProfileCatching
    /\ MarkerInv
    /\ \A r \in Viewers : ViewServed(r)

\* A step that is not of the author's is one of PostFeed.
LEMMA AuthorIsNext ==
  ASSUME [AuthorNext]_authorVars
  PROVE  [Next]_vars
  <1>1. CASE UNCHANGED vars
    BY <1>1
  <1>2. ASSUME NEW p \in Posts, InsertPost(p) \/ CreateRest(p) PROVE Next
    BY <1>2 DEF InsertPost, CreateRest, Next, CreateStep
  <1>3. ASSUME NEW d \in Deleters, DeletePost(d) \/ DeleteRest(d) PROVE Next
    BY <1>3 DEF DeletePost, DeleteRest, Next, DeleteStep
  <1>4. CASE ReplicatePosts \/ Others
    BY <1>4 DEF ReplicatePosts, Others, Next
  <1>5. QED
    BY <1>1, <1>2, <1>3, <1>4
       DEF AuthorNext, authorVars, CreateProceeds, Mark, MarkFails, PublishPostEvent, UpdateProfile,
           ViewStep, BeginView, ListByUser, LoadProfile, ViewFails, ViewGoes, ReplicateProfile,
           MarkerExpires

\* Master and replica only lose posts.
LEMMA CatchingStep ==
  ASSUME TypeOK, Catching, TableMoves
  PROVE  /\ Catching'
         /\ slave.deleted \subseteq slave'.deleted /\ db.deleted \subseteq db'.deleted
         /\ ~Split => db'.deleted \subseteq slave'.deleted \/ UNCHANGED <<db, slave, binlog>>
  <1>0. binlog \in Seq(Tables) /\ Len(binlog) \in Nat
    BY DEF TypeOK
  <1>1. CASE UNCHANGED <<db, slave, binlog>>
    BY <1>1 DEF Catching
  <1>2. ASSUME NEW t \in Tables, db.deleted \subseteq t.deleted, Commit(t), Split
        PROVE  Catching' /\ slave' = slave /\ db.deleted \subseteq db'.deleted
    <2>1. db' = t /\ slave' = slave /\ binlog' = Append(binlog, t)
      BY <1>2 DEF Commit
    <2>2. /\ Len(binlog') = Len(binlog) + 1 /\ binlog'[Len(binlog) + 1] = t
          /\ \A i \in 1..Len(binlog) : binlog'[i] = binlog[i]
      BY <1>0, <2>1
    <2>3. slave.deleted \subseteq t.deleted
      BY <1>2 DEF Catching
    <2>4. ASSUME NEW i \in 1..Len(binlog')
          PROVE  slave.deleted \subseteq binlog'[i].deleted /\ binlog'[i].deleted \subseteq t.deleted
      <3>1. CASE i = Len(binlog) + 1
        BY <2>2, <2>3, <3>1
      <3>2. CASE i # Len(binlog) + 1
        <4>1. i \in 1..Len(binlog) /\ binlog'[i] = binlog[i]
          BY <1>0, <2>2, <3>2
        <4>2. QED
          BY <1>2, <4>1 DEF Catching
      <3>3. QED
        BY <3>1, <3>2
    <2>5. ASSUME NEW i \in 1..Len(binlog'), NEW j \in 1..Len(binlog'), i <= j
          PROVE  binlog'[i].deleted \subseteq binlog'[j].deleted
      <3>1. CASE j = Len(binlog) + 1
        BY <2>2, <2>4, <3>1
      <3>2. CASE j # Len(binlog) + 1
        <4>1. /\ i \in 1..Len(binlog) /\ binlog'[i] = binlog[i]
              /\ j \in 1..Len(binlog) /\ binlog'[j] = binlog[j]
          BY <1>0, <2>2, <2>5, <3>2
        <4>2. QED
          BY <2>5, <4>1 DEF Catching
      <3>3. QED
        BY <3>1, <3>2
    <2>6. QED
      BY <1>2, <2>1, <2>3, <2>4, <2>5 DEF Catching
  <1>3. ASSUME NEW t \in Tables, db.deleted \subseteq t.deleted, Commit(t), ~Split
        PROVE  /\ Catching' /\ slave.deleted \subseteq slave'.deleted
               /\ db.deleted \subseteq db'.deleted /\ db'.deleted \subseteq slave'.deleted
    <2>1. db' = t /\ slave' = t /\ binlog' = binlog /\ binlog = <<>>
      BY <1>3 DEF Commit, Catching
    <2>2. Len(binlog') = 0
      BY <2>1
    <2>3. slave.deleted \subseteq t.deleted
      BY <1>3 DEF Catching
    <2>4. \A i \in 1..Len(binlog') : FALSE
      BY <2>2
    <2>5. QED
      BY <1>3, <2>1, <2>3, <2>4 DEF Catching
  <1>4. ASSUME Replicate
        PROVE  Catching' /\ slave.deleted \subseteq slave'.deleted /\ db' = db /\ Split
    <2>1. binlog # <<>> /\ slave' = Head(binlog) /\ binlog' = Tail(binlog) /\ db' = db
      BY <1>4 DEF Replicate
    <2>2. /\ 1 \in 1..Len(binlog) /\ slave' = binlog[1] /\ Len(binlog') = Len(binlog) - 1
          /\ \A i \in 1..Len(binlog') : i + 1 \in 1..Len(binlog) /\ binlog'[i] = binlog[i + 1]
          /\ \A i, j \in 1..Len(binlog') : i <= j => i + 1 <= j + 1
          /\ \A i \in 1..Len(binlog') : 1 <= i + 1
      BY <1>0, <2>1
    <2>3. slave.deleted \subseteq slave'.deleted /\ slave'.deleted \subseteq db.deleted /\ Split
      BY <2>1, <2>2 DEF Catching
    <2>4. ASSUME NEW i \in 1..Len(binlog')
          PROVE  slave'.deleted \subseteq binlog'[i].deleted /\ binlog'[i].deleted \subseteq db.deleted
      BY <2>2 DEF Catching
    <2>5. ASSUME NEW i \in 1..Len(binlog'), NEW j \in 1..Len(binlog'), i <= j
          PROVE  binlog'[i].deleted \subseteq binlog'[j].deleted
      BY <2>2, <2>5 DEF Catching
    <2>6. QED
      BY <2>1, <2>3, <2>4, <2>5 DEF Catching
  <1>5. QED
    BY <1>1, <1>2, <1>3, <1>4 DEF TableMoves

\* The profile's way to the replica.
LEMMA ProfileStep ==
  ASSUME OwnTypeOK, ProfileCatching, [AuthorNext]_authorVars
  PROVE  /\ ProfileCatching'
         /\ profile' \in Nat /\ slaveProfile' \in Nat /\ edit' \in [Editors -> Edits]
         /\ slaveProfile <= slaveProfile' /\ profile <= profile'
  <1>0. /\ profileLog \in Seq(LogEntries) /\ Len(profileLog) \in Nat
        /\ profile \in Nat /\ slaveProfile \in Nat /\ edit \in [Editors -> Edits]
        /\ \A i \in 1..Len(profileLog) : profileLog[i] \in LogEntries /\ profileLog[i].edit \in Nat
                                         /\ profileLog[i].after \in Nat
        /\ \A e \in Editors : edit[e].edit \in Nat /\ edit[e].edit <= profile
    <2>1. /\ profileLog \in Seq(LogEntries) /\ profile \in Nat /\ slaveProfile \in Nat
          /\ edit \in [Editors -> Edits]
      BY DEF OwnTypeOK, ProfileCatching
    <2>2. Len(profileLog) \in Nat /\ \A i \in 1..Len(profileLog) : profileLog[i] \in LogEntries
      BY <2>1
    <2>3. \A x \in LogEntries : x.edit \in Nat /\ x.after \in Nat
      BY DEF LogEntries
    <2>4. \A e \in Editors : edit[e].edit \in Nat /\ edit[e].edit <= profile
      BY <2>1 DEF Edits, ProfileCatching
    <2>5. QED
      BY <2>1, <2>2, <2>3, <2>4
  <1>1. CASE UNCHANGED <<profile, slaveProfile, profileLog, edit>>
    BY <1>0, <1>1 DEF ProfileCatching
  <1>2. CASE ReplicateProfile
    <2>1. /\ profileLog # <<>> /\ slaveProfile' = Head(profileLog).edit /\ profileLog' = Tail(profileLog)
          /\ UNCHANGED <<profile, edit>>
      BY <1>2 DEF ReplicateProfile
    <2>2. /\ 1 \in 1..Len(profileLog) /\ slaveProfile' = profileLog[1].edit
          /\ Len(profileLog') = Len(profileLog) - 1 /\ profileLog' \in Seq(LogEntries)
          /\ \A i \in 1..Len(profileLog') :
                i + 1 \in 1..Len(profileLog) /\ 1 <= i + 1 /\ profileLog'[i] = profileLog[i + 1]
      BY <1>0, <2>1
    <2>3. slaveProfile <= slaveProfile' /\ slaveProfile' <= profile /\ slaveProfile' \in Nat /\ Split
      BY <1>0, <2>1, <2>2 DEF ProfileCatching
    <2>4. \A i \in 1..Len(profileLog') :
             slaveProfile' <= profileLog'[i].edit /\ profileLog'[i].edit <= profile
      BY <2>2 DEF ProfileCatching
    <2>5. ASSUME NEW i \in 1..Len(profileLog'), NEW j \in 1..Len(profileLog'), i <= j
          PROVE  profileLog'[i].edit <= profileLog'[j].edit
      <3>1. i + 1 <= j + 1
        BY <2>5
      <3>2. QED
        BY <2>2, <2>5, <3>1 DEF ProfileCatching
    <2>6. QED
      BY <1>0, <2>1, <2>2, <2>3, <2>4, <2>5 DEF ProfileCatching
  <1>3. CASE ReplicatePosts
    <2>1. /\ profileLog' = [i \in DOMAIN profileLog |-> [profileLog[i] EXCEPT !.after = @ - 1]]
          /\ \A i \in DOMAIN profileLog : profileLog[i].after > 0
          /\ UNCHANGED <<profile, slaveProfile, edit>>
      BY <1>3 DEF ReplicatePosts
    <2>2. DOMAIN profileLog = 1..Len(profileLog)
      BY <1>0
    <2>3. ASSUME NEW i \in 1..Len(profileLog)
          PROVE  /\ [profileLog[i] EXCEPT !.after = @ - 1] \in LogEntries
                 /\ [profileLog[i] EXCEPT !.after = @ - 1].edit = profileLog[i].edit
      <3>1. profileLog[i].after - 1 \in Nat
        BY <1>0, <2>1, <2>2
      <3>2. QED
        BY <1>0, <3>1 DEF LogEntries
    <2>4. /\ profileLog' \in [1..Len(profileLog) -> LogEntries]
          /\ \A i \in 1..Len(profileLog) : profileLog'[i].edit = profileLog[i].edit
      BY <2>1, <2>2, <2>3
    <2>5. profileLog' \in Seq(LogEntries) /\ Len(profileLog') = Len(profileLog)
      BY <1>0, <2>4
    <2>6. profileLog = <<>> => profileLog' = <<>>
      BY <1>0, <2>5
    <2>7. QED
      BY <1>0, <2>1, <2>4, <2>5, <2>6 DEF ProfileCatching
  <1>4. ASSUME NEW e \in Editors, UpdateProfile(e)
        PROVE  /\ ProfileCatching'
               /\ profile' \in Nat /\ slaveProfile' \in Nat /\ edit' \in [Editors -> Edits]
               /\ slaveProfile <= slaveProfile' /\ profile <= profile'
    <2>1. CASE /\ edit' = [edit EXCEPT ![e].step = "returned"]
               /\ UNCHANGED <<owes, profile, slaveProfile, profileLog>>
      <3>1. edit' \in [Editors -> Edits] /\ \A x \in Editors : edit'[x].edit = edit[x].edit
        BY <1>0, <2>1 DEF Edits
      <3>2. QED
        BY <1>0, <2>1, <3>1 DEF ProfileCatching
    <2>2. CASE /\ profile' = profile + 1
               /\ edit' = [edit EXCEPT ![e] = [step |-> "returned", edit |-> profile + 1]]
               /\ IF Split
                  THEN /\ profileLog' = Append(profileLog, [edit |-> profile + 1, after |-> Len(binlog)])
                       /\ UNCHANGED slaveProfile
                  ELSE slaveProfile' = profile + 1 /\ UNCHANGED profileLog
      <3>1. /\ edit' \in [Editors -> Edits] /\ profile' \in Nat /\ profile <= profile'
            /\ \A x \in Editors : edit'[x].edit \in Nat /\ edit'[x].edit <= profile'
        <4>1. [step |-> "returned", edit |-> profile + 1] \in Edits
          BY <1>0 DEF Edits
        <4>2. \A x \in Editors : edit'[x] = IF x = e THEN [step |-> "returned", edit |-> profile + 1]
                                            ELSE edit[x]
          BY <1>0, <2>2
        <4>3. QED
          BY <1>0, <2>2, <4>1, <4>2
      <3>2. CASE Split
        <4>1. PICK x : x = [edit |-> profile + 1, after |-> Len(binlog)]
          OBVIOUS
        <4>2. x \in LogEntries /\ x.edit = profile + 1
          BY <1>0, <4>1 DEF LogEntries, OwnTypeOK, TypeOK
        <4>3. profileLog' = Append(profileLog, x) /\ slaveProfile' = slaveProfile
          BY <2>2, <3>2, <4>1
        <4>4. /\ profileLog' \in Seq(LogEntries) /\ Len(profileLog') = Len(profileLog) + 1
              /\ profileLog'[Len(profileLog) + 1] = x
              /\ \A i \in 1..Len(profileLog) : profileLog'[i] = profileLog[i]
          BY <1>0, <4>2, <4>3
        <4>5. ASSUME NEW i \in 1..Len(profileLog')
              PROVE  slaveProfile' <= profileLog'[i].edit /\ profileLog'[i].edit <= profile'
          <5>1. CASE i = Len(profileLog) + 1
            BY <1>0, <2>2, <4>2, <4>3, <4>4, <5>1 DEF ProfileCatching
          <5>2. CASE i # Len(profileLog) + 1
            <6>1. i \in 1..Len(profileLog) /\ profileLog'[i] = profileLog[i]
              BY <1>0, <4>4, <5>2
            <6>2. profileLog[i].edit \in Nat /\ slaveProfile <= profileLog[i].edit
                  /\ profileLog[i].edit <= profile
              BY <1>0, <6>1 DEF ProfileCatching
            <6>3. QED
              BY <1>0, <2>2, <4>3, <6>1, <6>2
          <5>3. QED
            BY <5>1, <5>2
        <4>6. ASSUME NEW i \in 1..Len(profileLog'), NEW j \in 1..Len(profileLog'), i <= j
              PROVE  profileLog'[i].edit <= profileLog'[j].edit
          <5>1. CASE j = Len(profileLog) + 1
            BY <2>2, <4>2, <4>4, <4>5, <5>1
          <5>2. CASE j # Len(profileLog) + 1
            <6>1. /\ i \in 1..Len(profileLog) /\ profileLog'[i] = profileLog[i]
                  /\ j \in 1..Len(profileLog) /\ profileLog'[j] = profileLog[j]
              BY <1>0, <4>4, <4>6, <5>2
            <6>2. QED
              BY <4>6, <6>1 DEF ProfileCatching
          <5>3. QED
            BY <5>1, <5>2
        <4>7. slaveProfile' <= profile'
          BY <1>0, <2>2, <4>3 DEF ProfileCatching
        <4>8. QED
          BY <1>0, <3>1, <3>2, <4>3, <4>4, <4>5, <4>6, <4>7 DEF ProfileCatching
      <3>3. CASE ~Split
        <4>1. slaveProfile' = profile + 1 /\ profileLog' = profileLog /\ profileLog = <<>>
          BY <2>2, <3>3 DEF ProfileCatching
        <4>2. Len(profileLog') = 0
          BY <4>1
        <4>3. \A i \in 1..Len(profileLog') : FALSE
          BY <4>2
        <4>4. slaveProfile' \in Nat /\ slaveProfile <= slaveProfile' /\ slaveProfile' <= profile'
          BY <1>0, <2>2, <4>1 DEF ProfileCatching
        <4>5. QED
          BY <1>0, <3>1, <4>1, <4>3, <4>4 DEF ProfileCatching
      <3>4. QED
        BY <3>2, <3>3
    <2>3. QED
      BY <1>4, <2>1, <2>2 DEF UpdateProfile
  <1>5. QED
    BY <1>1, <1>2, <1>3, <1>4
       DEF AuthorNext, authorVars, ownVars, rest, CreateProceeds, InsertPost, CreateRest, DeletePost,
           DeleteRest, Mark, MarkFails, PublishPostEvent, ViewStep, BeginView, ListByUser, LoadProfile,
           ViewFails, ViewGoes, MarkerExpires

\* A deletion counts as marked once no deleter of the post owes it.
LEMMA MarkedMeaning ==
  \A p : p \in MarkedDeletions <=>
           p \in db.deleted /\ \A d \in Deleters : <<"delete", d>> \in owes => del[d].post # p
  BY DEF MarkedDeletions

\* The same in the next state.
LEMMA MarkedMeaningNext ==
  \A p : p \in MarkedDeletions' <=>
           p \in db'.deleted /\ \A d \in Deleters : <<"delete", d>> \in owes' => del'[d].post # p
  BY DEF MarkedDeletions

\* With nothing on its way the replica has everything.
LEMMA NotBehind ==
  /\ ProfileCatching /\ ~Behind => MarkedReplicated
  /\ ProfileCatching' /\ ~Behind' => MarkedReplicated'
  BY MarkedMeaning, MarkedMeaningNext DEF Behind, MarkedReplicated, ProfileCatching

\* Whom a deleter owes: only DeletePost adds to it, and nobody who owes takes a new post.
OwesKept ==
    /\ \A d \in Deleters : <<"delete", d>> \in owes =>
          <<"delete", d>> \in owes' /\ del'[d].post = del[d].post
    /\ \A p \in db'.deleted \ db.deleted :
          \E d \in Deleters : <<"delete", d>> \in owes' /\ del'[d].post = p
    /\ \A e \in Editors :
          <<"edit", e>> \notin owes' => <<"edit", e>> \notin owes /\ edit'[e].edit = edit[e].edit

\* Then a replica that had everything marked still has it.
LEMMA MarkedKept ==
  ASSUME OwnTypeOK, ProfileCatching, MarkedReplicated, OwesKept,
         slave.deleted \subseteq slave'.deleted, slaveProfile <= slaveProfile',
         slaveProfile' \in Nat, edit' \in [Editors -> Edits]
  PROVE  MarkedReplicated'
  <1>1. ASSUME NEW p, p \in MarkedDeletions' PROVE p \in slave'.deleted
    <2>1. p \in db'.deleted /\ \A d \in Deleters : <<"delete", d>> \in owes' => del'[d].post # p
      BY <1>1, MarkedMeaningNext
    <2>2. p \in db.deleted
      BY <2>1 DEF OwesKept
    <2>3. p \in MarkedDeletions
      BY <2>1, <2>2, MarkedMeaning DEF OwesKept
    <2>4. QED
      BY <2>3 DEF MarkedReplicated
  <1>2. ASSUME NEW e \in Editors, <<"edit", e>> \notin owes' PROVE edit'[e].edit <= slaveProfile'
    <2>1. edit[e].edit <= slaveProfile /\ edit'[e].edit = edit[e].edit /\ edit[e].edit \in Nat
      BY <1>2 DEF OwesKept, MarkedReplicated, OwnTypeOK, Edits
    <2>2. QED
      BY <2>1 DEF OwnTypeOK
  <1>3. QED
    BY <1>1, <1>2 DEF MarkedReplicated

\* Every step but Mark, MarkFails and MarkerExpires leaves what is owed owed.
LEMMA OwesStep ==
  ASSUME OwnTypeOK, AuthorNext,
         \A q : ~Mark(q) /\ ~MarkFails(q), ~MarkerExpires
  PROVE  OwesKept /\ marker' = marker /\ (exposed' = exposed \/ exposed' = (exposed /\ Behind'))
  <1>0. /\ edit \in [Editors -> Edits] /\ TypeOK
        /\ del \in [Deleters -> [step : DeleteSteps, post : Posts]]
    BY DEF OwnTypeOK, TypeOK
  <1>1. ASSUME UNCHANGED <<db, del, edit, owes>> PROVE OwesKept
    BY <1>1 DEF OwesKept
  <1>2. ASSUME NEW p \in Posts, InsertPost(p)
        PROVE  OwesKept /\ UNCHANGED <<marker, exposed>>
    <2>1. /\ UNCHANGED <<del, edit, marker, exposed>> /\ CreateInsert(p)
          /\ owes' = owes \/ owes' = owes \cup {<<"create", p>>}
      BY <1>2 DEF InsertPost, CreateInsert, rest
    <2>2. db'.deleted = db.deleted
      BY <1>0, <2>1 DEF CreateInsert, Commit, NoCommit, TypeOK, Tables
    <2>3. \A e : <<"edit", e>> # <<"create", p>>
      OBVIOUS
    <2>4. QED
      BY <2>1, <2>2, <2>3 DEF OwesKept
  <1>3. ASSUME NEW p \in Posts, CreateRest(p)
        PROVE  OwesKept /\ UNCHANGED <<marker, exposed>>
    BY <1>1, <1>3 DEF CreateRest, PublishAuditEvent, CreateBump, ownVars
  <1>4. ASSUME NEW d \in Deleters, DeletePost(d)
        PROVE  OwesKept /\ UNCHANGED <<marker, exposed>>
    <2>1. /\ UNCHANGED <<edit, marker, exposed>> /\ SoftDeleteByOwner(d)
          /\ owes' = IF del'[d].step = "publish" THEN owes \cup {<<"delete", d>>} ELSE owes
      BY <1>4 DEF DeletePost, rest
    <2>2. \A e : <<"edit", e>> # <<"delete", d>>
      OBVIOUS
    <2>3. \A x \in Deleters : del'[x].post = del[x].post
      BY <1>0, <2>1 DEF SoftDeleteByOwner, DeleteGoto
    <2>4. CASE /\ Commit([db EXCEPT !.deleted = @ \cup {del[d].post}])
               /\ DeleteGoto(d, "publish")
      <3>1. db'.deleted = db.deleted \cup {del[d].post}
        BY <1>0, <2>4 DEF Commit, TypeOK, Tables
      <3>2. del'[d].step = "publish"
        BY <1>0, <2>4 DEF DeleteGoto
      <3>3. <<"delete", d>> \in owes' /\ del'[d].post = del[d].post
        BY <2>1, <2>3, <3>2
      <3>4. owes' = owes \cup {<<"delete", d>>}
        BY <2>1, <3>2
      <3>5. QED
        BY <2>1, <2>2, <2>3, <3>1, <3>3, <3>4 DEF OwesKept
    <2>5. CASE NoCommit /\ DeleteGoto(d, "returned")
      <3>1. del'[d].step = "returned" /\ db' = db
        BY <1>0, <2>5 DEF DeleteGoto, NoCommit
      <3>2. owes' = owes
        BY <2>1, <3>1
      <3>3. QED
        BY <2>1, <2>3, <3>1, <3>2 DEF OwesKept
    <2>6. QED
      BY <2>1, <2>4, <2>5 DEF SoftDeleteByOwner
  <1>5. ASSUME NEW d \in Deleters, DeleteRest(d)
        PROVE  OwesKept /\ UNCHANGED <<marker, exposed>>
    <2>1. /\ <<"delete", d>> \notin owes /\ UNCHANGED <<owes, edit, marker, exposed, db>>
      BY <1>5 DEF DeleteRest, DeleteFind, PublishPostDeletedEvent, DeleteBump, BeginDelete, ownVars
    <2>2. \A x \in Deleters : x # d => del'[x] = del[x]
      BY <1>0, <1>5 DEF DeleteRest, DeleteFind, PublishPostDeletedEvent, DeleteBump, BeginDelete, DeleteGoto
    <2>3. QED
      BY <2>1, <2>2 DEF OwesKept
  <1>6. ASSUME NEW e \in Editors, UpdateProfile(e)
        PROVE  OwesKept /\ UNCHANGED <<marker, exposed>>
    <2>1. UNCHANGED <<db, del, marker, exposed>>
      BY <1>6 DEF UpdateProfile, vars
    <2>2. \A x : <<"delete", x>> # <<"edit", e>>
      OBVIOUS
    <2>3. \/ owes' = owes /\ \A x \in Editors : edit'[x].edit = edit[x].edit
          \/ owes' = owes \cup {<<"edit", e>>} /\ \A x \in Editors \ {e} : edit'[x] = edit[x]
      <3>1. CASE edit' = [edit EXCEPT ![e].step = "returned"] /\ owes' = owes
        BY <1>0, <3>1 DEF Edits
      <3>2. CASE /\ edit' = [edit EXCEPT ![e] = [step |-> "returned", edit |-> profile + 1]]
                 /\ owes' = owes \cup {<<"edit", e>>}
        BY <1>0, <3>2
      <3>3. QED
        BY <1>6, <3>1, <3>2 DEF UpdateProfile
    <2>4. QED
      BY <2>1, <2>2, <2>3 DEF OwesKept
  <1>7. CASE ReplicatePosts \/ ReplicateProfile
    <2>1. UNCHANGED <<db, del, edit, owes, marker>> /\ exposed' = (exposed /\ Behind')
      BY <1>7 DEF ReplicatePosts, ReplicateProfile, Replicate, vars
    <2>2. QED
      BY <1>1, <2>1
  <1>8. CASE Others /\ UNCHANGED ownVars
    <2>1. UNCHANGED <<owes, edit, marker, exposed, del>>
      BY <1>8 DEF Others, ownVars, AuditStep, AuditReceive, AuditFind, AuditReview, AuditLogCreate,
                  UpdateAuditStatus, AuditBump, Redeliver
    <2>2. db'.deleted = db.deleted
      <3>1. CASE UpdateAuditStatus
        BY <1>0, <3>1 DEF UpdateAuditStatus, Commit, NoCommit, TypeOK, Tables
      <3>2. CASE ~UpdateAuditStatus
        BY <1>8, <3>2 DEF Others, AuditStep, AuditReceive, AuditFind, AuditReview, AuditLogCreate,
                          AuditBump, Redeliver
      <3>3. QED
        BY <3>1, <3>2
    <2>3. QED
      BY <2>1, <2>2 DEF OwesKept
  <1>9. ASSUME NEW r \in Viewers, ViewStep(r) PROVE OwesKept /\ UNCHANGED <<marker, exposed>>
    BY <1>1, <1>9 DEF ViewStep, BeginView, ListByUser, LoadProfile, ViewFails, ViewGoes, vars
  <1>10. ASSUME NEW p \in Posts, PublishPostEvent(p) PROVE OwesKept /\ UNCHANGED <<marker, exposed>>
    BY <1>1, <1>10 DEF PublishPostEvent, rest, vars
  <1>11. QED
    BY <1>2, <1>3, <1>4, <1>5, <1>6, <1>7, <1>8, <1>9, <1>10 DEF AuthorNext, CreateProceeds

\* The marker, or the history variable, covers what the replica does not have.
LEMMA MarkerStep ==
  ASSUME OwnTypeOK, Catching, ProfileCatching, MarkerInv, [AuthorNext]_authorVars,
         ProfileCatching', slave.deleted \subseteq slave'.deleted, slaveProfile <= slaveProfile',
         slaveProfile' \in Nat, edit' \in [Editors -> Edits]
  PROVE  MarkerInv' /\ marker' \in BOOLEAN /\ exposed' \in BOOLEAN
  <1>0. marker \in BOOLEAN /\ exposed \in BOOLEAN
    BY DEF OwnTypeOK
  <1>1. CASE UNCHANGED authorVars
    <2>1. UNCHANGED <<marker, exposed, owes, edit, del, db, slave, slaveProfile>>
      BY <1>1 DEF authorVars, ownVars, vars
    <2>2. MarkedReplicated => MarkedReplicated'
      BY <2>1, MarkedMeaning, MarkedMeaningNext DEF MarkedReplicated
    <2>3. QED
      BY <1>0, <2>1, <2>2 DEF MarkerInv
  <1>2. ASSUME NEW q, Mark(q) PROVE MarkerInv' /\ marker' \in BOOLEAN /\ exposed' \in BOOLEAN
    BY <1>2 DEF Mark, MarkerInv
  <1>3. ASSUME NEW q, MarkFails(q) PROVE MarkerInv' /\ marker' \in BOOLEAN /\ exposed' \in BOOLEAN
    <2>1. marker' = marker /\ exposed' = (exposed \/ (~marker /\ Behind)) /\ (Behind' <=> Behind)
      BY <1>3 DEF MarkFails, Behind, vars
    <2>2. exposed' \in BOOLEAN
      BY <2>1
    <2>3. marker' \/ exposed' \/ ~Behind'
      BY <2>1
    <2>4. QED
      BY <1>0, <2>1, <2>2, <2>3, NotBehind DEF MarkerInv
  <1>4. CASE MarkerExpires
    <2>1. marker' = FALSE /\ exposed' = Behind /\ (Behind' <=> Behind)
      BY <1>4 DEF MarkerExpires, Behind, vars
    <2>2. exposed' \in BOOLEAN
      BY <2>1 DEF Behind
    <2>3. QED
      BY <2>1, <2>2, NotBehind DEF MarkerInv
  <1>5. CASE AuthorNext /\ (\A q : ~Mark(q) /\ ~MarkFails(q)) /\ ~MarkerExpires
    <2>1. OwesKept /\ marker' = marker /\ (exposed' = exposed \/ exposed' = (exposed /\ Behind'))
      BY <1>5, OwesStep
    <2>2. exposed' \in BOOLEAN
      BY <1>0, <2>1
    <2>3. CASE MarkedReplicated
      BY <1>0, <2>1, <2>2, <2>3, MarkedKept DEF MarkerInv
    <2>4. CASE ~MarkedReplicated
      <3>1. marker \/ exposed
        BY <2>4 DEF MarkerInv
      <3>2. marker' \/ exposed' \/ ~Behind'
        <4>1. CASE marker
          BY <2>1, <4>1
        <4>2. CASE exposed /\ exposed' = exposed
          BY <4>2
        <4>3. CASE exposed /\ exposed' = (exposed /\ Behind')
          BY <4>3
        <4>4. QED
          BY <2>1, <3>1, <4>1, <4>2, <4>3
      <3>3. QED
        BY <1>0, <2>1, <2>2, <3>2, NotBehind DEF MarkerInv
    <2>5. QED
      BY <2>3, <2>4
  <1>6. QED
    BY <1>1, <1>2, <1>3, <1>4, <1>5

\* A nonempty set of naturals has a least member.
LEMMA LeastNat ==
  ASSUME NEW T, T \subseteq Nat, T # {}
  PROVE  \E x \in T : \A y \in T : x <= y
  <1> DEFINE R == OpToRel(<, Nat)
  <1>1. IsWellFoundedOn(R, Nat)
    BY NatLessThanWellFounded
  <1>2. \A x, y \in Nat : y < x => <<y, x>> \in R
    BY DEF OpToRel
  <1> HIDE DEF R
  <1>3. PICK x \in T : \A y \in T : ~(<<y, x>> \in R)
    BY <1>1, WFMin
  <1>4. \A y \in T : ~(y < x)
    BY <1>2, <1>3
  <1>5. \A y \in T : x <= y
    BY <1>4
  <1>6. QED
    BY <1>5

\* The last marked edit exists: edits are bounded by that of the profile.
LEMMA MarkedEditIs ==
  ASSUME OwnTypeOK, ProfileCatching
  PROVE  /\ MarkedEdit \in Nat /\ MarkedEdit <= profile
         /\ MarkedEdit = 0 \/ \E e \in Editors : <<"edit", e>> \notin owes /\ MarkedEdit = edit[e].edit
  <1>1. PICK marked : marked = {edit[e].edit : e \in {x \in Editors : <<"edit", x>> \notin owes}} \cup {0}
    OBVIOUS
  <1>2. profile \in Nat /\ \A e \in Editors : edit[e].edit \in Nat /\ edit[e].edit <= profile
    BY DEF OwnTypeOK, ProfileCatching, Edits
  <1>3. ASSUME NEW n \in marked PROVE n \in Nat /\ n <= profile /\ profile - n \in Nat
    <2>1. n \in Nat /\ n <= profile
      <3>1. n = 0 \/ \E e \in Editors : n = edit[e].edit
        BY <1>1, <1>3
      <3>2. QED
        BY <1>2, <3>1
    <2>2. QED
      BY <1>2, <2>1
  <1>4. \E n \in marked : \A m \in marked : m <= n
    <2> DEFINE T == {profile - n : n \in marked}
    <2>1. T \subseteq Nat /\ T # {}
      BY <1>1, <1>3
    <2>2. PICK x \in T : \A y \in T : x <= y
      <3> HIDE DEF T
      <3>1. QED
        BY <2>1, LeastNat
    <2>3. PICK n \in marked : x = profile - n
      BY <2>2
    <2>4. ASSUME NEW m \in marked PROVE m <= n
      <3>1. x <= profile - m
        BY <2>2
      <3>2. QED
        BY <1>2, <1>3, <2>3, <3>1
    <2>5. QED
      BY <2>4
  <1>5. MarkedEdit \in marked
    <2>1. MarkedEdit = CHOOSE n \in marked : \A m \in marked : m <= n
      BY <1>1 DEF MarkedEdit
    <2>2. QED
      BY <1>4, <2>1
  <1>6. QED
    BY <1>1, <1>3, <1>5

\* A view that is not touched stays served.
LEMMA ServedKept ==
  ASSUME OwnTypeOK, NEW r \in Viewers, ViewServed(r), view'[r] = view[r],
         slave.deleted \subseteq slave'.deleted, db.deleted \subseteq db'.deleted,
         slaveProfile <= slaveProfile', profile <= profile',
         slaveProfile' \in Nat, profile' \in Nat
  PROVE  ViewServed(r)'
  <1>1. CASE view[r] = NoView
    BY <1>1 DEF ViewServed
  <1>2. CASE view[r] # NoView
    <2>1. view[r] \in Views /\ view[r].mustSee \in Nat /\ slaveProfile \in Nat /\ profile \in Nat
      BY <1>2 DEF OwnTypeOK, Views
    <2>2. view[r].mustSee <= profile => view[r].mustSee <= profile'
      BY <2>1
    <2>3. view[r].mustSee <= slaveProfile => view[r].mustSee <= slaveProfile'
      BY <2>1
    <2>4. QED
      BY <1>2, <2>2, <2>3 DEF ViewServed
  <1>3. QED
    BY <1>1, <1>2

\* A view starts with what its source has, and keeps to it.
LEMMA ViewStepServed ==
  ASSUME OwnInv, NEW r \in Viewers, ViewStep(r)
  PROVE  /\ DOMAIN view' = Viewers /\ UNCHANGED <<vars, profile, slaveProfile>>
         /\ \A q \in Viewers : q # r => view'[q] = view[q]
         /\ view'[r] = NoView \/ view'[r] \in Views
         /\ ViewServed(r)'
  <1>0. /\ OwnTypeOK /\ ProfileCatching /\ MarkerInv /\ ViewServed(r) /\ DOMAIN view = Viewers
        /\ marker \in BOOLEAN /\ exposed \in BOOLEAN /\ db.deleted \in SUBSET Posts
        /\ profile \in Nat /\ slaveProfile \in Nat
    BY DEF OwnInv, OwnTypeOK, TypeOK, Tables
  <1>1. PICK x : view' = [view EXCEPT ![r] = x]
    BY DEF ViewStep, BeginView, ListByUser, LoadProfile, ViewFails, ViewGoes
  <1>2. /\ DOMAIN view' = Viewers /\ UNCHANGED <<vars, profile, slaveProfile>>
        /\ (\A q \in Viewers : q # r => view'[q] = view[q]) /\ view'[r] = x
    BY <1>0, <1>1 DEF ViewStep, BeginView, ListByUser, LoadProfile, ViewFails, ViewGoes
  <1>3. UNCHANGED <<db, slave>>
    BY <1>2 DEF vars
  <1>4. ASSUME NEW step \in {"list", "author"}, NEW probed \in BOOLEAN, BeginView(r, step, probed)
        PROVE  view'[r] \in Views /\ ViewServed(r)'
    <2>1. PICK h, n : /\ h = IF probed /\ ~exposed THEN MarkedDeletions ELSE {}
                      /\ n = IF probed /\ ~exposed THEN MarkedEdit ELSE 0
      OBVIOUS
    <2>2. view'[r] = [step |-> step, force |-> (probed /\ marker), mustHide |-> h, mustSee |-> n]
      BY <1>0, <1>4, <2>1 DEF BeginView
    <2>3. (probed /\ marker) \in BOOLEAN
      BY <1>0, <1>4
    <2>4. h \in SUBSET Posts /\ h \subseteq db.deleted /\ n \in Nat /\ n <= profile
      <3>1. MarkedDeletions \subseteq db.deleted /\ MarkedEdit \in Nat /\ MarkedEdit <= profile
        BY <1>0, MarkedEditIs DEF MarkedDeletions
      <3>2. QED
        BY <1>0, <2>1, <3>1
    <2>5. ASSUME ~(probed /\ marker) PROVE h \subseteq slave.deleted /\ n <= slaveProfile
      <3>1. CASE probed /\ ~exposed
        <4>1. MarkedReplicated
          BY <1>0, <2>5, <3>1 DEF MarkerInv
        <4>2. h = MarkedDeletions /\ n = MarkedEdit
          BY <2>1, <3>1
        <4>3. n = 0 \/ \E e \in Editors : <<"edit", e>> \notin owes /\ n = edit[e].edit
          BY <1>0, <4>2, MarkedEditIs
        <4>4. QED
          <5>1. n <= slaveProfile
            <6>1. CASE n = 0
              BY <1>0, <6>1
            <6>2. CASE n # 0
              BY <4>1, <4>3, <6>2 DEF MarkedReplicated
            <6>3. QED
              BY <6>1, <6>2
          <5>2. QED
            BY <4>1, <4>2, <5>1 DEF MarkedReplicated
      <3>2. CASE ~(probed /\ ~exposed)
        BY <1>0, <2>1, <3>2
      <3>3. QED
        BY <3>1, <3>2
    <2>6. view'[r] \in Views
      BY <2>2, <2>3, <2>4 DEF Views
    <2>7. view'[r].mustHide = h /\ view'[r].mustSee = n /\ view'[r].force = (probed /\ marker)
      BY <2>2
    <2>8. QED
      BY <1>2, <1>3, <2>4, <2>5, <2>6, <2>7 DEF ViewServed
  <1>5. CASE ListByUser(r)
    <2>1. view[r].step = "list"
      BY <1>5 DEF ListByUser
    <2>2. view[r] \in Views
      BY <1>0, <2>1 DEF OwnTypeOK, NoView
    <2>3. view'[r] = NoView \/ view'[r] = [view[r] EXCEPT !.step = "author"]
      BY <1>0, <1>5 DEF ListByUser, ViewGoes
    <2>4. CASE view'[r] = NoView
      BY <1>2, <2>4 DEF ViewServed
    <2>5. CASE view'[r] = [view[r] EXCEPT !.step = "author"]
      <3>1. view'[r] \in Views
        BY <2>2, <2>5 DEF Views
      <3>2. /\ view'[r].mustHide = view[r].mustHide /\ view'[r].mustSee = view[r].mustSee
            /\ view'[r].force = view[r].force
        BY <2>2, <2>5 DEF Views
      <3>3. view[r] # NoView
        BY <2>1 DEF NoView
      <3>4. QED
        BY <1>0, <1>2, <1>3, <3>1, <3>2, <3>3 DEF ViewServed
    <2>6. QED
      BY <1>2, <2>3, <2>4, <2>5
  <1>6. CASE LoadProfile(r) \/ ViewFails(r)
    <2>1. view'[r] = NoView
      BY <1>0, <1>6 DEF LoadProfile, ViewFails, ViewGoes
    <2>2. QED
      BY <1>2, <2>1 DEF ViewServed
  <1>7. QED
    BY <1>2, <1>4, <1>5, <1>6 DEF ViewStep

\* Every step preserves the invariant.
LEMMA OwnStep == OwnInv /\ [AuthorNext]_authorVars => OwnInv'
  <1>1. SUFFICES ASSUME OwnInv, [AuthorNext]_authorVars PROVE OwnInv'
    OBVIOUS
  <1>2. OwnTypeOK /\ TypeOK /\ Catching /\ ProfileCatching /\ MarkerInv /\ \A r \in Viewers : ViewServed(r)
    BY <1>1 DEF OwnInv, OwnTypeOK
  <1>3. [Next]_vars /\ TypeOK'
    BY <1>1, <1>2, AuthorIsNext, TypeStep
  <1>4. Catching' /\ slave.deleted \subseteq slave'.deleted /\ db.deleted \subseteq db'.deleted
    BY <1>2, <1>3, TablesMove, CatchingStep
  <1>5. /\ ProfileCatching' /\ profile' \in Nat /\ slaveProfile' \in Nat /\ edit' \in [Editors -> Edits]
        /\ slaveProfile <= slaveProfile' /\ profile <= profile'
    BY <1>1, <1>2, ProfileStep
  <1>6. MarkerInv' /\ marker' \in BOOLEAN /\ exposed' \in BOOLEAN
    BY <1>1, <1>2, <1>4, <1>5, MarkerStep
  <1>7. /\ DOMAIN view' = Viewers
        /\ \A r \in Viewers : (view'[r] = NoView \/ view'[r] \in Views) /\ ViewServed(r)'
    <2>1. ASSUME UNCHANGED view
          PROVE  /\ DOMAIN view' = Viewers
                 /\ \A r \in Viewers : (view'[r] = NoView \/ view'[r] \in Views) /\ ViewServed(r)'
      <3>1. \A r \in Viewers : view'[r] = view[r]
        BY <2>1
      <3>2. \A r \in Viewers : ViewServed(r)'
        BY <1>2, <1>4, <1>5, <3>1, ServedKept
      <3>3. QED
        BY <1>2, <2>1, <3>2 DEF OwnTypeOK
    <2>2. ASSUME NEW r \in Viewers, ViewStep(r)
          PROVE  /\ DOMAIN view' = Viewers
                 /\ \A q \in Viewers : (view'[q] = NoView \/ view'[q] \in Views) /\ ViewServed(q)'
      <3>1. /\ DOMAIN view' = Viewers /\ \A q \in Viewers : q # r => view'[q] = view[q]
            /\ view'[r] = NoView \/ view'[r] \in Views
            /\ ViewServed(r)'
        BY <1>1, <2>2, ViewStepServed
      <3>2. ASSUME NEW q \in Viewers, q # r
            PROVE  (view'[q] = NoView \/ view'[q] \in Views) /\ ViewServed(q)'
        <4>1. ViewServed(q)'
          BY <1>2, <1>4, <1>5, <3>1, <3>2, ServedKept
        <4>2. QED
          BY <1>2, <3>1, <3>2, <4>1 DEF OwnTypeOK
      <3>3. QED
        BY <3>1, <3>2
    <2>3. QED
      BY <1>1, <2>1, <2>2
         DEF AuthorNext, authorVars, ownVars, rest, CreateProceeds, InsertPost, CreateRest, DeletePost,
             DeleteRest, Mark, MarkFails, PublishPostEvent, UpdateProfile, ReplicatePosts,
             ReplicateProfile, MarkerExpires
  <1>8. QED
    BY <1>3, <1>4, <1>5, <1>6, <1>7 DEF OwnInv, OwnTypeOK

\* The author has written nothing yet.
LEMMA OwnInit == AuthorInit => OwnInv
  <1>1. SUFFICES ASSUME AuthorInit PROVE OwnInv
    OBVIOUS
  <1>2. TypeOK /\ binlog = <<>> /\ slave = db /\ db.deleted = {}
    BY <1>1, TypeInit DEF AuthorInit, Init
  <1>3. /\ marker = FALSE /\ owes = {} /\ profile = 0 /\ slaveProfile = 0 /\ profileLog = <<>>
        /\ edit = [e \in Editors |-> [step |-> "update", edit |-> 0]]
        /\ view = [r \in Viewers |-> NoView] /\ exposed = FALSE
    BY <1>1 DEF AuthorInit
  <1>4. OwnTypeOK
    <2>1. edit \in [Editors -> Edits]
      BY <1>3 DEF Edits
    <2>2. QED
      BY <1>2, <1>3, <2>1 DEF OwnTypeOK
  <1>5. Catching
    <2>1. \A i \in 1..Len(binlog) : FALSE
      BY <1>2
    <2>2. QED
      BY <1>2, <2>1 DEF Catching
  <1>6. ProfileCatching
    <2>1. profileLog \in Seq(LogEntries) /\ \A i \in 1..Len(profileLog) : FALSE
      BY <1>3
    <2>2. QED
      BY <1>3, <2>1 DEF ProfileCatching
  <1>7. MarkerInv
    BY <1>2, <1>3, MarkedMeaning DEF MarkerInv, MarkedReplicated
  <1>8. \A r \in Viewers : ViewServed(r)
    BY <1>3 DEF ViewServed
  <1>9. QED
    BY <1>4, <1>5, <1>6, <1>7, <1>8 DEF OwnInv

\* What is read is at least as new as what it has to reflect.
LEMMA AnswersReflect ==
  ASSUME OwnInv, NEW r \in Viewers
  PROVE  /\ ListByUser(r) => PostsFor(r) \cap view[r].mustHide = {}
         /\ LoadProfile(r) => ProfileFor(r) >= view[r].mustSee
  <1>1. OwnTypeOK /\ ViewServed(r) /\ profile \in Nat /\ slaveProfile \in Nat
    BY DEF OwnInv, OwnTypeOK
  <1>2. ASSUME view[r].step \in {"list", "author"}
        PROVE  /\ PostsFor(r) \cap view[r].mustHide = {}
               /\ ProfileFor(r) >= view[r].mustSee
    <2>1. view[r] # NoView /\ view[r] \in Views
      BY <1>1, <1>2 DEF OwnTypeOK, NoView
    <2>2. view[r].force \in BOOLEAN /\ view[r].mustSee \in Nat
      BY <2>1 DEF Views
    <2>3. CASE view[r].force
      <3>1. PostsFor(r) = Visible(db) /\ ProfileFor(r) = profile
        BY <2>3 DEF PostsFor, ProfileFor, FromReplica
      <3>2. view[r].mustHide \subseteq db.deleted /\ view[r].mustSee <= profile
        BY <1>1, <2>1 DEF ViewServed
      <3>3. QED
        BY <1>1, <2>2, <3>1, <3>2 DEF Visible
    <2>4. CASE ~view[r].force
      <3>1. PostsFor(r) = Visible(slave) /\ ProfileFor(r) = slaveProfile
        BY <2>4 DEF PostsFor, ProfileFor, FromReplica
      <3>2. view[r].mustHide \subseteq slave.deleted /\ view[r].mustSee <= slaveProfile
        BY <1>1, <2>1, <2>4 DEF ViewServed
      <3>3. QED
        BY <1>1, <2>2, <3>1, <3>2 DEF Visible
    <2>5. QED
      BY <2>3, <2>4
  <1>3. QED
    BY <1>2 DEF ListByUser, LoadProfile

\* An author who asks for his page or his profile sees his own deletions and edits,
\* from the moment their requests have marked him, however far the replica is behind
\* and whatever else goes on, unless Redis failed him or the marker was gone too early
\* (write_marker.go:7-17, force_master.go).
THEOREM AuthorSeesOwnWrites == AuthorSpec => OwnWritesSeen
  <1>1. OwnInv => \A r \in Viewers :
                     /\ ListByUser(r) => PostsFor(r) \cap view[r].mustHide = {}
                     /\ LoadProfile(r) => ProfileFor(r) >= view[r].mustSee
    BY AnswersReflect
  <1>2. AuthorSpec => []OwnInv
    BY OwnInit, OwnStep, PTL DEF AuthorSpec
  <1>3. QED
    BY <1>1, <1>2, PTL DEF OwnWritesSeen

\* The author's page adds to PostFeed and changes none of its steps, so that what
\* holds of PostFeed holds of it: the two runs check one behaviour.
THEOREM AuthorPageImplementsPostFeed == AuthorSpec => Spec
  <1>1. AuthorInit => Init
    BY DEF AuthorInit
  <1>2. [AuthorNext]_authorVars => [Next]_vars
    BY AuthorIsNext
  <1>3. QED
    BY <1>1, <1>2, PTL DEF AuthorSpec, Spec

=============================================================================
