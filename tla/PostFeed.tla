------------------------------ MODULE PostFeed ------------------------------
(***************************************************************************)
(* The life of a post and the home feed that shows it: Create, Delete and  *)
(* ListFeed of internal/service/post_service.go, the version-keyed page    *)
(* cache of internal/cache/feed_cache.go, the moderation pipeline of       *)
(* internal/consumer/audit_consumer.go, and the read/write split that      *)
(* DBResolver makes of MySQL (reads go to a replica).                      *)
(*                                                                         *)
(* One step per statement or Redis command.  Scene and cursor only select  *)
(* among independent pages; one page, the first of the home feed, is kept. *)
(* is_visible is set with audit_status in one UPDATE and is 1 exactly for  *)
(* status pass, so the status stands for both.                             *)
(***************************************************************************)
EXTENDS Integers, Sequences

CONSTANTS
    Posts,
    Deleters,       \* handler goroutines running Delete
    Readers,        \* handler goroutines running ListFeed
    Split,          \* TRUE: slaves_dsn is set, reads go to a lagging replica
    MySQLMayFail,   \* TRUE: a statement may return an error, without effect
    RedisMayFail,   \* TRUE: a Redis command may return an error
    PublishMayFail, \* TRUE: the bus may refuse an event
    ReviewMayFail,  \* TRUE: the content safety API may return an error
    MaxRedeliveries \* bound on the audit events delivered a second time

ASSUME PostFeedAssumption ==
    /\ Split \in BOOLEAN
    /\ MySQLMayFail \in BOOLEAN
    /\ RedisMayFail \in BOOLEAN
    /\ PublishMayFail \in BOOLEAN
    /\ ReviewMayFail \in BOOLEAN
    /\ MaxRedeliveries \in Nat

VARIABLES
    db,             \* the posts table on the master
    slave,          \* the posts table on the replica
    binlog,         \* states of the table the replica has yet to take
    ver,            \* feed:ver
    cache,          \* feed pages: <<v, page>> for key feed:s0:v{v}:c0
    create,         \* create[p]: the request that creates p
    del,            \* del[d]: what deleter d does, and to which post
    audit,          \* what AuditConsumer does, to which post, with which verdict
    auditLog,       \* the audit_log table: verdicts given, <<p, verdict>>
    queued,         \* queued[p]: audit events of p waiting for the consumer
    redelivered,    \* number of redeliveries so far
    read,           \* read[r]: the ListFeed request of reader r
    delEvents,      \* history: delEvents[p] counts PostDeletedEvents of p
    missed,         \* history: posts the pages of this version may be wrong in:
                    \* since the last bump one of theirs failed, a redelivered
                    \* event took an approval back (which does not bump), or a
                    \* page was read from a replica that was behind
    lost            \* history: posts whose audit event ended without a verdict

vars == <<db, slave, binlog, ver, cache, create, del, audit, auditLog, queued,
          redelivered, read, delEvents, missed, lost>>

Statuses == {"none", "pending", "pass", "reject"}

Verdicts == {"pass", "reject"}

Tables == [status : [Posts -> Statuses], deleted : SUBSET Posts]

CreateSteps == {"new", "publish", "bump", "returned", "failed"}
DeleteSteps == {"idle", "find", "delete", "publish", "bump", "returned"}
AuditSteps == {"idle", "find", "review", "log", "update", "bump"}
ReadSteps == {"idle", "getVer", "getFeed", "query", "set", "respond"}

Requests == [step : ReadSteps, ver : Nat, cached : BOOLEAN, page : SUBSET Posts,
             mustShow : SUBSET Posts, mustHide : SUBSET Posts]

NoRequest == [step |-> "idle", ver |-> 0, cached |-> FALSE, page |-> {},
              mustShow |-> {}, mustHide |-> {}]

TypeOK ==
    /\ db \in Tables
    /\ slave \in Tables
    /\ binlog \in Seq(Tables)
    /\ ver \in Nat
    /\ cache \subseteq Nat \X SUBSET Posts
    /\ create \in [Posts -> CreateSteps]
    /\ del \in [Deleters -> [step : DeleteSteps, post : Posts]]
    /\ audit \in [step : AuditSteps, post : Posts, verdict : Verdicts]
    /\ auditLog \subseteq Posts \X Verdicts
    /\ queued \in [Posts -> Nat]
    /\ redelivered \in Nat
    /\ read \in [Readers -> Requests]
    /\ delEvents \in [Posts -> Nat]
    /\ missed \subseteq Posts
    /\ lost \subseteq Posts

\* What ListFeed's query selects: GORM leaves out soft-deleted rows.
Visible(t) == {p \in Posts : t.status[p] = "pass" /\ p \notin t.deleted}

Found(t, p) == t.status[p] # "none" /\ p \notin t.deleted

Init ==
    /\ db = [status |-> [p \in Posts |-> "none"], deleted |-> {}]
    /\ slave = db
    /\ binlog = <<>>
    /\ ver = 0
    /\ cache = {}
    /\ create = [p \in Posts |-> "new"]
    /\ \E p \in Posts :
          /\ del = [d \in Deleters |-> [step |-> "idle", post |-> p]]
          /\ audit = [step |-> "idle", post |-> p, verdict |-> "reject"]
    /\ auditLog = {}
    /\ queued = [p \in Posts |-> 0]
    /\ redelivered = 0
    /\ read = [r \in Readers |-> NoRequest]
    /\ delEvents = [p \in Posts |-> 0]
    /\ missed = {}
    /\ lost = {}

-----------------------------------------------------------------------------
(* MySQL and Redis *)

\* A committed write on the master.
Commit(t) ==
    /\ db' = t
    /\ IF Split
       THEN binlog' = Append(binlog, t) /\ UNCHANGED slave
       ELSE slave' = t /\ UNCHANGED binlog

NoCommit == UNCHANGED <<db, slave, binlog>>

Replicate ==
    /\ binlog # <<>>
    /\ slave' = Head(binlog)
    /\ binlog' = Tail(binlog)
    /\ UNCHANGED <<db, ver, cache, create, del, audit, auditLog, queued,
                   redelivered, read, delEvents, missed, lost>>

\* Variant: invalidation by deleting the cached pages, without versions.
BumpFeedVersionFlush(changed) ==
    /\ cache' = {}
    /\ missed' = {}
    /\ UNCHANGED ver

\* BumpFeedVersion after a write that changed the visibility of the posts in
\* changed; an error is only logged.
BumpFeedVersion(changed) ==
    \/ /\ ver' = ver + 1
       /\ missed' = {}
       /\ UNCHANGED cache
    \/ /\ RedisMayFail
       /\ missed' = missed \cup changed
       /\ UNCHANGED <<ver, cache>>

\* The TTL of a page runs out.
ExpirePage ==
    /\ \E entry \in cache : cache' = cache \ {entry}
    /\ UNCHANGED <<db, slave, binlog, ver, create, del, audit, auditLog, queued,
                   redelivered, read, delEvents, missed, lost>>

-----------------------------------------------------------------------------
(* PostService.Create *)

CreateInsert(p) ==
    /\ create[p] = "new"
    /\ \/ /\ Commit([db EXCEPT !.status[p] = "pending"])
          /\ create' = [create EXCEPT ![p] = "publish"]
       \/ /\ MySQLMayFail /\ NoCommit
          /\ create' = [create EXCEPT ![p] = "failed"]
    /\ UNCHANGED <<ver, cache, del, audit, auditLog, queued, redelivered, read,
                   delEvents, missed, lost>>

PublishAuditEvent(p) ==
    /\ create[p] = "publish"
    /\ \/ queued' = [queued EXCEPT ![p] = @ + 1] /\ UNCHANGED lost
       \/ PublishMayFail /\ lost' = lost \cup {p} /\ UNCHANGED queued
    /\ create' = [create EXCEPT ![p] = "bump"]
    /\ UNCHANGED <<db, slave, binlog, ver, cache, del, audit, auditLog,
                   redelivered, read, delEvents, missed>>

CreateBump(p) ==
    /\ create[p] = "bump"
    /\ BumpFeedVersion({})
    /\ create' = [create EXCEPT ![p] = "returned"]
    /\ UNCHANGED <<db, slave, binlog, del, audit, auditLog, queued, redelivered,
                   read, delEvents, lost>>

CreateStep(p) == CreateInsert(p) \/ PublishAuditEvent(p) \/ CreateBump(p)

-----------------------------------------------------------------------------
(* PostService.Delete, called by the author *)

DeleteGoto(d, step) == del' = [del EXCEPT ![d].step = step]

BeginDelete(d, p) ==
    /\ del[d].step = "idle"
    /\ create[p] = "returned"
    /\ del' = [del EXCEPT ![d] = [step |-> "find", post |-> p]]
    /\ UNCHANGED <<db, slave, binlog, ver, cache, create, audit, auditLog,
                   queued, redelivered, read, delEvents, missed, lost>>

DeleteFind(d) ==
    /\ del[d].step = "find"
    /\ \/ DeleteGoto(d, IF Found(slave, del[d].post) THEN "delete" ELSE "returned")
       \/ MySQLMayFail /\ DeleteGoto(d, "returned")
    /\ UNCHANGED <<db, slave, binlog, ver, cache, create, audit, auditLog,
                   queued, redelivered, read, delEvents, missed, lost>>

\* Variant: RowsAffected is not looked at.
SoftDeleteUnchecked(d) ==
    /\ del[d].step = "delete"
    /\ Commit([db EXCEPT !.deleted = @ \cup {del[d].post}])
    /\ DeleteGoto(d, "publish")
    /\ UNCHANGED <<ver, cache, create, audit, auditLog, queued, redelivered,
                   read, delEvents, missed, lost>>

\* SoftDeleteByOwner: no row affected means that another Delete came first.
SoftDeleteByOwner(d) ==
    /\ del[d].step = "delete"
    /\ \/ /\ Found(db, del[d].post)
          /\ Commit([db EXCEPT !.deleted = @ \cup {del[d].post}])
          /\ DeleteGoto(d, "publish")
       \/ /\ ~Found(db, del[d].post) \/ MySQLMayFail
          /\ NoCommit
          /\ DeleteGoto(d, "returned")
    /\ UNCHANGED <<ver, cache, create, audit, auditLog, queued, redelivered,
                   read, delEvents, missed, lost>>

PublishPostDeletedEvent(d) ==
    /\ del[d].step = "publish"
    /\ \/ delEvents' = [delEvents EXCEPT ![del[d].post] = @ + 1]
       \/ PublishMayFail /\ UNCHANGED delEvents
    /\ DeleteGoto(d, "bump")
    /\ UNCHANGED <<db, slave, binlog, ver, cache, create, audit, auditLog,
                   queued, redelivered, read, missed, lost>>

DeleteBump(d) ==
    /\ del[d].step = "bump"
    /\ BumpFeedVersion({del[d].post})
    /\ DeleteGoto(d, "returned")
    /\ UNCHANGED <<db, slave, binlog, create, audit, auditLog, queued,
                   redelivered, read, delEvents, lost>>

DeleteStep(d) ==
    \/ DeleteFind(d)
    \/ SoftDeleteByOwner(d)
    \/ PublishPostDeletedEvent(d)
    \/ DeleteBump(d)

-----------------------------------------------------------------------------
(* AuditConsumer.process, one event at a time *)

AuditGoto(step) == audit' = [audit EXCEPT !.step = step]

\* Variant: the consumer does not check that there is an event.
AuditReceiveUnchecked(p) ==
    /\ audit.step = "idle"
    /\ queued' = [queued EXCEPT ![p] = @ - 1]
    /\ audit' = [audit EXCEPT !.step = "find", !.post = p]
    /\ UNCHANGED <<db, slave, binlog, ver, cache, create, del, auditLog,
                   redelivered, read, delEvents, missed, lost>>

AuditReceive(p) ==
    /\ audit.step = "idle"
    /\ queued[p] > 0
    /\ queued' = [queued EXCEPT ![p] = @ - 1]
    /\ audit' = [audit EXCEPT !.step = "find", !.post = p]
    /\ UNCHANGED <<db, slave, binlog, ver, cache, create, del, auditLog,
                   redelivered, read, delEvents, missed, lost>>

\* The event ends without a verdict; it is acknowledged all the same.
AuditGiveUp ==
    /\ AuditGoto("idle")
    /\ lost' = lost \cup {audit.post}

\* "load post failed": the event is dropped.
AuditFind ==
    /\ audit.step = "find"
    /\ \/ Found(slave, audit.post) /\ AuditGoto("review") /\ UNCHANGED lost
       \/ ~Found(slave, audit.post) /\ AuditGiveUp
       \/ MySQLMayFail /\ AuditGiveUp
    /\ UNCHANGED <<db, slave, binlog, ver, cache, create, del, auditLog, queued,
                   redelivered, read, delEvents, missed>>

Verdict(v) == audit' = [audit EXCEPT !.step = "log", !.verdict = v]

\* Variant: only approvals go on.
AuditReviewPassOnly ==
    /\ audit.step = "review"
    /\ Verdict("pass") \/ AuditGoto("idle")
    /\ UNCHANGED <<db, slave, binlog, ver, cache, create, del, auditLog,
                   queued, redelivered, read, delEvents, missed, lost>>

\* The verdict is the provider's; on an error the post stays pending.
AuditReview ==
    /\ audit.step = "review"
    /\ \/ (\E v \in Verdicts : Verdict(v)) /\ UNCHANGED lost
       \/ ReviewMayFail /\ AuditGiveUp
    /\ UNCHANGED <<db, slave, binlog, ver, cache, create, del, auditLog,
                   queued, redelivered, read, delEvents, missed>>

\* Variant: the row is written only for approvals.
AuditLogCreatePassOnly ==
    /\ audit.step = "log"
    /\ auditLog' = auditLog \cup {<<audit.post, "pass">>}
    /\ AuditGoto("update")
    /\ UNCHANGED <<db, slave, binlog, ver, cache, create, del, queued, redelivered,
                   read, delEvents, missed, lost>>

\* auditRepo.Create; on an error the post is updated all the same.
AuditLogCreate ==
    /\ audit.step = "log"
    /\ \/ auditLog' = auditLog \cup {<<audit.post, audit.verdict>>}
       \/ MySQLMayFail /\ UNCHANGED auditLog
    /\ AuditGoto("update")
    /\ UNCHANGED <<db, slave, binlog, ver, cache, create, del, queued, redelivered,
                   read, delEvents, missed, lost>>

\* The posts the UPDATE takes out of the feed.
TakenBack == IF audit.verdict = "reject" THEN {audit.post} \cap Visible(db) ELSE {}

\* Requests under way no longer owe their client the posts in taken.
NoLongerOwed(taken) == [r \in Readers |-> [read[r] EXCEPT !.mustShow = @ \ taken]]

\* Variant: the approval is not followed by a bump.
UpdateAuditStatusNoBump ==
    /\ audit.step = "update"
    /\ IF audit.post \in db.deleted
       THEN NoCommit
       ELSE Commit([db EXCEPT !.status[audit.post] = audit.verdict])
    /\ AuditGoto("idle")
    /\ missed' = missed \cup TakenBack
    /\ read' = NoLongerOwed(TakenBack)
    /\ UNCHANGED <<ver, cache, create, del, auditLog, queued, redelivered,
                   delEvents, lost>>

\* The UPDATE does not touch a soft-deleted row.  Only an approval bumps.
UpdateAuditStatus ==
    /\ audit.step = "update"
    /\ \/ /\ IF audit.post \in db.deleted
             THEN NoCommit
             ELSE Commit([db EXCEPT !.status[audit.post] = audit.verdict])
          /\ AuditGoto(IF audit.verdict = "pass" THEN "bump" ELSE "idle")
          /\ missed' = missed \cup TakenBack
          /\ read' = NoLongerOwed(TakenBack)
          /\ UNCHANGED lost
       \/ MySQLMayFail /\ NoCommit /\ AuditGiveUp /\ UNCHANGED <<missed, read>>
    /\ UNCHANGED <<ver, cache, create, del, auditLog, queued, redelivered,
                   delEvents>>

AuditBump ==
    /\ audit.step = "bump"
    /\ BumpFeedVersion({audit.post} \ db.deleted)
    /\ AuditGoto("idle")
    /\ UNCHANGED <<db, slave, binlog, create, del, auditLog, queued,
                   redelivered, read, delEvents, lost>>

AuditStep ==
    \/ \E p \in Posts : AuditReceive(p)
    \/ AuditFind
    \/ AuditReview
    \/ AuditLogCreate
    \/ UpdateAuditStatus
    \/ AuditBump

\* RabbitMQ delivers an event again whose acknowledgement it did not get.
Redeliver(p) ==
    /\ redelivered < MaxRedeliveries
    /\ redelivered' = redelivered + 1
    /\ create[p] \in {"bump", "returned"}
    /\ queued[p] = 0
    /\ queued' = [queued EXCEPT ![p] = 1]
    /\ UNCHANGED <<db, slave, binlog, ver, cache, create, del, audit, auditLog,
                   read, delEvents, missed, lost>>

-----------------------------------------------------------------------------
(* PostService.ListFeed *)

\* Posts whose deletion or approval is committed and its bump still to come.
Pending ==
    {p \in Posts :
        \/ \E d \in Deleters : del[d].post = p /\ del[d].step \in {"publish", "bump"}
        \/ audit.post = p /\ audit.step = "bump" /\ p \notin db.deleted}

\* Posts in which two states of the table differ for ListFeed.
Differing(t, u) == (Visible(t) \cup Visible(u)) \ (Visible(t) \cap Visible(u))

\* Posts whose visibility on the replica is not that on the master, now or while
\* it catches up.
Lagging ==
    Differing(slave, db) \cup UNION {Differing(binlog[i], db) : i \in DOMAIN binlog}

\* Posts whose last change of visibility is on the replica and was followed by a
\* successful bump.
Settled == Posts \ (Pending \cup missed \cup Lagging)

\* mustShow and mustHide record what was settled when the request arrived, less
\* what a later verdict takes back.
BeginRead(r) ==
    /\ read[r].step = "idle"
    /\ read' = [read EXCEPT ![r] =
                   [step |-> "getVer", ver |-> 0, cached |-> FALSE, page |-> {},
                    mustShow |-> Settled \cap Visible(db),
                    mustHide |-> Settled \cap db.deleted]]
    /\ UNCHANGED <<db, slave, binlog, ver, cache, create, del, audit, auditLog,
                   queued, redelivered, delEvents, missed, lost>>

\* On an error the cache is bypassed for this request.
GetFeedVersion(r) ==
    /\ read[r].step = "getVer"
    /\ \/ read' = [read EXCEPT ![r] = [@ EXCEPT !.step = "getFeed", !.ver = ver,
                                                !.cached = TRUE]]
       \/ RedisMayFail /\ read' = [read EXCEPT ![r].step = "query"]
    /\ UNCHANGED <<db, slave, binlog, ver, cache, create, del, audit, auditLog,
                   queued, redelivered, delEvents, missed, lost>>

GetFeed(r) ==
    /\ read[r].step = "getFeed"
    /\ LET hits == {entry \in cache : entry[1] = read[r].ver}
       IN  \/ \E hit \in hits :
                 read' = [read EXCEPT ![r] = [@ EXCEPT !.step = "respond",
                                                       !.page = hit[2]]]
           \/ /\ hits = {} \/ RedisMayFail
              /\ read' = [read EXCEPT ![r].step = "query"]
    /\ UNCHANGED <<db, slave, binlog, ver, cache, create, del, audit, auditLog,
                   queued, redelivered, delEvents, missed, lost>>

ListFeedQuery(r) ==
    /\ read[r].step = "query"
    /\ LET next == IF read[r].cached THEN "set" ELSE "respond"
       IN  \/ /\ read' = [read EXCEPT ![r] = [@ EXCEPT !.step = next,
                                                      !.page = Visible(slave)]]
              /\ missed' = IF read[r].cached THEN missed \cup Differing(slave, db)
                                             ELSE missed
           \/ MySQLMayFail /\ read' = [read EXCEPT ![r] = NoRequest] /\ UNCHANGED missed
    /\ UNCHANGED <<db, slave, binlog, ver, cache, create, del, audit, auditLog,
                   queued, redelivered, delEvents, lost>>

\* The page is stored under the version read at the start of the request.
SetFeed(r) ==
    /\ read[r].step = "set"
    /\ \/ LET v == read[r].ver
          IN  cache' = {entry \in cache : entry[1] # v} \cup {<<v, read[r].page>>}
       \/ RedisMayFail /\ UNCHANGED cache
    /\ read' = [read EXCEPT ![r].step = "respond"]
    /\ UNCHANGED <<db, slave, binlog, ver, create, del, audit, auditLog, queued,
                   redelivered, delEvents, missed, lost>>

Respond(r) ==
    /\ read[r].step = "respond"
    /\ read' = [read EXCEPT ![r] = NoRequest]
    /\ UNCHANGED <<db, slave, binlog, ver, cache, create, del, audit, auditLog,
                   queued, redelivered, delEvents, missed, lost>>

ReadStep(r) ==
    \/ GetFeedVersion(r)
    \/ GetFeed(r)
    \/ ListFeedQuery(r)
    \/ SetFeed(r)
    \/ Respond(r)

-----------------------------------------------------------------------------

Next ==
    \/ \E p \in Posts : CreateStep(p) \/ Redeliver(p)
    \/ \E d \in Deleters : DeleteStep(d) \/ \E p \in Posts : BeginDelete(d, p)
    \/ \E r \in Readers : ReadStep(r) \/ BeginRead(r)
    \/ AuditStep
    \/ Replicate
    \/ ExpirePage

Spec == Init /\ [][Next]_vars

(***************************************************************************)
(* Fairness: started requests go on, the consumer's goroutine is scheduled *)
(* and replication makes progress.  No request need arrive.                *)
(***************************************************************************)
Fairness ==
    /\ \A p \in Posts : WF_vars(PublishAuditEvent(p) \/ CreateBump(p))
    /\ WF_vars(AuditStep)
    /\ WF_vars(Replicate)

FairSpec == Spec /\ Fairness

-----------------------------------------------------------------------------
(* Properties *)

\* The page is up to date with every settled post.
Shows(page) == \A p \in Settled : p \in page <=> p \in Visible(db)

\* A page cached under the current version shows exactly the visible posts, as
\* far as their last change was followed by its bump: neither a write between
\* a reader's query and its SET nor one between its GET of the version and its
\* query can leave a stale page behind (feed_cache.go:25-35).  With a replica a
\* page read while it was behind may be wrong in the posts it was behind in, until
\* the next bump, and in no others.
FeedFresh == \A entry \in cache : entry[1] = ver => Shows(entry[2])

\* The page answers r's request: it has no post whose deletion was finished when
\* the request arrived, and every post whose approval was, unless it has been
\* taken away meanwhile.
Serves(r, page) ==
    /\ page \cap read[r].mustHide = {}
    /\ read[r].mustShow \cap Visible(db) \subseteq page

\* What the client of ListFeed gets answers its request, whether it comes from
\* the cache, possibly under a version that is no longer current, or from MySQL
\* (post_service.go:312-371), also while the replica falls behind and catches up.
ReadSettled == \A r \in Readers : read[r].step = "respond" => Serves(r, read[r].page)

\* Two Deletes of one post may both find it, but only one publishes the event
\* that takes it off the author's post_count (post_repository.go:274-276).
DeletedEventOnce == \A p \in Posts : delEvents[p] <= 1

\* A created post is eventually approved or rejected, unless it is deleted or
\* its audit event is lost on the way: refused by the bus, or ended by an error
\* in one of the consumer's steps (post_service.go:136-139).
EventuallyReviewed ==
    \A p \in Posts :
        db.status[p] = "pending" ~>
            db.status[p] # "pending" \/ p \in db.deleted \/ p \in lost

\* While MySQL answers, a post carries a verdict only with its audit_log row, the
\* compliance trail, also when an event is delivered again and the second
\* verdict differs (audit_consumer.go:170-171).
VerdictLogged ==
    ~MySQLMayFail =>
        \A p \in Posts : db.status[p] \in Verdicts => <<p, db.status[p]>> \in auditLog

-----------------------------------------------------------------------------
(***************************************************************************)
(* The inductive invariants behind DeletedEventOnce, and behind FeedFresh  *)
(* and ReadSettled.                                                        *)
(***************************************************************************)

\* A deleter that goes on has deleted its post, alone, and before its event.
DeleteInv ==
    /\ \A d \in Deleters :
          /\ del[d].step \in {"publish", "bump"} => del[d].post \in db.deleted
          /\ del[d].step = "publish" => delEvents[del[d].post] = 0
    /\ \A d, e \in Deleters :
          del[d].step = "publish" /\ del[e].step = "publish" /\ del[d].post = del[e].post
            => d = e
    /\ \A p \in Posts \ db.deleted : delEvents[p] = 0

\* Nobody reviews a post before it is created.
CreatedFirst ==
    /\ \A p \in Posts : create[p] = "new" => db.status[p] = "none" /\ queued[p] = 0
    /\ audit.step # "idle" => create[audit.post] # "new"

\* No version is ahead of feed:ver.
VersionInv ==
    /\ \A entry \in cache : entry[1] <= ver
    /\ \A r \in Readers : read[r].ver <= ver

\* The page is right about every post but those with a bump to come and those
\* the history says it may be wrong in; it need not be on the replica.
UpToDate(page) ==
    \A p \in Posts \ (Pending \cup missed) : p \in page <=> p \in Visible(db)

\* So are the pages under the current version, stored or about to be.
PagesUpToDate ==
    /\ \A entry \in cache : entry[1] = ver => UpToDate(entry[2])
    /\ \A r \in Readers :
          read[r].step = "set" /\ read[r].ver = ver => UpToDate(read[r].page)

\* The states of the table a query may yet be answered from.
TableStates == {db, slave} \cup {binlog[i] : i \in DOMAIN binlog}

\* What a request owes its client every state of the table will give it.
OwedByAll ==
    \A r \in Readers :
        /\ \A p \in read[r].mustHide :
              p \in db.deleted /\ \A t \in TableStates : p \notin Visible(t)
        /\ \A p \in read[r].mustShow :
              /\ db.status[p] = "pass"
              /\ p \in Visible(db) => \A t \in TableStates : p \in Visible(t)

\* The version under which r looks, or will look, for a page.
LookedUp(r) == IF read[r].step = "getVer" THEN ver ELSE read[r].ver

\* The page r holds, and whatever it may yet find under its version, answers its
\* request.
PagesServe ==
    \A r \in Readers :
        /\ read[r].step \in {"set", "respond"} => Serves(r, read[r].page)
        /\ read[r].step \in {"getVer", "getFeed"} =>
              /\ \A entry \in cache : entry[1] = LookedUp(r) => Serves(r, entry[2])
              /\ \A q \in Readers :
                    read[q].step = "set" /\ read[q].ver = LookedUp(r) =>
                        Serves(r, read[q].page)

FeedInv ==
    /\ TypeOK
    /\ CreatedFirst
    /\ VersionInv
    /\ PagesUpToDate
    /\ OwedByAll
    /\ PagesServe

=============================================================================
