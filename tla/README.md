# A TLA+ specification of cooking-platform

cooking-platform is the Go backend of a recipe-sharing site: posts with
moderation, likes, follows, a home feed, accounts by SMS code, and uploads. It
writes to MySQL (optionally with a read replica), keeps sets, counters, pages
and marks in Redis, and moves slow work behind an event bus that is either
in-process Go channels or RabbitMQ. Most of what can go wrong in it happens
between two round trips: another request, an error, a redelivery or a shutdown
comes in between. The modules here take one step per round trip, statement or
channel operation, and ask what holds whatever comes in between.

Paths below are relative to the repository root; `like_consumer.go:225` is
short for `internal/consumer/like_consumer.go`, line 225.

## 1. Inventory

| Component | State | Operations | Hard part | What makes it correct | Status |
|---|---|---|---|---|---|
| In-process bus, `internal/event/channel.go` | subscriber lists, closed flag, one channel per subscription | Publish, Subscribe, drain, Close | Publish copies the list before it sends; full channels drop; drain at cancellation | no event stranded in a channel nobody reads, none silently lost | ChannelBus |
| RabbitMQ bus, `internal/event/rabbitmq.go` | connection, publish channel, queues, unacknowledged deliveries | Publish (retry), Subscribe (reconnect), handleDelivery, drain, Close | lost connection, redelivery, retry of a sent message, attempt limit | an accepted event is in the queue, in a handler, or acknowledged | RabbitMQBus (without Close and the dead-letter queue) |
| Like consumer, `internal/consumer/like_consumer.go` | eventCh, two batch buffers, likes table, posts.like_count | two handlers, flushLoop, flush, flushWithCtx, scaleDeltas | select at random; three goroutines at shutdown; half-done flush | everything drained; rows and counters agree; order kept | LikeConsumer, LikeFlush, ScaleDeltas |
| Count consumer, `internal/consumer/count_consumer.go` | eventCh, aggregated deltas, users.* counters, deduplication marks | six handlers, flushLoop, flushWithCtx | redelivery, crash after the mark, one user of two failing | a delta counted once at most; nothing lost unaccounted for | CountConsumer |
| Deduplication, `internal/cache/event_dedup_cache.go` | dedup keys in Redis | SeenOrMark | fails open | a marked event is handled, being handled, or accounted as lost | in CountConsumer (without the 24 h expiry) |
| Page views, `post_service.go`, `feed_cache.go`, `pv_consumer.go` | pv:dup marks, eventCh, deltas, posts.view_count | GetDetail, MarkPVSeen, recordPV, consumer | concurrent views, expiring mark, redelivery | a viewer counts once per window | PageViews, on CountConsumer |
| Consumer manager and server, `manager.go`, `cmd/server/main.go` | context, wait group, phase of shutdown | StartAll, Shutdown, main | three phases, each with a deadline | bus and pool closed last; shutdown ends | GracefulShutdown |
| Like service and cache, `like_service.go`, `like_cache.go` | like:set, like:cnt in Redis | Like, Unlike, status and count reads | probe and mutation apart; SREM and DECR apart; lost replies; TTL | counter and events match the set | LikeService |
| Post service, feed cache, `post_service.go`, `feed_cache.go` | posts table, feed:ver, cached pages | Create, Delete, ListFeed, GetDetail, ListByUser | version bump after write; page stored after other writes; replica | no stale page under the current version; one deletion event; authors see their own writes | PostFeed, PageViews, AuthorPage |
| Moderation, `audit_consumer.go`, `audit_repository.go` | audit_log, posts.audit_status | process | redelivery, API errors, replica | verdict logged before shown; every post reviewed | PostFeed |
| Follow service, `follow_service.go`, `follow_repository.go` | follows table | Follow, Unfollow, two lists | Exists and limit read before the INSERT, on a replica | one event per edge change; cap; answers that are true | Follow |
| Write marker, `write_marker.go`, `force_master.go` | write:user:{id} keys | Mark, Has, Apply | marker after the commit, expiry before the replica catches up | read your own writes | in Follow and AuthorPage |
| Accounts, `user_service.go`, `user_cache.go`, `user_repository.go` | SMS codes, windows, daily counters, users table | SendCode, Login, profile reads and edits | INCR without EXPIRE; GET and DEL of a code; first logins racing | limits hold; counters expire; a code is used once; one user per phone | Account; profile in AuthorPage |
| Tokens, `pkg/jwt`, `middleware/auth.go` | claims, jwt:bl, user:ban | issue, Parse, Refresh, Logout, VerifyAccessToken | expiry of token and blacklist key between two steps; fails open | logout holds | Session |
| Uploads, `upload_service.go`, `upload_cache.go` | nonces in Redis | Presign, Callback | duplicate callbacks, lost replies, two lifetimes | a nonce is redeemed once, and lives as long as its URL | Upload |
| Rate limiting, `middleware/ratelimit.go` | a sorted set of milliseconds per user | slidingWindowAllow | count and record apart; Redis down | at most the limit per window | RateLimit |
| Phone migration, `cmd/migrate-phone` | users rows | batches, dry run | crash, restart, two runs, logins meanwhile | idempotent and complete | PhoneMigration |
| Search, DLX monitor, providers, configuration, DTOs | none of their own | reads, formatting, remote calls | | | left out, section 8 |

How they interact: handlers call services; services change Redis or MySQL and
publish as their last act, never failing the request when the bus refuses;
consumers subscribe through the bus, batch in memory and write to MySQL on a
full batch, a tick, or at shutdown. `main` wires them and takes them down: HTTP
server first, then consumers, then bus and connections. On the channel bus every
subscription receives its own copy of an event; on RabbitMQ all subscriptions to
a topic share one queue.

`PROJECT.json` lists the hazards, each at its line, with the properties that
would catch it.

## 2. Modules

| Module | Models | Extends |
|---|---|---|
| ChannelBus | Publish (closed check, copy of the list, one send per channel), the Subscribe goroutine, drain, Close | |
| LikeConsumer | handlers, flush loop, drain and the two halves of a flush, on the channel bus | ChannelBus |
| GracefulShutdown | requests, ConsumerManager, the three phases of main | LikeConsumer |
| EventDelivery | abstract: what bus and batching consumer promise a publisher | |
| LikeService | Like and Unlike, one step per Redis round trip | |
| ScaleDeltas | apportioning MySQL's row count over the posts of a batch | |
| LikeFlush | what a flush does to `likes` and `posts.like_count`, one step per statement | ScaleDeltas |
| PostFeed | Create, Delete, ListFeed, moderation, the versioned page cache, the replica | |
| RabbitMQBus | Publish with retries, Subscribe with reconnection, deliveries and acknowledgements over a broker that requeues | |
| CountConsumer | deduplication, sends, aggregation, UPDATEs, drain, crash and restart | RabbitMQBus |
| PageViews | GetDetail, the pv:dup mark, the PVConsumer | CountConsumer |
| AuthorPage | ListByUser, GetMyProfile, UpdateProfile, the marker | PostFeed |
| Follow | Follow, Unfollow, the lists, marker and replica | |
| Account | SendCode, Login, keys and users table | |
| PhoneMigration | cmd/migrate-phone beside the running server | Account |
| Session | tokens, Refresh, Logout, Auth | |
| RateLimit | the sliding window behind Auth | Session |
| Upload | Presign and Callback behind both | RateLimit |
| GracefulShutdownProofs, LikeServiceProofs, LikeFlushProofs, FollowProofs | theorems | their module |
| PostFeedProofs | theorems on PostFeed and AuthorPage | AuthorPage |
| CountConsumerProofs | theorems on RabbitMQBus, CountConsumer and PageViews | PageViews |
| PhoneMigrationProofs | theorems on Account and PhoneMigration | PhoneMigration |
| UploadProofs | theorems on Session, RateLimit and Upload | Upload |
| MC... | the constants of the runs | their module |

**ChannelBus.** `ch[s]` is the buffered channel of subscription `s`, `pub[e]`
and `todo[e]` the program counter of Publish and the part of its copied list it
has not served, `sub[s]` and `hand[s]` the Subscribe goroutine and the event its
handler has. `sent` and `dropped` are histories. Publish is three kinds of
steps (PublishCheck, PublishSnapshot, PublishSend), because the read lock is
released before the sends.

**LikeConsumer.** A handler forwards its event to `eventCh` (HandlerForward) or
gives up at `ctx.Done()` (HandlerCtxDone). `loop` is the position of flushLoop:
its select (LoopRecv, LoopTick, LoopCtxDone), the two halves of a flush
(FlushLikes, FlushUnlikes), `subWg.Wait()`, DrainChan and the final flush. A
flush under a cancelled context fails; the final one runs under
`context.Background()` with a timeout.

**GracefulShutdown.** `main` walks from serving through HTTP shutdown, cancel,
wait, bus close and pool close to exit. Both deadlines may fire at any moment of
their wait.

**EventDelivery.** The abstract specification: an event is accepted once, is then
in somebody's charge, and leaves that charge once, stored with a batch, refused
with a batch (only when stopping or when MySQL may fail) or abandoned (only when
stopping). GracefulShutdown implements it (`DeliverySpec`) with `charge` mapped to
the events in subscriber channels, handlers, eventCh and the two buffers: handing
an event on is a stutter, FlushLikes and FlushUnlikes are Store or Refuse,
HandlerCtxDone is Abandon, the manager's cancel is Stop.

**LikeService.** One handler per request: FindByID, HasLiked, AddLike (one Lua
script, one step) or RemoveLikeSRem followed by RemoveLikeDecr, then Publish.
The Fails actions are errors of the round trips, with and without the effect
having happened. An absent counter and a counter of 0 are the same in the code
and in the model. `surplus` and `spoiled` are histories the properties use: how
many members a post lost without a DECR, and which posts saw overlapping
requests of one user, a failure or an expiry.

**LikeFlush, ScaleDeltas.** Events are (user, post) pairs in two buffers.
BatchInsert (INSERT IGNORE) and BatchDelete each report how many rows they
changed, and Apportion spreads that number over the posts of the batch the way
`scaleDeltas` does, remainder included. The UPDATEs of the counters follow one
by one in any order (Go's map order), and the first that fails ends its loop.

**PostFeed.** `db` is the posts table on the master; with `Split`, `slave`
follows it through `binlog`. ListFeed is GetFeedVersion, GetFeed, ListFeedQuery,
SetFeed, Respond. AuditStep is AuditConsumer.process step by step; the API's
verdict is any verdict or an error. `Settled` is what freshness may be asked of: the
posts no writer is in the middle of changing, whose visibility the replica has
(`Lagging` are the others), and in which no page of the current version may be
wrong (`missed`: since the last bump, a bump of theirs failed, an approval was taken
back, or a page was read from a replica that was behind in them). A request owes its
client what was settled when it arrived; a verdict that takes an approval back also
takes the post off what the requests under way owe (`NoLongerOwed`).

**RabbitMQBus, CountConsumer.** The broker is external: a bag per topic, a set
of bound queues, redelivery of what was unacknowledged when a connection or the
process died. `session[s]` is the consumer's channel; an acknowledgement on a
dead one changes nothing. `seen` are the deduplication keys, `next[s]` the delta
a handler sends next (a follow is two), `batch` the aggregated deltas. `applied`
and `lost` are histories: how often a delta went into an UPDATE, and which
deltas were lost with a failed UPDATE, at `ctx.Done()` or in a crash. `unguarded`
are the events a failed SETNX let through.

**PageViews.** The PVConsumer has the handler, flush loop, UPDATE and drain of the
CountConsumer, with one topic, one column and increments of one, so the module
extends CountConsumer and DeltasAreViews says that the deltas are those. What is new is in
front of it: GetDetail loads the post, sets `marks` with SETNX, and the request
that set the key publishes. `opened` are the windows opened.

**AuthorPage.** Adds to PostFeed what concerns the author himself: after the
commit of Create, Delete or UpdateProfile the request is in `owes` until its Mark
has run or failed; then the PostEvent, then the steps of PostFeed. Posts and
profile reach the replica through one stream in commit order (`binlog` and
`profileLog` with positions in it). A viewer probes the marker once, at the start,
and then reads either master or replica for all its queries. `exposed` is the history
that excuses a stale answer: the marker is absent while a write is not replicated.

**Follow.** Rows carry their id, which orders the lists and is the cursor. Follow is
FindTarget, Exists, CountFollowing, Create, two Marks, Publish; Unfollow starts at
Delete. Exists and CountFollowing read the replica, whatever the marker says, as
the code does; the lists probe the marker. A statement may fail with or without
having taken effect. Histories: `net` and `unsent` count published and lost
events, `raced` are the users whose cap check was overtaken or answered by a replica
that was behind, `misread` the requests that saw a removed edge on the replica.

**Account.** SendCode is the window (SET NX), two INCRs each with its EXPIRE when it
returned 1, the code, the message; Login is GET, DEL, FindByPhoneHash, Create. A
phone's cipher is the sequence of keys it was encrypted with and a hash records
what was hashed, so encrypting twice or hashing ciphertext is visible. Keys expire
at any moment; `lives` counts how often a counter was created, `stuck` those whose
EXPIRE failed, `contested` codes read by two Logins before a DEL.

**PhoneMigration.** `run[m]` is a process of the command: it fetches a batch,
computes each row's update from what it fetched and writes it in a statement of
its own, dry or not. It may crash between any two statements and be started again,
also beside another run, while Login goes on with the new key and pepper. `early`
are phones whose owner logged in before the row was re-hashed.

**Session, RateLimit, Upload.** One middleware chain, so one module on top of the
other: Auth (Parse, blacklist, ban, the latter two failing open), the
limiter's two pipelines, Presign or Callback. Time is a clock here, because the
properties compare lifetimes: a key with a TTL is the time it is gone.
A token is a number, odd for access and even for refresh tokens, with user and
expiry. `passed[u]` are the times of the requests that had the limiter to
themselves, `redeemed[n]` the answers to callbacks of nonce n.

## 3. Runs

Passing runs; each lists all its properties. Types are not repeated in the runs: where
a module is proved about, the invariant of its proofs contains them (section 6).

| Run | Checks |
|---|---|
| GracefulShutdown | DrainedOnReturn (nothing in eventCh or a buffer, and nobody left who could add to it, once the loop has returned); NoStrandedEvent (no event in the channel of a subscriber that is gone, unless HTTP shutdown timed out); ShutdownOrder; StoredInOrder (what is stored, buffered and queued of a topic comes in the order it was published in: nothing twice, nothing overtaken); NoSilentLoss (every accepted event is in a stage, stored, in a failed batch or given up); DeliverySpec (refinement of EventDelivery) |
| ShutdownLiveness | ShutdownTerminates without any deadline firing, EventuallySettled: a batch that never fills is flushed by the ticker |
| LikeService | CountNeverAhead; CountExact and EventsReflectStateChanges for posts that are not spoiled |
| LikeFlush | TotalNeverBehind (sum of like_count never below the number of rows without a fault); CountsMatchRows (equal as long as every event of every batch had an effect); LastEventWins (a pair is in the table exactly when its last event was a like, leaving aside waiting events and pairs whose last flush was mixed or failed) |
| PostFeed | FeedFresh; ReadSettled (each answer reflects everything settled when its request arrived) |
| PostFeedReplicated | on AuthorPage: DeletedEventOnce; VerdictLogged; OwnWritesSeen (an author who asks after Mark sees neither the deleted post nor the older profile); EventuallyReviewed (a post is reviewed unless its event ended without a verdict) |
| CountConsumer | AtLeastOnce (an accepted event is queued, with a handler, or some handler has returned from it); CountedAtMostOnce; SeenIsHandled; CountersSettle (when nothing is on its way and nothing was lost, a counter lies between the net and the sum of the increments of the events taken: exact without decrements, and never negative) |
| PageViews | ViewsNeverInflated (view_count is at most the number of windows opened, unless the SETNX of the consumer failed); ViewsSettle (and equal to it once everything has arrived and nothing was lost) |
| Follow | EventsMatchRows (follow minus unfollow events of an edge, sent, about to be sent or lost with an error, is 1 with a row and 0 without); LimitHeld outside `raced`; FollowTakesEffect (an answer "following" is true, outside `misread`); ReadYourWrites (what was marked when a list request began is on the page or on a later one, what was removed is not) |
| Account | SmsLimits; CounterWillExpire; CodeSingleUse; PhoneReadable; MigrationComplete (a run that reports no errors left no row behind); OneAccountPerPhone, outside `early` |
| Upload | LogoutHolds; RateLimited (of the requests that had the limiter to themselves at most Limit in any window, whatever others do to the set); NonceSingleUse; NonceOutlivesUrl |

One run ends in a violation. It states a sentence of the repository, and the
behaviour TLC prints is what the code does.

| Run | The repository says | The code does |
|---|---|---|
| Broadcast | `bus.go:50`: every message is broadcast to all handlers of the topic | on RabbitMQ the LikeConsumer and the CountConsumer share the queue of event.like; each like reaches one of them |

Other disagreements were met while modelling. They are not runs of their own; where
a history variable excuses a property, it is for one of these:

- `like_consumer.go:61`: "events already in batches buffers must hit MySQL before
  we exit". After cancellation the select may still take a tick or a full batch and
  flush it under the dead context (210); the batch is lost with MySQL up.
- `like_cache.go:166`: "Symmetry with RemoveLike's Lua script: both mutations are now
  atomic." RemoveLike is SREM, then a DECR that does not look at what SREM
  removed: two concurrent unlikes decrement twice.
- `like_consumer.go:258-260`: "Either ordering converges". All inserts of a batch
  precede all its deletes; unlike-then-like ends unliked. LastEventWins leaves out
  pairs whose last flush was mixed.
- `post_service.go:137`: the AuditConsumer "flips is_visible to 1 on approval". With a
  replica it may not find the post yet and drops the event
  (`audit_consumer.go:130`); the post stays pending.

- `channel.go:123`: the drain hands events to a handler whose context is already
  cancelled, and the handler may give them up (history `skipped`; NoSilentLoss
  counts them).
- `like_service.go:17`: two concurrent likes of one user both pass the probe and
  publish two events. EventsReflectStateChanges excludes such posts (`spoiled`).
- `like_consumer.go:347` says that the remainder goes to the largest bucket; the
  code at 365 gives it to the smallest.
- `like_repository.go:209` returns at the first failed UPDATE, so the posts not
  yet updated miss their delta; the comment at 207 says "Don't bail — process remaining posts".
- With a replica a page can be filled from the past and stay under the current
  version until it expires (`post_service.go:345`, `audit_consumer.go:202`); the
  posts in which the replica was behind then are in `missed` until the next bump.
- A redelivered audit event with another verdict does not bump the version if
  that verdict is a reject (`feed_cache.go:26`); such posts are in `missed`, too.
- A crash between SETNX and the flush loses the deltas of the event: its
  redelivery is taken for a duplicate (`event_dedup_cache.go:53`). SeenIsHandled
  accounts for them in `lost`.
- A delivery that wins the select after cancellation runs SETNX under the dead
  context, fails open, and may count a duplicate; CountedAtMostOnce excepts
  `unguarded`.
- `user_cache.go:142-143`: a counter whose EXPIRE failed "is corrected on next call". The
  next INCR returns 2, so EXPIRE is not sent again; CounterWillExpire excepts `stuck`.
- `user_repository.go:83-86`: callers of Create should "load existing user and
  proceed" on a duplicate key. Login returns an error; the next attempt
  needs a new code, as the old one is gone.
- `user_cache.go:76`: "one-time use". A code is read with GET and removed with DEL, so
  two Logins that both read first both succeed (`contested`).
- A user who logs in on a server with the new pepper before cmd/migrate-phone has come
  to his row is not found and gets a second account; the migration's UPDATE of the
  old row then fails on the unique hash (`early`).
- `user_service.go:286` speaks of "re-running the migration script" after a key
  rotation. The command takes whatever it cannot decrypt for plaintext and would
  encrypt the old ciphertext.
- `follow_service.go:141`: Exists reads the replica without looking at the marker. A
  follow soon after an unfollow may answer "following" and insert nothing (`misread`);
  the cap is counted there, too.
- `ratelimit.go:18-20` bounds the excess by "1-2". Requests of one millisecond share a
  member of the set, and a slow request records a time that has left the window;
  neither is counted.
- `cmd/server/main.go:525`: a callback only concerns "their own nonces". The nonce is
  consumed before the owner is compared, so a mismatching callback consumes it as well.
- `write_marker.go`: the example of a created post that vanishes from its author's page
  does not arise: the post is invisible until it is approved, and the approval
  does not set the marker.
- The attempt counter of Subscribe is not reset by a successful connection; a
  publish is not confirmed by the broker, and one to an exchange without a bound
  queue is discarded.

## 4. Bounds

- GracefulShutdown: two likes and one unlike, channel and eventCh of capacity 1,
  batches of 2. With one slot each a third event meets every full channel, a
  batch fills by count and by tick, and both halves of a flush run. EventChCap is
  `4 * batchSize` in the code and free here. ShutdownLiveness has one like and
  one unlike, which never fill a batch.
- LikeService: three handlers, two of them of one user, four requests on one
  post: enough for like, double unlike and like again around an expiry. Posts do
  not interact.
- LikeFlush: two users, two posts, six events, batches of up to three, one
  failing statement. The remainder of `scaleDeltas` needs two posts in a batch
  with unequal counts, which is three events.
- PostFeed: one post, one deleter, two readers, a replica, two redeliveries, every
  kind of failure: a reader that fills the page, from a stale replica or not, between
  another's version read and its answer, and a post approved, taken back and approved
  again. Posts share the version and the page only. Two deleters and one redelivery in
  the replicated run.
- AuthorPage: one post, two deleters, one profile edit, one viewer, a marker that may
  expire or fail at any time.
- PageViews: two requests of one viewer and one of another for one post, one fault.
- Follow: one user who may follow two others with a cap of one, two writers, one
  reader with pages of one, three requests, one fault, one user who leaves.
  With two follows of one user under a cap of one, every race at the cap occurs.
- Account: one phone with an account of before the encryption, one address, limits of
  one, two handlers, three requests, two migration processes started twice in all,
  batches of one row, one fault. Rows do not interact except by a colliding hash,
  which needs one phone.
- Upload: two users, one of them logged in at the start, two handlers, three
  requests, a clock of two ticks, lifetimes of one or two ticks, a limit of one in
  a window of two, one fault. Every lifetime can run out between any two steps.
- CountConsumer: one like and one unfollow (one delta, two deltas of two users,
  one of each sign, an event of a shared queue and one of its own), one fault of
  any kind (lost connection, crash, failed UPDATE, failed SETNX), one retry. The
  queue may hold a duplicate that PublishRetry made besides.

Symmetry: the two likes (GracefulShutdown), users and posts (LikeFlush), posts,
deleters and readers (PostFeed), writers (Follow), handlers and migration processes
(Account), handlers (Upload); only for safety. The PostFeed run also has a view
(`MCView`): versions count by their age, and what no later step and neither property
reads (pages of versions nobody looks up again, the verdict outside the steps that use
it, the histories of other properties) does not tell states apart.

CHECK_DEADLOCK is off where the model's supply of requests or events ends
(LikeService, LikeFlush, PostFeedReplicated, CountConsumer, PageViews, Follow,
Account, Upload). In the shutdown and
PostFeed runs it is on: a state without a successor other than the terminated
one would be a real deadlock.

## 5. Fairness

GracefulShutdown!Fairness: weak fairness of each publishing handler, of each
Subscribe goroutine, of its handler, of the flush loop and of main: runnable
goroutines are scheduled, a ready select proceeds, the ticker ticks. Nothing is
assumed of arriving requests, of the signal, or of the two deadlines, so the
shutdown has to end by itself.

AuthorPage!AuthorFairness (and PostFeed!Fairness, on which it is modelled): a Create that has inserted goes on, the audit consumer's
goroutine is scheduled, replication proceeds. No request need arrive; a failing
API or bus may fail every time, which is why EventuallyReviewed excepts posts
whose event ended without a verdict.

## 6. Theorems

All proofs are for every value of the constants that satisfies the named
assumptions of the modules, checked with tlapm.

**GracefulShutdownProofs.** None of the invariants is inductive by itself. IndInv
adds to TypeOK: HandInv (a goroutine holds an event exactly while it is in its
handler), DrainInv (once the loop is past its wait every Subscribe has
returned; once it has drained, eventCh stays empty; each half of the final flush
leaves its buffer empty), PhaseInv (what each position of main implies about requests,
cancellation, consumer and deadlines) and NoStrandedEvent. One lemma per actor
(PublishPreserves, SubscribePreserves, HandlerPreserves, LoopPreserves,
MainPreserves) shows that it is preserved. From it: TypeCorrectness,
DrainCompleteness, NoStranding, OrderOfShutdown. Accounting (NoSilentLoss) needs
IndInv as well: an event leaves one stage only into the next, so CustodyStep goes
through the moves one at a time, using lemmas on the range of Append and Tail.

Refinement (DeliverySpec) shows step by step that the server implements EventDelivery.
The abstract `charge` is the union of all stages, so the proof needs that an event is in
one stage only: CustodyInv says that Publish is over for every event in the server
(OfferInv), that events are kept apart by topic (TopicInv), and that no event is in two
stages or twice in one (PlaceInv). Then each hand-over is a stutter (QuietStep),
and a flush or a handler at `ctx.Done()` is exactly one abstract step. EventDelivery
states safety; that an event does leave the server's charge is EventuallySettled, with TLC.

PublicationOrder (StoredInOrder) compares two orders: that of `sent[s]` and that of the
pipeline behind it (stored, buffer, eventCh, handler, channel). OrderInv adds that an event is
offered to a subscription once (SentOnce) and that nothing is in the pipeline that was not
sent (Published). A hand-over takes the front of one stage and puts it behind all of the next
(Moved), and then no pair of events has changed places (AdvanceKeeps); a failed flush only
removes (ShrinkKeeps).

**LikeServiceProofs.** TypeCorrectness contains that the counter stays
non-negative. CountBound: `likeCnt[p]` is bounded by members, unlikes between
SREM and DECR (`Owing`) and the accounted `surplus`; inductive together with
TypeOK, with lemmas on how Owing and the cardinality of the set change.

CountIsExact and EventsTellChanges are about posts that are not spoiled. Their invariant
LocalInv says per post: no two requests of one user overlap and what a request has
probed still holds (Clean); counter = members + unlikes between SREM and DECR (Exact);
the events of a user alternate, and tell its membership up to the change that is about to
be published (Told). A request to another post does not disturb a post, nor one of another
user the steps of a user; the step that breaks this puts the post into `spoiled`.

**PostFeedProofs.** TypeCorrectness and OneDeletedEvent hold with or without a
replica: the affected-rows check of the conditional UPDATE admits one deleter
(DeleteInv). Freshness and SettledReads hold without any hypothesis: with a replica
that lags, redelivered audit events, failed bumps. FeedFresh speaks of settled posts only,
and a post becomes settled by the replica catching up, a step that touches no page. So
FeedInv says more: a page under the current version is right about every post but those
with a bump to come and those in `missed`, on the replica or not (PagesUpToDate, for the
pages stored and those a reader is about to store), and nothing is cached or held under a
future version (VersionInv). For the answers: what a request owes its client, every state of
the table that a query may yet be answered from gives it: master, replica, and the
states on their way in the binlog (OwedByAll); and whatever the request may still find under
its version serves it (PagesServe). CreatedFirst: nobody reviews a post before it exists.
A write only unsettles, a bump makes every older page unreachable, a reader only moves.
ComplianceTrail (VerdictLogged) needs LoggedInv: the verdict the audit consumer is about to write to the post is in audit_log.

AuthorSeesOwnWrites (OwnWritesSeen) is about AuthorPage. OwnInv: the replica, and every state
on its way to it, lies between the replica's present state and the master's, for posts and
profile (Catching, ProfileCatching); while there is no marker, the replica has all that
requests past Mark have written, unless `exposed` (MarkerInv); so what a view reads from,
chosen once at its start, has what the view must reflect, and keeps it (ViewServed).
AuthorPageImplementsPostFeed: the added steps leave PostFeed's variables alone or are
steps of it, so the theorems about the feed carry over.

**LikeFlushProofs.** BaseInv has the types the arguments need and that the like buffer
is empty in the second half of a flush. LastEventDecides (LastEventWins) is about a
moment between two flushes and so needs an invariant of the flush: Resting (a pair in
one buffer only had its last event there) and Flushing (a pair of the batch is settled
by its half: from INSERT to the end of the increments it is in the table, from DELETE on
it is not). CountsAreRows (CountsMatchRows): while nothing failed and nothing was partial,
`likeCount[p] + deltas[p]` in the first half, and `likeCount[p]` minus `deltas[p]` in the
second, is the number of rows (Balanced). The step from the batch to the deltas is FullEffect: a
statement that changed as many rows as the batch has events leaves no room for a pair
that occurs twice or had no effect, so the events per post are the rows per post.

TotalCovered (TotalNeverBehind) is about all the other batches, where `scaleDeltas` guesses.
TotalInv: the counts with what the UPDATE loop still owes them add up to at least the rows;
clamping at zero can only add to that. The step from a batch to its deltas is ApportionSum: for every
batch and every order in which Go may visit the buckets, the deltas add up to exactly what MySQL
reported (DistributeSum: after each round, handed out plus remaining is the report, and the
last bucket takes the rest). Posts is assumed finite.

**CountConsumerProofs.** BaseInv: types of bus and consumer, and HandInv (a handler has
an event exactly while it runs, and only sends deltas the event has).
DeliveredAtLeastOnce needs HeldInv: an accepted event is in its queue, with a
handler whose session is alive (one that died has requeued it), or has been returned from.
CountedOnce needs Single, for every delta whose event was not let through by a failed SETNX:
not marked means nowhere; at most one handler is sending it; it is in one place of
eventCh, batch, counters or still pending in that handler. MarkedIsHandled is inductive with
BaseInv. Crash, redelivery, drain and lost acknowledgements are steps like the others.

CountersSettled: a counter lies between the sum of the deltas applied to it and the sum of the
positive ones among them (CounterInv; the clamp at zero is why it is not one number). When
nothing is on its way, OnceInv and SeenIsHandled say that exactly the deltas of the events
taken have been applied, once each. ViewsBounded and ViewsSettled are proved of PageViews: its
steps in front of the bus preserve what is proved of the consumer (ConsumerInv), and an event that
has got anywhere is that of a request that opened a window (OpenedInv). Their hypothesis
DeltasAreViews is what a PVEvent amounts to, `deltas[postID]++`; MCPageViews assumes it,
so TLC evaluates it.

The sums and the loop of `scaleDeltas` are folds, that is, recursive functions. Their equations
are derived in SumEquation and LoopRounds: a solution of the recursion exists for the sets of up to
k elements, for every k, because there is no smallest k without one (LeastNat, from the
library's well-foundedness of < on Nat). Facts on sums follow in the same way, by a
smallest set that violates them (SmallestSet).

**FollowProofs.** FollowIsTrue: WasInv, an edge seen while the request runs was in the
table during it. EventsAreExact: the key (who, whom) is unique and ids identify rows (TabInv);
each change of a row moves a request into the steps that publish for it. CapIsHeld: CapInv
(after the check passed there is room, and only one request of a user outside `raced` is
between check and INSERT), with ReplInv for a check on the replica: a row without pending
changes is on the replica as on the master, and the last pending change of a row says
whether the master has it. ListsShowWrites, an action property: ReadInv joins ReplInv with
MarkInv (who is neither marked nor `exposed` has pending changes only from requests that
have yet to mark him) and ListInv (what a list request owes its reader is still true,
and, if it reads the replica, true there). The page lemmas (KeptAreNewer,
LimitIsFull, LimitShows, PageIsComplete) show that ORDER BY id DESC LIMIT n with the
returned cursor skips no row, for every n.

**PhoneMigrationProofs.** ReqInv and DataInv are types and the shape of a request at each
step. CodesAreSingleUse: CodeInv (codes are fresh, no two phones share one, a used code is
gone or its Login is about to delete it). MessagesAreLimited counts: messages sent, plus
requests past the check, plus what the present counter still admits, are within limit times
lives of the counter (CounterBound), and likewise for windows (WindowBound). The migration:
a row only moves forward (Follows: what is up to date stays so), so what a run has fetched may be
stale but not wrong. RunOK says how far a run without errors has brought the table:
all rows up to `last`, or up to the rest of its batch, are up to date, and rows
inserted behind it are so from the start (Evolves). PhonesStayReadable, CompletedMigration and
OneAccount follow together with the unique hash (TableInv).

**UploadProofs.** BaseInv contains TypeOK; BudgetInv bounds URLs signed plus handlers that
may still sign by the requests begun, so there is a nonce for every URL. LogoutIsFinal:
RevokedInv (a token logged out is blacklisted until it expires or has expired; a Logout
about to SET has computed a lifetime that reaches that far, however long the SET takes).
NoncesAreSingleUse and NoncesOutliveUrls: SavingInv (a nonce not yet saved is known to one
handler), StoreInv (a nonce in Redis has not been taken and lives as long as its URL).
WindowsAreLimited: SlotInv (every request let through that is still in the window is in the sorted set,
whose key outlives it), TurnInv (a request alone in the limiter sees all of them and
records only when there is room), AloneInv (two in the limiter at once know of each other).

The inductive invariants were evaluated with TLC on the instances of the runs before they
were proved. Assumptions on constants that the proofs made explicit: an event has
one or two deltas (CountAssumption; `count_consumer.go` sends one for a like, two
for a follow), phones are not addresses (AccountAssumption; their counters are different
Redis keys), and there are finitely many events and posts (RabbitMQAssumption,
PostsAssumption), because counters are sums over them. The proofs set no bound: the numbers
of users, posts, handlers, events, requests and faults, buffer sizes, lifetimes and limits are
arbitrary (sets that are counted are assumed finite).

Every invariant and every action property of the passing runs is a theorem. Model-checked only, and why:

- ShutdownTerminates, EventuallySettled, EventuallyReviewed: liveness; fairness and
  ENABLED are out of the prover's reach.
- Broadcast: a violation, shown by its counterexample.

## 7. What the histories excuse

A property with an exception is only worth its run if the exception is narrow. Each
history is set in the step that causes the exception and nowhere else, from what the
code could have known: `raced` only when another follow of the same user was between
check and INSERT or the replica was behind; `misread` only when the replica had an edge
the master had not; `contested` only when two Logins held the code at once or a DEL failed;
`stuck` only by an INCR or EXPIRE that failed; `early` only by a lookup while the
row was not re-hashed; `unguarded` only by a failed SETNX; `missed` only by the three causes named above and
only until the next successful bump; `exposed` only while the
marker is absent and the replica is behind. Each property has a mutant of the code that
it refutes with these exceptions in place.

## 8. What is not modelled

Search, like status and count, GetPublicProfile, OptionalAuth and the DLX monitor only
read. HTTP handlers bind, validate and format: what they start is modelled, what they
refuse changes nothing. The remaining middleware (CORS, logging, metrics) has no
state the system depends on. Moderation, SMS and storage providers are remote: a
verdict, a failed message or a signed URL is an arbitrary choice. The cipher is
cryptography; what matters of it is which key a value was encrypted with.
Configuration, logging, metrics, error codes, models and DTOs have no behaviour of
their own; SaveUserInfo is never called, so the key UpdateProfile deletes never
exists. On the RabbitMQ bus, no handler returns an error and every body decodes, so
Nack and the dead-letter queue do not occur. Outside the Upload run time is not
measured: a TTL or a deadline may run out at any moment, and the 24 h expiry of a
deduplication mark is taken to be longer than any redelivery.

## 9. Plan

Done in this order: channel bus, like consumer and shutdown; like service; flush;
posts, feed and moderation; RabbitMQ bus and count consumer; the abstract
EventDelivery; follows; accounts and migration; tokens, limiter and uploads; page
views; the author's own reads.

Proved in this order: shutdown, like service, feed; then moderation trail, refinement
of EventDelivery, uploads with tokens and limiter, count consumer, accounts and migration,
follows, exactness of likes, flush; then the feed with a replica and redeliveries, the author's
own reads, the order of publication, and the sums: counters, views, total of the likes.

Next: liveness on the RabbitMQ bus with a bounded number of faults, and its Close and
dead-letter queue, which only a handler that returns an error would reach.
