# Zef-workspace: TLA+ models and proofs

Zef-workspace is the messaging service of a workspace product: conversations,
messages with attachments, threads, scheduled and forwarded messages, polls,
reactions and view-once messages, over PostgreSQL and a Google Cloud Storage
bucket, with a cron worker in the same process. This directory holds TLA+
modules of its core, the TLC configurations that check them on small
instances, and TLAPS proofs of the theorems that matter most.

Source paths below are short for `src/src/internal/...`; migrations are
under `src/migrations/`.

    tlc -workers 2 -config Dispatch.cfg MCMessageService.tla
    tlapm LifecycleProofs.tla

## 1. The system

### Components

| component | state it keeps | operations | where |
|---|---|---|---|
| message store | `public.messages`, the bucket's objects | insert with foreign keys, status, soft delete, due and purge queries, hard delete and its cascade | `db/messaging/messaging_db.go`, `001_init.sql` |
| message handlers | requests in flight, 15 s each | upload, send, schedule, reply, forward, edit, delete, broadcast | `handlers/messaging/messaging.go`, `forward.go`, `attachments.go` |
| cron worker | one goroutine: tick, batch, place in the loop | dispatch due messages each minute, purge aged ones each hour | `worker/cron.go` |
| process | whether the bucket client came up | start, crash, restart | `cmd/server/main.go`, `docker-compose.yml` |
| polls | `poll_votes`, open transactions | vote, remove a vote, read and broadcast the tally | `handlers/messaging/polls.go`, `messaging_db.go` |
| conversations, read state | `conversations`, `conversation_members.last_read_at` | find or create, list with unread counts, mark read | `messaging.go`, `messaging_db.go` |
| view-once messages | `message_views` | reveal, mark viewed, sign the URL | `messaging.go` |
| reactions | `message_reactions` | add, remove, broadcast a snapshot | `reactions.go` |
| message lists, threads | none (queries) | pages by cursor, threads, scheduled list | `messaging_db.go` |
| notification client | none; one goroutine per post | post an event, best effort | `notification/` |
| rate limiter | a limiter per user, evicted when idle | allow or refuse | `routes/rate_limit.go` |
| workspaces | `workspaces` | ensure, create, list | `db/workspace/` |
| start-up | connection, applied migrations | connect with backoff, migrate | `db/db.go`, `db/retry.go` |
| authentication, router, CORS, config, audit, Kafka, truncate command | none that others read | checks and pure I/O | `routes/`, `utils/`, `clients/audit/`, `db/kafka.go` |

### How they interact

Handlers and worker never call each other: they share the database and the
bucket. A handler is a sequence of autocommitted statements and transactions,
then a broadcast; between any two of them other requests and the worker take
steps, the client may go away, a statement may fail, the 15 s deadline of
`requestTimeout` may pass or the process may crash. The worker calls the same
database functions and the same `BroadcastMessageEvent`. The database is the
only memory that survives a restart; the bucket has no transaction with it.

### What is hard

* **Order of two effects without a transaction around them**: mark sent, then
  broadcast; delete the object, then the row; commit the vote, then read the
  tally; find a conversation, then create it.
* **State read before it is used**: the worker's lists, a validated reply
  target, the source of a forward, a read time fixed before it is applied.
* **Retention**: foreign keys that cascade, objects shared by forwarded
  copies, batches of which no row can be removed.
* **READ COMMITTED**: overlapping votes of one user do not see each other's
  rows, wait for each other's locks, and may deadlock.
* **Transaction time**: `NOW()` is the start of a transaction, what it writes
  shows when it commits, and a scheduled message is older than its arrival.
* **Reads in several statements**: a list reads its rows, then who viewed
  them, then marks views one by one; other devices do the same meanwhile.
* **Goroutines that outlive their request**: broadcasts and posts, in any
  order, once or never.
* **Time**: a limiter evicted between being fetched and being asked; a backoff
  under a deadline that later statements share.

`PROJECT.json` lists each hazard at its line with the properties that cover it.

## 2. The modules

| module | models | extends |
|---|---|---|
| `MessageStore` | table, bucket, what members were told | |
| `MessageHandlers` | the handlers that change messages | `MessageStore` |
| `CronWorker` | the goroutine of `StartCronWorker` | `MessageStore` |
| `MessageService` | handlers, worker, crashes and restarts together; its properties | both |
| `MessageLifecycle` | the abstract specification of a message's life | |
| `MessageServiceProofs` | proofs: types, announcing | `MessageService` |
| `LifecycleProofs` | proofs: retention, withdrawal, the refinement | `MessageServiceProofs` |
| `Polls` | votes on one poll as transactions and row locks | |
| `PollsProofs` | its proofs | `Polls` |
| `Inbox` | direct conversations, read times and unread counts | |
| `InboxProofs` | its proofs | `Inbox` |
| `History` | one member's pages, thread, hidden and view-once messages | |
| `HistoryProofs` | its proofs | `History` |
| `Reactions` | changes, snapshots, broadcasts and posts that may be lost | |
| `ReactionsProofs` | its proofs | `Reactions` |
| `TokenBuckets` | the abstract specification of the rate limiter | |
| `RateLimiter` | the map of limiters, its mutex and the loop that evicts | |
| `RateLimiterProofs` | its proofs | `RateLimiter` |
| `Startup` | connecting with backoff, creating the schema, restarts | |
| `StartupProofs` | its proofs | `Startup` |
| `MCMessageService`, `MCInbox`, `MCHistory`, `MCRateLimiter` | symmetry and views for TLC | |

Definitions carry the names of the functions they stand for. A name with an
underscore (`Due_Withdrawn`) is not part of the model: it is the named
definition with a plausible bug, which one of the properties must notice.

### Message service

A row of `public.messages` is a record with the columns that behaviour depends
on: status, `scheduled_for` (`due`), `created_at`, `deleted_at`,
`attachment_key`, `thread_root_message_id`. A NULL time is 0. A message id
keeps its record when the row is gone (`state = "removed"`), so that
properties can speak about it. An object is unused, stored or deleted.

`announced` counts the `message` events handed to the notifier for each
message. It is history: no guard reads it.

* **Requests.** `requests` holds the requests between two of their steps:
  a send whose `scheduled_for` was accepted, a reply whose target passed
  `ValidateReplyTarget` besides, a forward whose transaction has read its
  source, a committed message or edit whose event is to come. Two identical requests in flight are one member of the set. A
  request ends by its last step or by `Abandon`, at any time. Time does not
  pass the deadline of a request in flight (`TimePasses`); the 15 s limit is
  thus part of the model, and `RepliesFindTheirRoot` depends on it.
* **Sending.** `SendMessageHandler` checks that `scheduled_for` lies ahead,
  `ValidateReplyTarget` makes the request a reply, and `CreateMessage` inserts
  the row, whose time may have come by then. Any `attachment_key` will do, as
  no handler looks at it: one that other rows carry, whose object is deleted,
  or that was never uploaded. Insert and commit are one step here (`Inbox`
  models them as two, where the difference shows). The two foreign keys refuse
  a root or a forwarded source that is gone.
* **Worker.** `wpc` is where the goroutine stands: `select`, in the dispatch
  loop, about to announce, about to list a batch, in the purge loop, about to
  drop the row. Each call to the database or the bucket is a step. `Return` is
  the return to the select. The list of a purge is any `BatchSize` of the
  matching rows: the query has a LIMIT and no ORDER BY. The loop asks for
  another batch when the last one was full.
* **Failure.** Each call of the worker may fail, those that change state
  before or after their effect (`WorkerFails`). A crash loses the requests and
  the worker's place; the next process may have a bucket client or not
  (`GcsInit`). `MaxFaults` bounds crashes and failures together.

Left out: the body, `updated_at`, the audit record and the `message_deleted`
event, which carries an id only; delete-for-me, which hides a message from one
user. Callers are members, and only senders edit and delete. An upload gets a key
that no row names yet (a fresh UUID). The clocks of the process and the
database are one.

### Polls

A vote is a transaction: DELETE of the user's votes (single choice only),
INSERT, COMMIT; a removal is one statement. A statement takes its snapshot in
one step, then locks the rows one at a time and in any order, waiting for each
row that another transaction has deleted and not committed; when that one
commits, the row is skipped. The INSERT waits for a transaction that inserts
or deletes the same key and does nothing when the row is there. After the
change the handler reads the tally in a statement of its own. Row locks and
deadlock detection are PostgreSQL's and are marked external.

The poll outlives its requests (its purge with the message is ignored), and a
removal names an option of this poll, which the code does not check.

### Inbox

A request for a direct conversation looks for one and, in another transaction,
creates one. A send fixes its `created_at` when it begins and shows when it
commits; a read fixes its time when it begins and is applied later. A scheduled
message is sent by the worker some time after it was written. A conversation's
members never change: no code adds or removes one. All happens in one
workspace. `answered` records the answers given, `alone` whether another
request for the same two members overlapped; no guard reads them.

### History

What one member sees of a conversation that others write to. The member has
several devices: a `Pager` follows the history page by page, an `Opener` opens
a thread. A call is a statement that lists rows, a statement that looks up
which of them the member has viewed (`AttachViewOnceState`), an insert into
`message_views` for each view-once message (`ResolveAttachmentURL`: only the
insert that adds the row is followed by signing) and the answer. Each is a
step, and a call may be lost at any of them. The cursor is the `created_at` of
the oldest message of a full page; `owed` is what could be seen when the walk
began and `got` what it has shown. `given` counts answers with the URL, `told`
holds messages whose URL an event carried to everybody. A send commits later
than its `created_at`.

### Reactions

A request changes one row of `message_reactions`, reads all rows of the
message in a second statement, answers with them and leaves the broadcast to
a goroutine: it lists the members and starts a goroutine for each post. A post
arrives once or never, in any order. Each event is a whole snapshot; `at`
numbers the reads. Rows keep no order here, and whether a group is marked as
the reader's own (`Reacted`) is left out. The message outlives its requests:
that a purge removes it, and its reactions by cascade, is not modelled.

### Rate limiter

`limiters` is the map, `heap` the library's limiters that it and requests
point to. `Fetch` is the part of `allow` under the mutex, `Allow` the call of
the library after it; `Wake` fixes the cutoff and `Sweep` evicts under the
mutex. The unit of time is what one token takes to come back (100 ms). A
request that could go on does so within `Pause`: without that, a request
kept waiting for ten minutes would ask a limiter that its user no longer has.
The refinement maps an absent entry to a full bucket. `since` is an arbitrary
time at which a window begins. One life of the process is modelled: a restart
empties the map, and gives each user a full bucket. The library reads the
clock before it takes its limiter's lock; the two are one step in `Allow`, so
that what the library makes of a reading older than its last one is assumed to
change nothing.

### Startup

The attempts to connect, their backoff with jitter, the deadline of 30 s that
they share with the statements that follow, and those statements: each takes
effect unless the database is gone, the deadline has passed or what it depends
on is missing; its failure is logged and the next one follows. A process that
gives up or crashes is restarted. In production the schema is not touched,
and without a URL the process serves at once. When the log files cannot be
opened (`logger.Init`) or the URL does not parse, every start ends in an exit:
`env` never changes. `config.Load` returns no error, and a port that is taken
is left out. `Schema` is what `InitDB` creates: the tables and columns of the
migrations 002 to 005 are in no statement of it, and are not in the model.

## 3. What is checked

Passing runs (every action fires in one of them):

| run | shows |
|---|---|
| `dispatch` | no message is announced twice (`AnnouncedAtMostOnce`) or before it is sent and due (`NeverEarly`); one withdrawn before its announcement was under way never is (`WithdrawnIsFinal`); the service implements `MessageLifecycle` |
| `purge` | threads stay flat and keep their root (`FlatThreads`); a validated reply finds its root (`RepliesFindTheirRoot`); rows and objects leave only when aged (`RowsLeaveAged`, `ObjectsLeaveAged`); only a cascade leaves an attached object without a row (`OrphansWereReplies`) |
| `worker_progress` | due messages are sent (`DueIsSent`), aged ones purged unless they name an object that is not there (`AgedIsPurgedOrBare`), and the worker returns to its select (`WorkerReturns`); a process with a client deletes the object before its row (`ObjectLeavesFirst`) |
| `polls` | a vote that nothing overlaps has its effect (`SoleVoteCounts`); however votes overlap and fail, a voter keeps a vote (`VotersStay`); the last tally read is up to date (`TallyCatchesUp`); no request waits for ever (`RequestsEnd`) |
| `inbox` | a request for a direct conversation gets one of exactly the two members (`AnswersAreDirect`) and, unless a rival overlaps it, never creates a second one (`SoleRequestFinds`); an unread message stays unread until it is deleted or that member reads it (`UnreadUntilRead`) |
| `history` | a view-once URL is in one answer at most, whatever lists and devices overlap (`ListedOnce`); no page repeats what an earlier one showed (`PagesDoNotRepeat`); a walk to the end misses no message that could be seen all along, except one that shares its timestamp with one that was shown (`WalksAreComplete`) |
| `reactions` | an answer shows the change it was asked for (`AnswersShowTheChange`); a member who got all events, in any order, has the current rows in the one read last (`EventsSuffice`); an answered change is posted to everybody unless the process or a statement fails (`AllAreTold`) |
| `rate_limiter` | in any window no more requests pass than rate and burst allow (`WindowBound`); idle users leave the map (`IdleEntriesLeave`); all of it implements `TokenBuckets` |
| `startup` | as long as attempts fail at once, none but the last makes the process give up (`QuickFailuresAreRetried`); a start without failures leaves all that `InitDB` creates (`CleanStartCompletes`); with the database up, a process that can start at all comes to serve (`StaysServing`) |

Runs that refute what a comment of the code says (see *findings* in
`PROJECT.json` for the quotations):

| run | the comment says | the code |
|---|---|---|
| `full_batch` | bounded batches never block the next tick | a full batch of rows that cannot be removed is listed again at once, for ever |
| `poll_race` | a single-choice poll never has two votes of one user | two overlapping votes both stay |
| `view_once` | others than the sender get exactly one resolution | the events of a send and of an edit carry the URL to everybody and record no view |

### Known deviations

What modelling the code brought up besides, with no run of its own. Each is
why a property above has the exception or the condition it has.

* Purging a thread root deletes its replies with it, those that nobody
  deleted too (`RowsLeaveAged`: *or under an aged root*), and leaves their
  objects (`OrphansWereReplies`).
* A row that names an object which is not there stays for ever: deleting the
  missing object fails each time (`AgedIsPurgedOrBare`). The object may have
  been deleted by a purge whose DELETE of the row did not follow, or under a
  copy, or the client named a key that was never uploaded, which no handler
  checks. Enough of these rows make `full_batch`.
* Purging one of several forwarded copies deletes the object under the others
  (`ObjectsLeaveAged`: *some* message that carries it has aged).
* A process without a client for the bucket purges rows and leaves their
  objects (`ObjectLeavesFirst`: *with a client*).
* Editing a scheduled message broadcasts it before its time. `NeverEarly` and
  `WithdrawnIsFinal` speak of the `message` event, not of the edit's.
* `scheduled_for` is compared with the clock before the insert: a message may
  be due when it is inserted (the next tick sends it, `DueIsSent`).
* A scheduled message written before a member's last read arrives as read
  (`UnreadUntilRead` speaks of messages that count).
* Pages are cut by `created_at` alone: of messages that share the timestamp of
  a page's last one, some may be skipped (`WalksAreComplete`), though the
  comment at `messaging_db.go:280` says that the tie-break prevents it.
* The thread list does not read `message_deletions`: what a member hid in the
  history shows in the thread.
* When signing fails, or an answer is lost, after the view was recorded, the
  only view of a view-once message is spent (`ListedOnce`: *at most*).
* Events carry no version: a member who applies them as they come may end
  with old reactions or an old tally (`EventsSuffice`: *read last*).
* Connecting and creating the schema share one deadline, and failures of the
  second are only logged: a process may serve without part of its schema
  (`CleanStartCompletes`: *no statement failed*). The statements leave out
  what the migrations 002 and later create.

### Bounds

* Message service: `MaxTime` 3 or 4, `Retention` 1, `RequestTimeout` 1, `EditWindow` 0 or 1:
  the smallest values at which each comparison of times is true, false and
  equal at some time. The proofs have no such bound. A message written at 1
  and deleted at 2 is aged at 4, and two retention periods fit in `purge`.
* Ids: two messages and one key in `dispatch` (a message and its rival, reply
  or copy); three in `purge` (a root, a reply, a copy with the same object).
* `MaxRequests` 1: the rival of a request is the worker, which takes its steps
  between those of the request, and so are deletes and uploads, which are one
  statement and need no place. The theorems hold for any number of requests;
  where two requests race with each other for more than one statement (polls,
  direct conversations) there are two places for them, used again and again.
* `LastArrival` ends the arrival of requests before the clock ends (at 2 of 3
  in `dispatch`, 3 of 4 in `purge`, 1 of 3 in the liveness runs), so that there
  is time left for the worker to finish what they began. A scheduled message
  accepted at 1 for the time 2 may be inserted at 2.
* `BatchSize` 1 and 2 make batches full and several; 3 keeps `full_batch`'s
  divergence out of `worker_progress`, as its 200 does while fewer rows are
  stuck. The liveness properties are claimed under that condition only.
* `MaxFaults` 1: one crash or failed call anywhere.
* Polls has one user: a statement touches its own user's rows only. Three
  options let a user hold two old votes and cast a third. Two places for
  requests are enough for every race of a pair; a deadlock needs two.
* Inbox: two users (the pair and, each alone, the chat with oneself), two
  conversations (a second one, or a group of the same two), one message.
* History: `PageSize` 1 and three messages, so that walks have pages that are
  full, a last one, and something that appears or leaves between; one device
  of each kind, so that two lists race for one view. Three ticks of the clock
  let two messages share a timestamp and a third differ.
* Reactions: two members (the actor, who gets no notification, and another)
  and two requests, which may change the same row or two.
* RateLimiter: `Burst` 2, `Ttl` 3 and `MaxTime` 12 give four periods of the
  loop, in which a limiter is evicted and made anew several times; `Pause` 1
  is the least that lets requests and the loop be late. Three limiters are one
  for the map and one for each request. Users do not touch each other's
  entries: one stands for all here, and the proofs are for any number.
* Startup has the code's own constants.

`CHECK_DEADLOCK FALSE` is used for `inbox`, where ids, conversations and the
clock run out, `reactions`, where each request is made once, and
`rate_limiter`, where the clock does. Elsewhere the worker, or a new request,
can always go on.

`SYMMETRY` permutes ids in safety runs only. `RetentionView` (`purge`,
`worker_progress`) leaves out `announced` and `created`: when `EditWindow = 0`
no step depends on them, and none of the properties of these runs, nor their
fairness, mentions them.

### Fairness

* `WF(Worker)`: the worker's goroutine is started once with a background
  context and runs until the process ends; its calls to the database and the
  bucket return. A crashed process is restarted.
* `SF` on the start of a dispatch and of a purge: Go's select picks at random
  among the tickers that are ready, so that neither is passed over for ever.
* Nothing is assumed of clients, and failures are never forced.
* Polls: `SF(Step(r))`, as PostgreSQL grants row locks to those who wait and
  handlers go on with what they began; `WF(DeadlockFound)`, its deadlock
  detector. Without the second, `RequestsEnd` fails.
* Reactions: `WF` of the steps of a broadcast's goroutine, which nothing
  cancels, and `WF(PostFails)`: a post ends by the client's timeout of 5 s if
  not before. That a post arrives is not assumed.
* Startup: `WF(Process)`: the process goes on, and `restart: unless-stopped`
  starts it again. Nothing is assumed of the database but the premise of
  `StaysServing`.

## 4. What is proved

Every safety invariant and every action property of the passing runs, and both
refinements, for every value of the constants that the named assumptions of
the modules allow, and for any number of requests, users, crashes and failures.
The assumptions that say more than that a bound is a number are these.

| assumption | says | in the code |
|---|---|---|
| `HandlerAssumption` | `RequestTimeout <= Retention` | 15 seconds, 30 days |
| `RateLimiterAssumption` | `Burst + Pause <= Ttl` | 2 seconds and a delay, 10 minutes |
| `HistoryAssumption` | any messages and devices, a page of at least one | the default and maximum of `limit` |
| `PollAssumption` | there is a user and an option | a poll has two options at least |
| `InboxAssumption` | finitely many users, a clock that starts at 1 | the query counts members |
| `StartupAssumption` | `FirstBackoff <= MaxBackoff`, one attempt at least | 1 and 30 seconds, five attempts |

| theorem | module |
|---|---|
| `TypeCorrect`: `Spec => []TypeOK` | `MessageServiceProofs` |
| `NeverAnnouncedTwice`, `NeverAnnouncedEarly` | `MessageServiceProofs` |
| `ThreadsAreFlat`, `ReplyTargetsStay` | `LifecycleProofs` |
| `ObjectsWait`, `RowsWait`, `ObjectsGoFirst`, `OrphansComeFromCascades` | `LifecycleProofs` |
| `WithdrawnStaysWithdrawn` | `LifecycleProofs` |
| `ServiceImplementsLifecycle`: `Spec => ImplementsLifecycle` | `LifecycleProofs` |
| `TypeCorrect`, `WindowIsBounded`, `IdleEntriesAreEvicted` | `RateLimiterProofs` |
| `LimiterImplementsTokenBuckets`: `Spec => ImplementsTokenBuckets` | `RateLimiterProofs` |
| `TypeCorrect`, `UrlListedOnce` | `HistoryProofs` |
| `PagesAreDisjoint`, `WalksMissNothing` | `HistoryProofs` |
| `TypeCorrect`, `TallyIsUpToDate` | `PollsProofs` |
| `LoneVoteCounts`, `VotersKeepAVote` | `PollsProofs` |
| `TypeCorrect`, `DirectMeansTheTwo` | `InboxProofs` |
| `NoSecondWithoutARival`, `OnlyReadingReads` | `InboxProofs` |
| `TypeCorrect`, `AnswersAreTrue`, `LatestEventSuffices` | `ReactionsProofs` |
| `TypeCorrect`, `CleanStartMigrates` | `StartupProofs` |
| `TheDeadlineLeavesRoom`: `Spec => QuickFailuresAreRetried` | `StartupProofs` |

`OrphansComeFromCascades` assumes `GcsInit = {TRUE}`, that the bucket's client
always comes up: a process without one leaves objects behind.
`TheDeadlineLeavesRoom` assumes of the constants `MaxAttempts <= 5`,
`FirstBackoff <= 1` and `Timeout >= 21`; the code has 5, 1 and 30 seconds.

**Types.** `TypeInv` adds to `TypeOK` that the worker's `cur` is a message
whenever it is about to announce or to drop one.

**Announcing.** That nothing is announced twice is not inductive: it depends on
who still owes an announcement. `AnnounceInv` has four parts. A message that
was announced is sent and due (`ToldInv`). One owed by a request was sent and
never announced (`OwedInv`). One that the
worker has listed and not yet marked is still scheduled, and its time has come
(`HeldInv`). The one at hand is marked sent and not announced, and no request
owes it (`CurInv`, `OwedInv`). A failed or repeated dispatch keeps them because
the message is marked sent before it is announced and skipped when that fails.

**Retention.** `RetentionInv` is the conjunction of: absent rows are blank;
a reply's root was once a row, is no reply, and takes its replies with it; a
request in flight is no older than its deadline and its reply target not
deleted before it began (`DeadlineInv`); what a purge has in its batch aged
before the purge's cutoff (`PurgeInv`); objects leave aged; and, with a client,
orphans were replies. `DeadlineInv` and `PurgeInv` together give the deepest of
them: the row that a purge is about to drop was deleted more than a retention
period ago, so no request that could still insert a reply under it exists. That
an object once gone does not come back rests on uploads: they take a key that
no row names.

**Refinement.** Under the mapping of `PhaseOf`, each step of handlers and
worker is a step of `MessageLifecycle` or a stutter; the lemmas of
`LifecycleProofs` take the actions one by one and use `AnnounceInv` and
`RetentionInv` for the guards of `Announce`, `Create` and `Erase`.

**Rate limiter.** `LimiterInv` says that a request in flight holds the limiter
that the map has for its user and touched it at most `Pause` ago (`HeldInv`),
and that a limiter was last asked at most `Pause` after its entry was last
touched, while the loop's next tick is at most two periods after that
(`TimeInv`). From it follow the two lemmas that carry everything else: what a
sweep evicts nobody holds (`ExpiredIsIdle`) and is full again
(`IdleIsFull`), so that evicting it, or making a new one, changes no bucket.
`WindowInv` adds to the requests that passed in a window what is left in the
bucket: the sum never exceeds what the window allows.

**History.** `ListedOnce` needs to know where a URL can be: a message that was
not viewed was given to nobody and is in no call's hands, and one in a call's
hands was given to nobody and is in no other's (`ViewInv`). A walk needs to
know where its cursor is: what earlier pages showed is not after it, what the
present page holds is, and what was shown keeps its `created_at` even when it is
deleted (`CursorInv`). `WalkInv` then says of a message that is owed and not
shown that it lies after the cursor, or behind the present page, which is
full, or shares its timestamp with one that was shown; the last is the case
the code skips, and why the property must allow it.

**Polls.** `PollInv` says who holds which row. Rows that a transaction deletes
are committed ones of its own user, and no other transaction deletes them
(`LockInv`); a row to be inserted is new or deleted by the same transaction, and
nobody else inserts or deletes it (`InsertInv`), which is what waiting for the
unique key comes to. Requests of one user that overlap know of each other
(`BesideInv`), so a vote that nothing overlaps has deleted all its user's rows
and inserts one unless it is there and stays (`SoleInv`). `VotersStay` needs the
part that is hardest to see: a vote that inserts nothing, because of ON CONFLICT
DO NOTHING, relies on a row that another vote may be deleting. `VoterInv` says
that it is not its own prey and that whoever is about to commit the deletion
inserts a row instead (`Lasts`).

**Inbox.** The query of `FindDirectConversation` counts members; the lemma
`FindsThePair` shows that it returns exactly the direct conversations of the
two, also when the two are one. As long as a request is alone there is none, and
no other request is to create one (`CreateInv`): a rival that finds nothing
either takes `alone` from both. An open row belongs to one request (`SendInv`),
so no commit, rollback or deletion touches a message that counts as unread, and
a read is of its own user (`ReadInv`): what is left is the reader's own read.

**Reactions.** Between a request's change and its read the change stands unless
another request touched that row (`AloneInv`). Reads are numbered, and once no
request is between its change and its read, the latest one saw what there is
(`ReadInv`): nothing changed after it. Each event is posted at most once to each
member, after its request was answered (`PostInv`), so that a member who got
them all has the one read last.

**Startup.** The statements before the next one of a clean start have had their
effect (`SchemaInv`); the next one finds what it needs, as their order follows
what they depend on (`OrderFollowsNeeds`). `QuickInv` adds up the sleeps: before
the second to the fifth attempt at most 2, 5, 10 and 20 seconds have gone by,
jitter included. With 20 seconds of deadline, or with a sixth attempt under 30,
TLC finds a process that gives up before its last attempt.

**Only model-checked**: liveness, which is beyond the prover: `DueIsSent`,
`AgedIsPurgedOrBare`, `WorkerReturns`, `RequestsEnd`, `AllAreTold` and
`StaysServing`.

## 5. Not modelled, and why

* Delivery of messages, edits and tallies: `announced` means handed to the
  notifier. What becomes of a post is modelled in `Reactions`, and is the same
  for all.
* Workspaces: one table with an idempotent insert and a list.
* Creating a poll with its message, shared tasks and drive files, reply
  counts, names: data that no property distinguishes.
* `conversations.updated_at`, which orders the list, and whose update the
  worker does not check.
* Authentication, CORS, configuration, logging, audit, Kafka, truncate
  command: no state that another part reads.

## 6. Plan

The order was: the store, handlers and worker, as what they share is where
data can be lost; their composition, the abstract life cycle and the proofs;
polls; the inbox; history and the rate limiter, reactions, start-up; then the
proofs of each. What is left, in order:

1. The order of the conversation list, as transactions that hold the rows of
   conversations locked: sends that overlap may set `updated_at` back, the
   worker's second UPDATE may fail, and `ForwardMessage` locks its targets in
   the caller's order, so that two forwards can wait for each other until the
   database aborts one.
2. What the liveness properties rest on and the prover can reach: that an
   action of the worker, of a vote's transaction or of a broadcast is possible
   in every state the properties leave from, stated without ENABLED; and how
   many steps are left, as a number that each of them lowers.
3. Workspaces: the idempotent ensure.
