# Vedfolnir in TLA+

Vedfolnir generates alt text for the images of Fediverse accounts. Users ask for
captions on a web page; the request becomes a row of a task table; workers take
rows, call a vision model and write captions; reviewers edit and approve them and
the captions go to the platform as alt text; administrators watch, cancel, pause,
retry and keep the storage within its limit. These modules model the part of the program in which
several actors share state, check it with TLC on small instances, and prove
results about it, for every instance, with TLAPS.

Paths below are relative to the repository.

## Inventory

| Component | Code | State | Operations | What is hard | What makes it correct |
|---|---|---|---|---|---|
| Task queue | `app/services/task/core/task_queue_manager.py`, `models.py` | the table `caption_generation_tasks`; a `threading.Lock` per manager object | enqueue, cancel, get next, complete, clean up, administrator methods, retries | reads and commits of several requests and workers interleave; a lock per object does not lock across objects | one active task per user, bounds on running and queued tasks, a task runs in one place, every task ends |
| Workers | `web_caption_generation_service.py` (under `app/utils/processing`), `caption_worker.py`, `simple_caption_worker.py`, `process_queued_tasks.py` | the task in hand | take a task, generate, complete | a worker does not look at the row between start and end; crash; shutdown | as above; every RUNNING row has a worker |
| RQ queues | `app/services/task/rq/rq_queue_manager.py`, `user_task_tracker.py`, `rq_job_processor.py`, `web/rq_web_caption_service.py` | four Redis lists, a key per user with a lifetime, the table, `_fallback_mode` | enqueue with a fallback, process, migrate, health callbacks | two stores written one after the other; keys that outlive or do not outlive the job | one active task per user in either store; no job without a row |
| Redis health and fallback | `rq/redis_health_monitor.py`, `rq/redis_fallback_manager.py` | failure count, mode, callbacks, a lock | check, fail over, recover | callbacks that take locks already held | the mode follows the server's health; no thread waits for itself |
| RQ workers | `rq/integrated_rq_worker.py`, `rq/rq_worker_manager.py`, `rq/gunicorn_integration.py` | threads, coordination keys | start, stop, register, heartbeat | keys with a lifetime that nobody refreshes | one coordinator |
| RQ errors, dead letters | `rq/error_handling/*` | retry counters, a Redis list | classify, retry, park, restore | retry of what was already done | nothing lost, nothing in two lists |
| Migration | `task/migration/task_migration_manager.py` | table and queues | migrate, roll back | pages through rows while changing them | every row migrated once |
| Emergency termination | `task/emergency/emergency_job_termination_manager.py` | termination records | terminate, recover | races with the end of the job | a terminated job stays so |
| Operation locks | `app/services/batch/concurrent/concurrent_operation_manager.py` | a table of locks with an expiry | acquire, release, expire, force release | expiry while the holder still works | one holder per resource |
| Error recovery | `app/core/security/error_handling/error_recovery_manager.py` | error history | retry with backoff | retry inside a retry | retries are bounded |
| System recovery | `.../system_recovery_manager.py`, `graceful_shutdown_handler.py` | a state file, the table | recover at start, shut down | what a stop leaves RUNNING | every interrupted task is requeued or failed |
| Progress | `app/services/monitoring/progress/progress_tracker.py` | progress columns, callbacks | update, complete, fail | late updates after the end | progress does not move after the end |
| Notifications, WebSocket | `app/services/notification`, `app/websocket` | stored messages, rooms, queues of offline users | send, store, replay, mark read | reconnect while sending | a message is delivered once or kept |
| Sessions | `app/core/session` | Redis session keys and a user index | create, read, extend, destroy, clean up | expiry between two commands | the index names only live sessions |
| Maintenance mode | `app/services/maintenance` | mode, operations under way | start, end, block | a request admitted before the mode | nothing starts under maintenance |
| Captions and posting | `main.py`, `app/core/database/core/database_manager.py`, `app/blueprints/review/routes.py`, `app/blueprints/api/routes.py`, `app/services/activitypub/posts/service.py` | the table `images`, the alt texts on the platform | extract, save, generate, edit, approve, regenerate, post, clean up | every actor reads a row, waits for a model or a server, and writes later; a PUT may be lost, repeated or late | one row per attachment; nothing published without a reviewer; POSTED is said of what a PUT reached |
| Platform connections | `app/blueprints/api/routes.py`, `app/services/monitoring/platform/redis_platform_manager.py` | the table `platform_connections`, a cache of an hour in Redis | add, edit, delete, switch | a delete cascades into tasks that run; nothing invalidates the cache | no task outlives its connection's row |
| Storage limits | `app/services/storage` | the directory `storage/images`, a block key in Redis, overrides with an expiry | check, block, unblock, clean up, override | check and write apart; Redis or the disk away | few overrides; a block does not stand for ever |
| Configuration | `app/core/configuration` | values, a cache with a lifetime, subscribers | get, set, invalidate | a stale value cached after the invalidation | a read after a write sees it |
| The rest | the pool of the database manager, rate limits, CSRF, users, ActivityPub client, alerts, GDPR, blueprints, front end, scripts | | | | |

Requests and workers meet in the table: each opens a SQLAlchemy session, reads, and
commits. There is no message passing between them except through Redis (RQ, the block of
the storage limit) and the events of the progress tracker. What they make, captions,
meets the reviewers in the table `images`. Every web request and administrator page
builds its own `TaskQueueManager` (`web_caption_generation_service.py:39`,
`rq_web_caption_service.py:48`, `admin_api.py:865`), so the lock in it serialises only
the callers that share the object. The same is true of the storage enforcer and of the
override system.

## Modules

| Module | What it is |
|---|---|
| `TaskQueue` | the table, the methods of `TaskQueueManager`, the workers' loops |
| `UserSlots` | what the queue promises a user: one slot, free, waiting or working; every step atomic |
| `MCTaskQueue` | small deployments of `TaskQueue` |
| `MCProcesses` | a deployment of two processes, a manager each |
| `TaskQueueProofs` | type correctness, and `RunningHasWorker` without faults |
| `ManagersProofs` | any number of managers: bounds in their number on running and queued tasks, active tasks of a user and workers at a task |
| `SharedQueueProofs` | one manager: `OneActivePerUser`, the two limits, `NoDoubleProcessing`; `TaskQueue` implements `UserSlots` |
| `RQQueue` | Redis jobs beside database rows: submission, the user's key, RQ workers, the database processor, migration |
| `MCRQQueue` | an instance of `RQQueue` |
| `RQQueueProofs` | types, the user's key, RUNNING rows, one push per job |
| `RedisHealth` | the mode `RQQueueManager` works in and the two health monitors that switch it |
| `RedisHealthProofs` | types, the mode under an enqueue, a declared failure |
| `OperationLocks` | the locks of `ConcurrentOperationManager` |
| `Leases` | what the locks promise: a re-entrant lease per key, which may lapse; every step atomic |
| `OperationLocksProofs` | types; a block keeps its key; mutual exclusion; `OperationLocks` implements `Leases` |
| `StorageLimits` | generations that scan the directory, the block, clean-ups, overrides |
| `StorageLimitsProofs` | types, how many overrides stand |
| `ImageReview` | an image's row and its alt text: generation, review, posting, clean-up |
| `MCImageReview` | the symmetry of `ImageReview` |
| `ImageReviewProofs` | types, one row per attachment, a reviewer before each publication, what POSTED means, reviewers publish what they submitted |

The three models of queues meet at named places: `RQQueue` takes `get_next_task`
and `enqueue_task` of the table as one step each, where `TaskQueue` takes them
apart, and takes the switch of the mode as one step, where `RedisHealth` takes it
apart. A generation of `ImageReview` is what a worker of the queues does with its
task, and `StorageLimits` has the check it passes before; both leave the task row to
`TaskQueue`. `OperationLocks` stands alone.

### TaskQueue

`tasks[t]` is the row with the t-th insertion (`created_at` order); `NoRow` stands
for a row not inserted yet or deleted. `lock[m]` is the owner of the
`threading.Lock` of manager object m; `ManagerOf` says through which object an
actor goes. `session[a]` is what the open session of actor a has read and is going
to write; `job[w]` is the task a worker is processing.

A method is two steps. The step named after it does `with self._lock`,
`get_session()` and the reads, and records what will be written; `Commit` of the
actor does `session.commit()`, `session.close()` and releases the lock. Other
actors run in between, as other processes and threads do. An UPDATE of a row that
has been deleted since makes SQLAlchemy raise `StaleDataError`, which every
method catches (`Rollback`). A method that returns early without writing has no
step: it changes nothing. `retry_failed_task` calls `should_auto_retry_task`,
which has a session of its own: three steps. Columns no property tells apart
(platform, settings, times, messages, progress) are left out; the cutoffs of
`cleanup_completed_tasks` and `clear_stuck_tasks` become "any set of rows in the
right state", which includes what any clock would choose.
`admin_notes` is kept as one bit, the note "Marked for cancellation" that
`resume_user_jobs` looks for.

`DeletePlatform` is the `ON DELETE CASCADE` of the foreign key from a task to its
platform connection: `delete_platform` removes task rows of any status, also one a
worker is at or an open session has selected. Which rows are the connection's is
left open. A late UPDATE is then stale, a late insert is refused by the foreign key
(`Rollback`), and `complete_task` finds no row and lets go of the task.

A `Processor` is the background processor of the web service: `get_next_task`,
generate, `complete_task`. A `Script` takes a QUEUED row without writing to it, as
`caption_worker.py` does; a batch of `process_queued_tasks.py` is one Script per
task of the batch. The end of `_process_task` reaches
`complete_task` once with success or failure; what follows that call in the error
path catches its own errors. `Crash` is the death of the process, or the
`CancelledError` of `shutdown()`, which no handler turns into a write. The
constant `Faults` says which of crashes and failing commits a deployment meets,
`Methods` which methods are called.

### RQQueue

A request (`start_caption_generation_sync`) is a line of steps, because each reads
a store another actor writes: `CheckKey` and `CheckRows` look for an active task,
`ClaimKey` sets the user's key under the manager's lock, `EnqueueToRedis` pushes
the job, and any error on the way (`EnqueueFails`, before or after the push)
clears the key and leads to `FallbackCheck` and `FallbackInsert`, which put a row
into the table. `key[u]` is `vedfolnir:user_active_task:<u>`, `jobs[t]` counts how
often t lies in the Redis queues, `row[t]` is its row. An RQ worker goes through
`TakeJob`, `ReadTask`, `StartTask`, `FinishTask`; it reads the row before it writes
RUNNING and writes the end without looking, so a cancellation or a database
processor may come in between. The migration fetches a batch of QUEUED rows and
then, row by row, picks, pushes and tracks; when it is through, an administrator may
start another, `MaxMigrations` in all, so a row may be migrated, revived and migrated
again.

COMPLETED, FAILED and CANCELLED are one status, "ENDED": the difference is
`TaskQueue`'s business. Left out: database errors, worker crashes, priorities, the
pages of a large migration, a Redis command whose reply is lost. `KeyExpires`
is the end of the key's fixed lifetime of two hours, which nothing renews: it may come at
any moment, also while the job waits or runs. `lapsed` remembers the jobs whose key ran
out, and `ReturnedJobHoldsKey` says that a returned job loses its key in no other way.

### RedisHealth

`RQQueueManager` has one monitor and `RedisConnectionManager` another, each with
`is_healthy` and `consecutive_failures`. A check is cut where the code calls out:
the probe (ping, INFO), the bookkeeping on its result, the callbacks. Bookkeeping
is one step: it makes no call between test and assignment. The failure callback
takes `_lock` and sets the database mode; the recovery callback holds `_lock` from
`TakeLock` through `get_connection()`, with its ping and one reconnection after a
delay, to `Restore` or `GiveUp`. `enqueue_task` holds the same lock while it claims
the user's slot and stores the task (`EnqueueClaims`, `EnqueueStores`), and reads
the two mode flags once for each. Counters are only compared with their limits and
stop one past them. Requests check too: every enqueue of the web service is preceded by
`check_redis_health()`, in another thread than the loop, so a recovery callback of a request
may be overtaken by a failure callback of the loop and turn RQ mode on under a declared
failure. `overtaken` remembers that this happened, and `DeclaredFailureStands` and
`DownMeansFallback` speak of the other runs. Redis fails, fills up (answers, but the memory check fails) and
returns at any moment. A start without Redis, where no monitor is built, is not
modelled.

### OperationLocks

Every method runs under `_lock_registry`, so it is one step. `active[k]` is the lock
of a key (scope, resource, operation type), `frames[t]` the `with acquire_lock`
blocks thread t is in. A thread that holds a key is given the same lock again for
an inner block, and the inner block's `finally` releases the id it generated
itself, which is in no lock. `Expire` is the clock passing `expires_at`;
`CleanupExpiredLocks`, `IsResourceLocked` and a later `AcquireLock` remove what has
expired; `ForceReleaseLock` and `Shutdown` remove what has not. `Shutdown` also stops the
cleanup thread (`cleaner`): it sets `_stop_cleanup`, joins the thread, which may take a last
turn, and empties the table. Locks can be taken afterwards, and then nobody but another
request for the key removes an expired one. The history of operations is a log and left
out.

`Leases` is the same without lock ids, expiry or a registry: a holder per key, the open
blocks it protects, the blocks whose lease has lapsed. The mapping reads `holder[k]`
from a lock that is in the table and unexpired, `blocks[k]` from the frames that were
given its id, `orphans` from the frames under an id that has expired or was removed.
`Expire`, `ForceReleaseLock` and `Shutdown` are `Lapse`, the removal of a lock already
expired is a stutter, and the end of a block is `Drop` or `Abandon`.

### StorageLimits

`used` counts images: the limit of the code is in bytes, and what the properties tell
apart is below the limit and at it. A generation is cut where the code calls Redis or the
database: the scan (`CheckStorage`), the override, the block it sets or lifts. `Scans` is
what a scan may return: the truth, or, when files cannot be read, anything less, or exactly
the limit (the monitor takes a failed scan for a full directory). Without Redis no enforcer
can be built and the generation runs unmeasured (`SkipCheck`). A clean-up keeps the metrics
it read first and asks for the block only if it sees fewer bytes than before
(`CompareSizes`) or is a full clean-up. `ValidateActivation` and `InsertOverride` are
the two sessions of `activate_override`; `overrides` counts the rows that are active
and unexpired, and `EndOverride` is a deactivation or the clock.

`StoreImage` is `main.py`, which downloads at any moment and asks nobody. The generations
that ask store nothing at this commit: `PlatformAwareCaptionAdapter._process_post` gives a
post's author to `get_or_create_post` as a string, which raises before any image is
downloaded; the RQ workers use the same adapter. So no bound on the directory is stated:
it would speak of generations that add nothing, and `main.py` keeps to none. Left out: the
notifications, the dashboards, the cache of the metrics (it lives as long as one request),
the age of files.

### ImageReview

`rows[k]` is the k-th row of `images`; `alt[i]` the alt text of attachment i on the
platform. A generation goes through `FetchPost` (attachments without alt text),
`IsImageProcessed`, `LookForImage`, `InsertImage` (the unique constraint on post and
attachment decides between two) and `StoreGenerated`, each a session of its own. A
request of a reviewer keeps what it read (`seen`) while it waits for the platform or
the model; its commit writes only the columns it changed from what it read (`Flush`),
as the ORM does. `PostingService` reads a list of approved rows once and works through
it. The PUT of both is `Deliver` (as often as it is retried), and then
`PutSucceeds`, `PutFails`, or `PutMissing`: an error counts as success when its text holds
"404" or "not found", be it the platform's answer or a URL with these digits in it. After
an error the last attempt may still be on its way (`LatePut`). `typed[i]` remembers the
captions reviewers submitted for i, `misread` the attachments of which an error was taken
for a 404 although the platform has them and no PUT had reached them.

A caption may be `Blank`: the form of `review_single` refuses it, `approve_and_post` does
not. A blank alt text is one a PUT brought, and a generation takes it for a missing one.
Of what it loaded a request keeps what its commit may write (`Loaded`), of its list a poster
the attachment and the final caption (`Entries`).

Left out: posts, the files of the images, scores, `reviewed_caption` (nothing that is
modelled writes it), the order and length of the poster's list, the age of a POSTED row at
a clean-up. The posting is the one of `BATCH_UPDATE_ENABLED=false`;
with the default the batch fails before it posts anything (below). One connection is
modelled, and it is not deleted: the rows of a deleted one linger without it.

## Runs

| Run | Question | Instance |
|---|---|---|
| `shared` | if every actor shares one manager, do the methods interleave safely and implement `UserSlots`, with crashes, failing commits and deleted platforms, and are the two counts that are read before the commit ever passed? | 2 users, 2 requests, 2 processors, 2 rows, limit 1 running and 1 queued, administrator methods, clean-up, platform deletion |
| `own` | with a manager per actor and a script, does every RUNNING row have a worker? | 2 users, a request, a processor and a script with a manager each, 2 rows, retries and requeues |
| `processes` | with two managers, how far are the limits, the single task per user and the single worker per task missed? | 2 users, 2 requests and 3 processors in two processes, 3 rows, limit 1 running and 1 queued, crashes |
| `rq` | is a job without a row pushed once, does a returned job hold its user's key, is every RUNNING row in somebody's hands? | 2 submissions of one user, an RQ worker, a database processor, a migration |
| `health` | does the mode stay put under an enqueue, does a declared failure stand, does a dead Redis lead to database mode, when requests check as well as the loop? | both loops, a request that checks, 2 enqueuing threads, threshold 2, 1 reconnection |
| `locks` | does a block keep its key, do two threads exclude each other, do keys come free, do the locks implement `Leases`? | 2 threads, 2 keys, limit 2, nesting 3, 3 ids |
| `storage` | how many overrides stand, is a block on an old scan lifted? | 2 generations (one with overrides), 2 clean-ups, 2 override requests, `main.py`, limit 1, faults of Redis and disk |
| `review` | has an attachment one row, is nothing published without a reviewer, is POSTED said only of what a PUT reached, what is gone, or what an error was misread for? | an attachment and 2 rows for it, 2 generations, a reviewer, a poster, a clean-up, one text and a blank |

Four runs show where the program does something its own words deny; each is a
finding in `PROJECT.json`, with the words quoted:

| Run | What TLC shows |
|---|---|
| `one_task_per_user` | two requests with a manager each leave a user with two active tasks |
| `cancelled_completes` | a cancelled task becomes COMPLETED |
| `recovery_lost` | a recovery callback whose ping fails leaves database mode on, and no later check repeats it |
| `approved_captions` | a PUT that fails leaves the reviewer's caption in one column and the poster sends another: the model's text, which the reviewer replaced, is published |

Deadlock is off where the system may stop: in the runs of `TaskQueue` when every id
of the bound `MaxTasks` is used and every task has ended, in `locks` when every id
has been generated. It is checked in all others, which never stop.

Bounds. Two users and two requests are the smallest that tell "the same user" from
"another user" and let two checks overlap; two processors the smallest for a double
start. Rows are never reused, so a larger `MaxTasks` repeats these histories. With the
limits of `shared` at one, one task is running and one queued while further requests and
starts are open. In `processes` a processor of the other process and one more in it tell
the bound on managers from one on processors. In `rq` two submissions of one user are
the smallest contest for a key; each makes at most one task per queue, so a row of the
first is there for the fallback of the second. One migration fits into the time of the
run; what several do to each other's rows is proved. In `health` a threshold of 2 tells
a single failure from a declared one, and one allowed reconnection reaches the state
where none is left. In `locks` three nested blocks let a thread enter a key again inside
another key, and three ids let a key be held, lost and taken again. In `storage` a
limit of one image is the smallest with a directory below it and at it; the generation with
overrides and the one without make every branch of the check happen; two override requests
can both find none, and two clean-ups can see each other's files go. In `review` one
attachment is enough, as no action reads two, and one text beside the blank one, as no
property of the run asks who wrote it (`approved_captions` has two); two rows let it be
deleted and inserted again while someone
still holds the first. Requests and processors in `shared`, users and the other
process's processors in `processes`, generations in `review`, are interchangeable sets
of model values, which makes the symmetry sound; the runs with liveness properties do
not use it.

Fairness.

* `TaskQueue`, `RQQueue`: none, and no liveness. A queued row need not be taken: the
  pages submit through `start_caption_generation_sync`, which starts no background
  processor, the asynchronous path skips it without a running loop, and `web_app.py`
  starts none; an RQ worker may never be started.
* `RedisHealth`: `WF` on the two loops and on each step of a check once begun;
  `SF` on taking the lock, because a `threading.Lock` that is free again and again
  is obtained; `WF` on the end of an enqueue. Nothing is assumed of Redis or requests.
* `OperationLocks`: `WF` on the clock, and on the cleanup thread, which wakes every
  minute, while it runs: after a shutdown nothing empties the table, and `KeysComeFree`
  promises only that the lock expires. Blocks need not end.
* `StorageLimits`: `WF` on the steps of a check, a generation or a clean-up that has
  begun. Nothing is assumed of requests, Redis or the disk: `BlockLifted` has as its
  premise that they answer from some time on and that someone keeps asking.
* `ImageReview` states no liveness: a generation may fail for ever, a PUT may be
  refused for ever, and nobody has to review.

## Proofs

Every theorem holds for all values of the constants that meet the named assumptions.

* `TaskQueueProofs`. `TypeCorrect` is `Spec => []TypeOK`; the lemmas `OpenType`,
  `CloseType` and `WrittenType` say what the opening, the closing and the written
  columns of a session keep. `RunningIsOwned`: without faults every RUNNING row has
  a worker, for any managers, methods and actors. `Shapes` strengthens it by what an
  open session looks like (which operation writes which status; that only a
  processor holds a `get_next_task` session, and only while it has no job; that a
  `complete_task` session is about the worker's own job). The delicate step is a
  worker that reads "already COMPLETED" and so writes nothing: a late
  `get_next_task` of another processor may revive the row meanwhile, but then that
  processor is the worker of the row.
* `ManagersProofs`. For any managers (`FewManagers`: finitely many). A session that
  checks holds its manager's lock (`LockHeld`), so at most one check per manager is past
  its reads and before its commit. Each bound is proved of a sum in which such a check
  already counts as what it is going to write, as the number of rows alone is not
  inductive: `StartInv` adds the open starts to the running rows, `QueueInv` the open
  inserts to the queued rows, `ClaimInv` the open inserts for a user to the rows that
  are active or about to be revived, `HandsInv` the open starts of a row to the workers
  at it. A check that lets one more in has found room for it (fewer running than the
  limit, no active task, a row QUEUED and so in nobody's hands), and then the sum is at
  most what the locks of the others allow. `HoldersPerManager` turns "each holds the
  lock of its manager" into a number, by an injection. `RunningBoundedPerManager` needs
  nothing more; the others `NoRetry`, and `QueueBoundedPerManager` no requeue,
  `WorkersBoundedPerManager` no scripts.
* `SharedQueueProofs`. For one manager (`OneManager`). The argument is one idea: what a
  check read stands until its commit, since a session that checks holds the only lock.
  `CheckStands` says it of the user's active tasks, `SlotLeft` and `Untouched` of the
  row about to be written; the two limits are the bounds above for one manager.
  `RunningBounded` holds whatever retries and faults, `SingleTaskPerUser` without
  `retry_failed_task` (`NoRetry`), which queues a row again without lock or check,
  `QueueBounded` without `requeue_failed_task` too, `OneWorkerPerTask` without retries
  and scripts. A deleted platform (`Deletes`) takes rows from under all of this;
  `DeleteQuiet` is why nothing breaks: it makes no row active, so what a check found
  absent stays so. `QueueImplementsSlots`: the initial states map, and each step is one
  step of `UserSlots` or a stutter, for one manager and without retries. `StillQueued`
  says that a row about to be started is still QUEUED at the commit, or gone with its
  platform; it needs `Scripts = {}`, as a script may have finished the row by then.
* `RQQueueProofs`. `RQTypeCorrect` includes that the count of a job in the queues
  does not go below zero. `ReturnedJobsHoldKeys`: `ClaimHeld` (the key of a request
  between claim and store is its own, or ran out: `lapsed`) and `RowsOfStored` (a row under a task's RQ id
  exists only if the task was enqueued in database mode, and only tasks with rows are
  migrated or started, so no returned job is pushed again) make it inductive.
  `HandsAreThere` needs only `BusyHasTask`: who is busy has a task. `JobsArePushedOnce`
  adds `Untraced` to them: a submission that has not pushed has left no job and no worker
  under its id, so its one push is the first, and `RowsOfStored` again keeps the
  migrations away from a task without a row.
* `RedisHealthProofs`. `ClaimsMatchStores`: `LockHeld` (the lock is where the steps
  say) and `ModesOpposed` (the two flags are opposite) suffice. `FailuresStand` holds
  for any requests that check beside the loop: `RecoveriesOvertaken` says that a recovery
  callback which is still to come under a declared failure was overtaken by it, and
  `OnlyQueueLocks` keeps the other loop out of the callbacks.
* `OperationLocksProofs`. `LocksTypeCorrect`, and `Protection` from `IdsAreFresh` (no
  two blocks generated one id), `LocksComeFromOutside` (a block's lock was made by it or
  by a block around it, so the end of an inner block removes only what it made),
  `LocksHaveBlocks` (a lock in the table was made by a block that has not ended) and
  `BlocksAreProtected`; `MutualExclusion` follows: two live blocks of a key would both
  own it. `LocksAreLeases` is the refinement. The mapping reads the frames, so a step
  must be known to change them for one id only: `EnterUnder` and `LeaveUnder` say how
  the blocks under each id change, whatever the key. `LeaseInv` adds that the lock of a
  key was made by an open block of its owner for that key, with its own id, and was not
  removed by force (`MadeByBlocks`), so the end of the block that made it is the end of
  the last block under it, and frees the key in both.
* `StorageLimitsProofs`. `ActiveOverridesBounded` counts a request that found no override as the
  one it may insert (`RequestsCount`): the check keeps the sum at the number of
  requests, although no lock spans it. `StorageTypeCorrect` includes that no count goes
  below zero.
* `ImageReviewProofs`. The effect of a step is stated once, for the table (`RowStep`),
  for the jobs (`JobStep`) and for the platform (`PlatformStep`), and each invariant is
  proved from these three and not action by action. `Numbered` (rows are inserted
  above all ids in use, so what someone holds under an id stays a row of the same
  attachment or is gone) gives meaning to stale reads; `OneRowHolds` needs the unique
  constraint. `DecisionsPrecedePublication` from `Decided`: not only what is on the
  platform but every list, job and late PUT is of an image a reviewer submitted
  something for. `PostedHolds` from `Answered`: a job that has its answer is about an
  attachment a PUT reached, one that is gone, or one an error was misread for, and the
  three last.
  `ReviewersPublishTheirOwn`: where no `PostingService` runs, `ApprovedCaptions` holds,
  the property the run `approved_captions` refutes with one. `SendStep` says where a PUT's
  caption comes from and where it may arrive, `Submitted` that every caption on its way,
  late ones included, was typed for its image.

Only model-checked: what needs fairness (`DownMeansFallback`, `KeysComeFree`,
`BlockLifted`), which the prover has no rule for, and `DeletesOnlyFinished`, which without
retries is a matter of the clean-up's own `WHERE`.

## Known and without a run

Seen while modelling; no run shows them, and `PROJECT.json` lists them as hazards
or below as plan:

* `get_next_task` hands out LOW before URGENT: the `ORDER BY` is over comparisons, and
  a false one sorts first (`Before` has the order of the code).
* Two concurrent `retry_failed_task` of one task pass the retry limit, which is read
  in another session than the one that counts; with one requester at a time it stands.
* `requeue_failed_task` does not look at `queue_size_limit`; `pause_user_jobs` marks a
  running task "for cancellation" and nothing reads the mark before it completes.
* A recovery callback of a web request that is delayed past a failure callback of the
  loop turns RQ mode on again while the failure stands (`overtaken` in `RedisHealth`).
* A row that falls back to the table stays QUEUED until someone starts a processor: the
  pages start none, and RQ workers do not read the table.
* An error whose text holds "404" makes a caption POSTED that the platform never got
  (`activitypub_platforms.py:375`); `approve_and_post` publishes a blank caption.
* A job that waits or runs longer than two hours loses its user's key, and the user may
  submit a second one (`lapsed` in `RQQueue`).
* A user can have a job and a row: the fallback looks at rows only.
* A task queued through Redis has no row: `_enqueue_to_redis_secure`
  (`rq_queue_manager.py:315`) only updates one if there is one. `get_task_status` finds
  nothing, the worker raises "Task ... not found", no status is written
  (`rq_web_caption_service.py:235` takes both kinds of tasks to be in the table).
* `enforce_job_timeout` and the start-up recovery subtract a naive time from an
  aware one and raise before they write: no job times out, no interrupted task is
  recovered. `fail_task`, called at the storage limit, does not exist; the handler
  around it completes the task as failed. The automatic migration on reconnection
  is a TODO (`rq_queue_manager.py:182`).
* With `BATCH_UPDATE_ENABLED` true, the default, the poster groups detached rows by
  `image.post`, which can no longer be loaded, so nothing is posted.
* The web adapter passes its user id as a string, which `get_or_create_post` refuses:
  only `main.py` saves images.
* `approve_and_post` and `review_single` never set `posted_at`, so the clean-up of
  POSTED images never selects what they posted (`dated` in `ImageReview`); no wired
  code sets REJECTED or ERROR. A row APPROVED without a `final_caption` fails at every
  posting. A row POSTED when a reviewer read it and regenerated during the PUT stays
  PENDING, as an attribute that did not change is not written (`Flush`).
* Deleting a platform connection sets `platform_connection_id` of its images to NULL
  instead of deleting them; adding it again yields second rows for its attachments.
* `platform_management.py` calls `clear_user_platforms`, which the Redis platform
  manager does not have, and nothing calls its `invalidate_user_cache`: for an hour a
  page may show a connection that is edited or gone.

## Not modelled

Two administrator pages write a task row past the manager: cancelling (QUEUED or
RUNNING becomes CANCELLED) and retrying (FAILED or CANCELLED becomes QUEUED) in
`admin/routes/rq_monitoring.py`, and `set_job_priority` of
`MultiTenantControlService`. `TaskQueue` does not take these steps, so what it shows
of a row's status holds while those pages are not used.

The retry scheduling column `scheduled_at` is not in the table and has no reader.
`update_*` and `refresh_configuration` of `TaskQueueManager`, which would change the
limits at run time, have no caller, and the adapter that would call them is built by
tests only. `enforce_job_timeout`, which would fail a row that runs too long, is called
by tests only. `ConfigurationService` and `UnifiedNotificationManager` are replaced in
`web_app.py` by a wrapper and by a stub, so what they would do while the queue runs
does not happen; the maintenance service is built per page to read a status. The
priority scheduler is called by nobody. The cache of platform connections promises
nothing beyond an hour of staleness, so there is no property to state of it.

`simple_caption_worker.py`, which marks rows RUNNING without the lock, is a script the
operations manual starts when RQ is rolled back; it is left for later. The components
with status `not_modelled` in `PROJECT.json` have the reason beside them: input and
output without shared state (ActivityPub client, pages, scripts), reports around the
core (alerts, metrics, compliance), or planned below.

## Plan

Done: `TaskQueue` with `UserSlots`; `OperationLocks` with `Leases`; `RedisHealth`; `RQQueue`;
`StorageLimits`; `ImageReview`; their proofs. To come, in this order:

1. `simple_caption_worker.py` as a third kind of worker of `TaskQueue`.
2. `TaskRecovery`: what a stop leaves RUNNING and what a start makes of it
   (`system_recovery_manager.py`, `graceful_shutdown_handler.py`), over the table.
3. `RedisFallback`: the second fallback manager, whose callbacks take the lock their
   caller holds; deadlock. `WorkerCoordination`: the coordination keys with their
   lifetime, against two coordinators.
4. `ErrorRetry`: the retry inside the retry of `error_recovery_manager.py`, and its
   bound; dead letters: nothing lost, nothing in two lists.
5. The pages of a migration, which moves the rows it pages through, as an extension
   of `RQQueue` against an abstract specification "every row once".
6. The deletion of a platform connection in `ImageReview`; two connections.
7. Notifications of offline users, emergency termination, user lockout.

Theorems worth proving there: exclusion of coordinators while keys are refreshed;
the bound of retries; every row migrated once.
