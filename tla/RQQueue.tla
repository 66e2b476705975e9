------------------------------ MODULE RQQueue ------------------------------
(***************************************************************************)
(* The two queues side by side: Redis jobs and database rows.  A request   *)
(* (start_caption_generation_sync) looks for an active task, asks whether  *)
(* Redis is healthy, and queues a job through the process's one            *)
(* RQQueueManager, whose enqueue_task claims the user's Redis key and      *)
(* pushes the job under its lock; on any error it queues a row instead.    *)
(* RQ workers take jobs, the database processor takes rows, and an         *)
(* administrator may migrate rows to jobs.                                 *)
(*                                                                         *)
(* Left to other modules: the steps inside get_next_task and enqueue_task  *)
(* of the table (TaskQueue) and of the mode switch (RedisHealth), which    *)
(* here are single steps; database errors and worker crashes; priorities.  *)
(* COMPLETED, FAILED and CANCELLED are one status here, "ENDED".           *)
(***************************************************************************)
EXTENDS Integers

CONSTANTS
    Requests,      \* submissions, one start_caption_generation_sync() each
    User,          \* the user of each request
    Workers,       \* RQ workers
    Processors,    \* loops that drain the table
    MaxMigrations, \* bound: migrations an administrator starts
    None

(* A submission makes at most one task per queue, each with a new id. *)
TaskIds   == Requests \X {"rq", "table"}
UserOf(t) == User[t[1]]
Users     == {User[r] : r \in Requests}

ASSUME RQAssumption ==
    /\ None \notin TaskIds \cup Requests
    /\ DOMAIN User = Requests
    /\ MaxMigrations \in Nat

VARIABLES
    redisUp,   \* Redis answers
    rqMode,    \* _redis_available and not _fallback_mode
    key,       \* vedfolnir:user_active_task:<user>
    lapsed,    \* history: the tasks whose key ran out
    jobs,      \* how often each task id lies in the Redis queues
    row,       \* status of each task's row, "absent" if it has none
    request,   \* where each request is
    lock,      \* holder of RQQueueManager._lock
    worker,    \* what each RQ worker does, and to which task
    processor, \* the row each database processor works on
    migration  \* rows fetched and not yet migrated, the row in hand, the
               \* number of migrations started

store == <<key, lapsed, jobs, row>>
hands == <<worker, processor, migration>>
vars  == <<redisUp, rqMode, store, request, lock, hands>>

Active       == {"QUEUED", "RUNNING"}
Working(t)   == \E w \in Workers : worker[w].task = t
HasRow(u)    == \E t \in TaskIds : UserOf(t) = u /\ row[t] \in Active
RQTask(r)    == <<r, "rq">>
TableTask(r) == <<r, "table">>

Go(r, to)     == request' = [request EXCEPT ![r] = to]
SetRow(t, s)  == row' = [row EXCEPT ![t] = s]
SetKey(u, t)  == key' = [key EXCEPT ![u] = t]
Idle          == [at |-> "idle", task |-> None]

Init == /\ redisUp = TRUE
        /\ rqMode = TRUE
        /\ key = [u \in Users |-> None]
        /\ lapsed = {}
        /\ jobs = [t \in TaskIds |-> 0]
        /\ row = [t \in TaskIds |-> "absent"]
        /\ request = [r \in Requests |-> "new"]
        /\ lock = None
        /\ worker = [w \in Workers |-> Idle]
        /\ processor = [p \in Processors |-> None]
        /\ migration = [at |-> "off", rows |-> {}, task |-> None, started |-> 0]

-----------------------------------------------------------------------------
(* Redis fails or comes back; keys and jobs survive. *)
RedisChanges ==
    /\ redisUp' = ~redisUp
    /\ UNCHANGED <<rqMode, store, request, lock, hands>>

(* The health callbacks switch the mode under the lock (see RedisHealth). *)
ModeChanges ==
    /\ lock = None
    /\ rqMode' = ~rqMode
    /\ redisUp \/ rqMode
    /\ UNCHANGED <<redisUp, store, request, lock, hands>>

(* The key's two hours pass, whatever its task does: nothing renews them   *)
(* (extend_task_ttl() is never called).                                    *)
KeyExpires(u) ==
    /\ key[u] # None
    /\ SetKey(u, None)
    /\ lapsed' = lapsed \cup {key[u]}
    /\ UNCHANGED <<redisUp, rqMode, jobs, row, request, lock, hands>>

-----------------------------------------------------------------------------
(* _user_has_active_task(), first the key: an error reads as no task. *)
CheckKey(r) ==
    /\ request[r] = "new"
    /\ Go(r, IF redisUp /\ key[User[r]] # None THEN "refused" ELSE "unkeyed")
    /\ UNCHANGED <<redisUp, rqMode, store, lock, hands>>

(* ... then the table.  check_redis_health() picks the way; it also fails  *)
(* on full memory.                                                         *)
CheckRows(r) ==
    /\ request[r] = "unkeyed"
    /\ \/ HasRow(User[r]) /\ Go(r, "refused")
       \/ ~HasRow(User[r]) /\ redisUp /\ Go(r, "rq")
       \/ ~HasRow(User[r]) /\ Go(r, "table")
    /\ UNCHANGED <<redisUp, rqMode, store, lock, hands>>

(* Mutant: SET without NX. *)
ClaimKey_NoNX(r) ==
    /\ request[r] = "rq" /\ lock = None /\ rqMode
    /\ redisUp
    /\ SetKey(User[r], RQTask(r))
    /\ lock' = r
    /\ Go(r, "claimed")
    /\ UNCHANGED <<redisUp, rqMode, lapsed, jobs, row, hands>>

(* enqueue_task() in RQ mode: SET NX of the user's key under the lock. *)
ClaimKey(r) ==
    LET u == User[r] IN
    /\ request[r] = "rq" /\ lock = None /\ rqMode
    /\ redisUp /\ key[u] = None
    /\ SetKey(u, RQTask(r))
    /\ lock' = r
    /\ Go(r, "claimed")
    /\ UNCHANGED <<redisUp, rqMode, lapsed, jobs, row, hands>>

(* ... and without the key ValueError, which the web service turns into a  *)
(* database submission like any other error.                               *)
ClaimRefused(r) ==
    /\ request[r] = "rq" /\ lock = None
    /\ IF rqMode THEN ~redisUp \/ key[User[r]] # None ELSE HasRow(User[r])
    /\ Go(r, "table")
    /\ UNCHANGED <<redisUp, rqMode, store, lock, hands>>

(* enqueue_task() in database mode: check and insert under the lock. *)
EnqueueToDatabase(r) ==
    /\ request[r] = "rq" /\ lock = None /\ ~rqMode
    /\ ~HasRow(User[r])
    /\ SetRow(RQTask(r), "QUEUED")
    /\ Go(r, "stored")
    /\ UNCHANGED <<redisUp, rqMode, lapsed, key, jobs, lock, hands>>

(* _enqueue_to_redis_secure(): the job is pushed, no row is written, and   *)
(* the id is returned.                                                     *)
EnqueueToRedis(r) ==
    LET t == RQTask(r) IN
    /\ request[r] = "claimed"
    /\ redisUp
    /\ jobs' = [jobs EXCEPT ![t] = @ + 1]
    /\ lock' = None
    /\ Go(r, "queued")
    /\ UNCHANGED <<redisUp, rqMode, lapsed, key, row, hands>>

(* Mutant: a submission that failed is tried again in Redis. *)
EnqueueFails_Retries(r) ==
    LET t == RQTask(r) IN
    /\ request[r] = "claimed"
    /\ \/ UNCHANGED jobs
       \/ redisUp /\ jobs' = [jobs EXCEPT ![t] = @ + 1]
    /\ IF redisUp THEN SetKey(User[r], None) ELSE UNCHANGED key
    /\ lock' = None
    /\ Go(r, "rq")
    /\ UNCHANGED <<redisUp, rqMode, lapsed, row, hands>>

(* ... or it raises, before the push or after it (the update of the table  *)
(* follows the push), and clears the user's key if Redis still answers.    *)
EnqueueFails(r) ==
    LET t == RQTask(r) IN
    /\ request[r] = "claimed"
    /\ \/ UNCHANGED jobs
       \/ redisUp /\ jobs' = [jobs EXCEPT ![t] = @ + 1]
    /\ IF redisUp THEN SetKey(User[r], None) ELSE UNCHANGED key
    /\ lock' = None
    /\ Go(r, "table")
    /\ UNCHANGED <<redisUp, rqMode, lapsed, row, hands>>

(* The database service: its own look at the table ... *)
FallbackCheck(r) ==
    /\ request[r] = "table"
    /\ Go(r, IF HasRow(User[r]) THEN "refused" ELSE "inserting")
    /\ UNCHANGED <<redisUp, rqMode, store, lock, hands>>

(* ... and its insert. *)
FallbackInsert(r) ==
    /\ request[r] = "inserting"
    /\ SetRow(TableTask(r), "QUEUED")
    /\ Go(r, "stored")
    /\ UNCHANGED <<redisUp, rqMode, lapsed, key, jobs, lock, hands>>

(* cancel_generation(): the row only, the job stays. *)
CancelGeneration(t) ==
    /\ row[t] \in Active
    /\ SetRow(t, "ENDED")
    /\ UNCHANGED <<redisUp, rqMode, lapsed, key, jobs, request, lock, hands>>

-----------------------------------------------------------------------------
Do(w, at, t) == worker' = [worker EXCEPT ![w] = [at |-> at, task |-> t]]

(* Mutant: a job is taken without looking whether it is still queued. *)
TakeJob_Unqueued(w) ==
    /\ worker[w].at = "idle" /\ redisUp
    /\ \E t \in TaskIds : jobs' = [jobs EXCEPT ![t] = @ - 1] /\ Do(w, "reading", t)
    /\ UNCHANGED <<redisUp, rqMode, lapsed, key, row, request, lock, processor, migration>>

(* An RQ worker takes any queued job. *)
TakeJob(w) ==
    /\ worker[w].at = "idle" /\ redisUp
    /\ \E t \in TaskIds : /\ jobs[t] > 0
                          /\ jobs' = [jobs EXCEPT ![t] = @ - 1]
                          /\ Do(w, "reading", t)
    /\ UNCHANGED <<redisUp, rqMode, lapsed, key, row, request, lock, processor, migration>>

(* process_task() reads the row and checks the access; without a row or    *)
(* access it goes straight to its error path.                              *)
ReadTask(w) ==
    LET t == worker[w].task IN
    /\ worker[w].at = "reading"
    /\ \/ row[t] # "absent" /\ Do(w, "starting", t)
       \/ Do(w, "failing", t)
    /\ UNCHANGED <<redisUp, rqMode, store, request, lock, processor, migration>>

(* _update_task_status(RUNNING), whatever the row has become. *)
StartTask(w) ==
    LET t == worker[w].task IN
    /\ worker[w].at = "starting"
    /\ SetRow(t, "RUNNING")
    /\ Do(w, "working", t)
    /\ UNCHANGED <<redisUp, rqMode, lapsed, key, jobs, request, lock, processor, migration>>

(* Mutant: a task whose captions fail keeps its status. *)
FinishTask_FailureLeft(w) ==
    LET t == worker[w].task IN
    /\ worker[w].at \in {"working", "failing"}
    /\ \/ worker[w].at = "working" /\ SetRow(t, "ENDED")
       \/ UNCHANGED row
    /\ worker' = [worker EXCEPT ![w] = Idle]
    /\ UNCHANGED <<redisUp, rqMode, lapsed, key, jobs, request, lock, processor, migration>>

(* The end of process_task(): COMPLETED, or FAILED on the error path, and  *)
(* neither if there is no row.  The user's key is not cleared.             *)
FinishTask(w) ==
    LET t == worker[w].task IN
    /\ worker[w].at \in {"working", "failing"}
    /\ IF row[t] = "absent" THEN UNCHANGED row ELSE SetRow(t, "ENDED")
    /\ worker' = [worker EXCEPT ![w] = Idle]
    /\ UNCHANGED <<redisUp, rqMode, lapsed, key, jobs, request, lock, processor, migration>>

(* get_next_task() and complete_task() of a database processor. *)
TakeRow(p) ==
    /\ processor[p] = None
    /\ \E t \in TaskIds : /\ row[t] = "QUEUED"
                          /\ SetRow(t, "RUNNING")
                          /\ processor' = [processor EXCEPT ![p] = t]
    /\ UNCHANGED <<redisUp, rqMode, lapsed, key, jobs, request, lock, worker, migration>>

CompleteRow(p) ==
    /\ processor[p] # None
    /\ SetRow(processor[p], "ENDED")
    /\ processor' = [processor EXCEPT ![p] = None]
    /\ UNCHANGED <<redisUp, rqMode, lapsed, key, jobs, request, lock, worker, migration>>

-----------------------------------------------------------------------------
(* migrate_database_tasks_to_rq(): the QUEUED rows are fetched once, those *)
(* of an earlier migration among them ...                                  *)
FetchRows ==
    /\ migration.at \in {"off", "fetched"} /\ migration.rows = {} /\ redisUp
    /\ migration.started < MaxMigrations
    /\ migration' = [at |-> "fetched", rows |-> {t \in TaskIds : row[t] = "QUEUED"},
                     task |-> None, started |-> migration.started + 1]
    /\ UNCHANGED <<redisUp, rqMode, store, request, lock, worker, processor>>

(* ... and for each its user's key is read ... *)
PickRow ==
    /\ migration.at = "fetched"
    /\ \E t \in migration.rows :
          LET taken == redisUp /\ key[UserOf(t)] \notin {None, t} IN
          migration' = [migration EXCEPT !.at   = IF taken THEN "fetched" ELSE "picked",
                                         !.rows = @ \ {t},
                                         !.task = IF taken THEN None ELSE t]
    /\ UNCHANGED <<redisUp, rqMode, store, request, lock, worker, processor>>

(* ... a job is pushed, the row left as it is ... *)
MigrateRow ==
    /\ migration.at = "picked"
    /\ IF redisUp THEN /\ jobs' = [jobs EXCEPT ![migration.task] = @ + 1]
                       /\ migration' = [migration EXCEPT !.at = "pushed"]
       ELSE /\ UNCHANGED jobs
            /\ migration' = [migration EXCEPT !.at = "fetched", !.task = None]
    /\ UNCHANGED <<redisUp, rqMode, lapsed, key, row, request, lock, worker, processor>>

(* ... and the key set, if it is free; the answer is not looked at. *)
TrackRow ==
    LET t == migration.task
        u == UserOf(t)
    IN  /\ migration.at = "pushed"
        /\ IF redisUp /\ key[u] = None THEN SetKey(u, t) ELSE UNCHANGED key
        /\ migration' = [migration EXCEPT !.at = "fetched", !.task = None]
        /\ UNCHANGED <<redisUp, rqMode, lapsed, jobs, row, request, lock, worker, processor>>

-----------------------------------------------------------------------------
Submit(r) == \/ CheckKey(r) \/ CheckRows(r)
             \/ ClaimKey(r) \/ ClaimRefused(r) \/ EnqueueToDatabase(r)
             \/ EnqueueToRedis(r) \/ EnqueueFails(r)
             \/ FallbackCheck(r) \/ FallbackInsert(r)
Process(w) == ReadTask(w) \/ StartTask(w) \/ FinishTask(w)
Drain(p)   == TakeRow(p) \/ CompleteRow(p)
Migrate    == FetchRows \/ PickRow \/ MigrateRow \/ TrackRow

Next == \/ RedisChanges \/ ModeChanges
        \/ \E u \in Users : KeyExpires(u)
        \/ \E r \in Requests : Submit(r)
        \/ \E t \in TaskIds : CancelGeneration(t)
        \/ \E w \in Workers : TakeJob(w) \/ Process(w)
        \/ \E p \in Processors : Drain(p)
        \/ Migrate

Spec == Init /\ [][Next]_vars

-----------------------------------------------------------------------------
TypeOK ==
    /\ redisUp \in BOOLEAN /\ rqMode \in BOOLEAN
    /\ key \in [Users -> TaskIds \cup {None}]
    /\ lapsed \subseteq TaskIds
    /\ jobs \in [TaskIds -> Nat]
    /\ row \in [TaskIds -> {"absent", "ENDED"} \cup Active]
    /\ request \in [Requests -> {"new", "unkeyed", "rq", "claimed", "table",
                                 "inserting", "queued", "stored", "refused"}]
    /\ lock \in Requests \cup {None}
    /\ worker \in [Workers -> [at : {"idle", "reading", "starting", "working", "failing"},
                               task : TaskIds \cup {None}]]
    /\ processor \in [Processors -> TaskIds \cup {None}]
    /\ migration \in [at : {"off", "fetched", "picked", "pushed"},
                      rows : SUBSET TaskIds, task : TaskIds \cup {None}, started : Nat]

(* A task whose id was returned to its user keeps the user's key until the *)
(* two hours are over; nothing else takes it: neither an enqueue that      *)
(* fails and clears "the user's" key, nor a second submission, nor a       *)
(* migration that pushes jobs and sets keys beside the lock, nor a         *)
(* fallback, also when a key ran out in the midst of them.                 *)
ReturnedJobHoldsKey ==
    \A r \in Requests :
        request[r] = "queued" => key[User[r]] = RQTask(r) \/ RQTask(r) \in lapsed

(* A job that no row stands behind is pushed once and taken by one worker: *)
(* neither a failure after its push, nor the fallback that follows it, nor *)
(* any number of migrations queues it again, so its captions are not       *)
(* generated twice.  (A migrated row may be, by as many workers as there   *)
(* were migrations.)                                                       *)
PushedOnce ==
    \A t \in TaskIds : row[t] = "absent" =>
        /\ jobs[t] = 0 \/ (jobs[t] = 1 /\ ~Working(t))
        /\ \A w, v \in Workers : worker[w].task = t /\ worker[v].task = t => w = v

(* A RUNNING row is in the hands of an RQ worker or a database processor,  *)
(* although a migrated row is open to both and each overwrites what the    *)
(* other or a cancellation wrote.                                          *)
RunningHasHands ==
    \A t \in TaskIds :
        row[t] = "RUNNING" =>
            \/ \E w \in Workers : worker[w].at = "working" /\ worker[w].task = t
            \/ \E p \in Processors : processor[p] = t

=============================================================================
