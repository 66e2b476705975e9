------------------------------ MODULE TaskQueue ------------------------------
(***************************************************************************)
(* The caption generation task queue: the table caption_generation_tasks   *)
(* of models.py, the methods of TaskQueueManager that read and write it,   *)
(* and the loops that take tasks from it (the background processor of      *)
(* WebCaptionGenerationService, caption_worker.py, process_queued_tasks.py)*)
(*                                                                         *)
(* A method opens a session, reads the rows it decides on, and commits     *)
(* what it changed.  Other actors run between the read and the commit, so  *)
(* each method is two steps: one that reads (named for the method) and the *)
(* Commit of the session it left open.  A method that takes the manager's  *)
(* threading.Lock keeps it from the first step to the last; the lock is    *)
(* one per TaskQueueManager object, and the program creates an object per  *)
(* request, which is what ManagerOf says.                                  *)
(***************************************************************************)
EXTENDS Naturals, FiniteSets

CONSTANTS
  Users,          \* rows of the users table
  Admins,         \* those with UserRole.ADMIN
  Nobody,         \* the owner column of a row that does not exist
  Requests,       \* threads that serve web and admin requests
  Processors,     \* background processors, fed by get_next_task
  Scripts,        \* caption_worker.py, or a task of a process_queued_tasks.py batch
  Managers,       \* TaskQueueManager objects, one threading.Lock each
  ManagerOf,      \* the object through which an actor reaches the queue
  NoOne,          \* the owner of a free lock
  NoTask,         \* what an idle worker works on
  MaxTasks,       \* bound: rows ever inserted
  MaxConcurrent,  \* max_concurrent_tasks
  QueueLimit,     \* queue_size_limit
  MaxRetries,     \* the limit of should_auto_retry_task
  Submitted,      \* the priorities a task is submitted with or given
  Methods,        \* the methods this deployment calls
  Faults          \* the faults it meets, of "crash" and "db_error"

Workers == Processors \cup Scripts
Actors  == Requests \cup Workers
TaskIds == 1 .. MaxTasks       \* in the order of created_at

Active     == {"QUEUED", "RUNNING"}
Terminal   == {"COMPLETED", "FAILED", "CANCELLED"}
Absent     == "ABSENT"         \* never inserted, or deleted
Statuses   == Active \cup Terminal \cup {Absent}
Keep       == "KEEP"           \* the session does not write the column
Priorities == {"LOW", "NORMAL", "HIGH", "URGENT"}

ASSUME ActorsAssumption ==
  /\ Requests \cap Workers = {} /\ Processors \cap Scripts = {}
  /\ NoOne \notin Actors /\ NoTask \notin TaskIds /\ Nobody \notin Users
  /\ ManagerOf \in [Actors -> Managers]
  /\ Admins \subseteq Users
ASSUME LimitsAssumption ==
  /\ MaxTasks \in Nat /\ MaxConcurrent \in Nat \ {0}
  /\ QueueLimit \in Nat \ {0} /\ MaxRetries \in Nat
  /\ Submitted \subseteq Priorities

VARIABLES
  tasks,     \* the table, by task id
  nextId,    \* the id the next insert gets
  lock,      \* who holds the lock of each manager
  session,   \* what each actor's open session has read and will write
  job        \* the task each worker is processing

vars == <<tasks, nextId, lock, session, job>>

-----------------------------------------------------------------------------
Row == [user: Users \cup {Nobody}, status: Statuses, priority: Priorities,
        retry: Nat,        \* retry_count
        marked: BOOLEAN]   \* admin_notes holds "Marked for cancellation"

NoRow == [user |-> Nobody, status |-> Absent, priority |-> "NORMAL",
          retry |-> 0, marked |-> FALSE]

\* Mutant: no method takes the lock.
Locking_NoLock == {}
\* Mutant: get_next_task forgets the lock.
Locking_NotGetNext == {"enqueue_task", "cancel_task", "cancel_task_as_admin",
                       "pause_user_jobs", "clear_stuck_tasks", "requeue_failed_task"}

\* The methods whose body is "with self._lock", and the others.
Locking == {"enqueue_task", "cancel_task", "get_next_task",
            "cancel_task_as_admin", "pause_user_jobs", "clear_stuck_tasks",
            "requeue_failed_task"}
LockFree == {"complete_task", "cleanup_completed_tasks", "resume_user_jobs",
             "set_task_priority", "should_auto_retry_task", "retry_failed_task"}

Inserting == {"enqueue_task", "requeue_failed_task"}

\* What a session is going to write: the status of "rows" becomes "to", the
\* mark of "notes" becomes "note"; an insert takes user, priority and retry.
Session == [op: Locking \cup LockFree \cup {"none"},
            rows: SUBSET TaskIds, to: Active \cup Terminal \cup {Keep},
            notes: SUBSET TaskIds, note: BOOLEAN, user: Users \cup {Nobody},
            priority: Priorities, retry: Nat]

NoSession == [op |-> "none", rows |-> {}, to |-> Keep, notes |-> {},
              note |-> FALSE, user |-> Nobody, priority |-> "NORMAL",
              retry |-> 0]

TypeOK ==
  /\ tasks \in [TaskIds -> Row]
  /\ nextId \in 1 .. MaxTasks + 1
  /\ lock \in [Managers -> Actors \cup {NoOne}]
  /\ session \in [Actors -> Session]
  /\ job \in [Workers -> TaskIds \cup {NoTask}]

Init ==
  /\ tasks = [t \in TaskIds |-> NoRow]
  /\ nextId = 1
  /\ lock = [m \in Managers |-> NoOne]
  /\ session = [a \in Actors |-> NoSession]
  /\ job = [w \in Workers |-> NoTask]

-----------------------------------------------------------------------------
Exists(t)     == tasks[t].status # Absent
Having(s)     == {t \in TaskIds : tasks[t].status = s}
ActiveOf(u)   == {t \in TaskIds : tasks[t].user = u /\ tasks[t].status \in Active}
Holds(a)      == lock[ManagerOf[a]] = a

\* get_session() after "with self._lock", and the queries of the method.
Open(a, s) ==
  /\ session[a].op = "none"
  /\ s.op \in Methods
  /\ session' = [session EXCEPT ![a] = s]
  /\ IF s.op \in Locking
       THEN /\ lock[ManagerOf[a]] = NoOne
            /\ lock' = [lock EXCEPT ![ManagerOf[a]] = a]
       ELSE UNCHANGED lock
  /\ UNCHANGED <<tasks, nextId, job>>

\* session.close() and the end of the "with" block.
Close(a) ==
  /\ session' = [session EXCEPT ![a] = NoSession]
  /\ lock' = IF Holds(a) THEN [lock EXCEPT ![ManagerOf[a]] = NoOne] ELSE lock

-----------------------------------------------------------------------------
(***************************************************************************)
(* What web requests call.                                                 *)
(***************************************************************************)
\* Bound: an insert begins only while an id is left for it to commit with.
RoomToInsert ==
  nextId + Cardinality({a \in Actors : session[a].op \in Inserting}) <= MaxTasks

\* Mutant: the queue length is not checked.
EnqueueTask_NoLimit(a, u, p) ==
  /\ RoomToInsert
  /\ ActiveOf(u) = {}
  /\ Open(a, [NoSession EXCEPT !.op = "enqueue_task", !.user = u, !.priority = p])

\* The web service's own get_user_active_task before the call only refuses
\* earlier what this check refuses, so it is part of this step.
EnqueueTask(a, u, p) ==
  /\ RoomToInsert
  /\ ActiveOf(u) = {}
  /\ Cardinality(Having("QUEUED")) < QueueLimit
  /\ Open(a, [NoSession EXCEPT !.op = "enqueue_task", !.user = u, !.priority = p])

CanBeCancelled(t) == tasks[t].status \in Active

\* Mutant: a status the enumeration does not have.
CancelTask_Misspelt(a, by, t) ==
  /\ by = tasks[t].user \/ by \in Admins
  /\ CanBeCancelled(t)
  /\ Open(a, [NoSession EXCEPT !.op = "cancel_task", !.rows = {t},
                               !.to = "CANCELED"])

CancelTask(a, by, t) ==
  /\ by = tasks[t].user \/ by \in Admins
  /\ CanBeCancelled(t)
  /\ Open(a, [NoSession EXCEPT !.op = "cancel_task", !.rows = {t},
                               !.to = "CANCELLED"])

(***************************************************************************)
(* What administrators call.                                               *)
(***************************************************************************)
CancelTaskAsAdmin(a, by, t) ==
  /\ by \in Admins
  /\ CanBeCancelled(t)
  /\ Open(a, [NoSession EXCEPT !.op = "cancel_task_as_admin", !.rows = {t},
                               !.to = "CANCELLED"])

\* Queued tasks are cancelled; a running one only gets a note.
PauseUserJobs(a, by, u) ==
  /\ by \in Admins
  /\ ActiveOf(u) # {}
  /\ Open(a, [NoSession EXCEPT
                 !.op = "pause_user_jobs", !.to = "CANCELLED",
                 !.rows = ActiveOf(u) \cap Having("QUEUED"),
                 !.notes = ActiveOf(u) \cap Having("RUNNING"), !.note = TRUE])

ResumeUserJobs(a, by, u) ==
  LET noted == {t \in TaskIds : tasks[t].user = u /\ tasks[t].marked} IN
  /\ by \in Admins
  /\ noted # {}
  /\ Open(a, [NoSession EXCEPT !.op = "resume_user_jobs", !.notes = noted])

\* "stuck" stands for the running tasks that started before the cutoff.
ClearStuckTasks(a, by, stuck) ==
  /\ by \in Admins
  /\ stuck # {} /\ stuck \subseteq Having("RUNNING")
  /\ Open(a, [NoSession EXCEPT !.op = "clear_stuck_tasks", !.rows = stuck,
                               !.to = "FAILED"])

\* The note of the change is appended to the notes the session has read.
SetTaskPriority(a, by, t, p) ==
  /\ by \in Admins
  /\ Exists(t)
  /\ Open(a, [NoSession EXCEPT !.op = "set_task_priority", !.rows = {t},
                 !.priority = p, !.notes = {t}, !.note = tasks[t].marked])

\* No look at queue_size_limit here.
RequeueFailedTask(a, by, t) ==
  /\ by \in Admins
  /\ RoomToInsert
  /\ tasks[t].status \in {"FAILED", "CANCELLED"}
  /\ ActiveOf(tasks[t].user) = {}
  /\ Open(a, [NoSession EXCEPT !.op = "requeue_failed_task",
                 !.user = tasks[t].user, !.priority = tasks[t].priority,
                 !.retry = tasks[t].retry + 1])

\* The retry limit is read in one session and the row reset in another.
ShouldAutoRetryTask(a, t) ==
  /\ Exists(t)
  /\ tasks[t].retry < MaxRetries
  /\ Open(a, [NoSession EXCEPT !.op = "should_auto_retry_task", !.rows = {t}])

RetryFailedTask(a) ==
  /\ session[a].op = "should_auto_retry_task"
  /\ \E t \in session[a].rows :
       IF Exists(t)
         THEN /\ session' = [session EXCEPT ![a] =
                   [NoSession EXCEPT !.op = "retry_failed_task", !.rows = {t},
                      !.to = IF tasks[t].status = "QUEUED" THEN Keep ELSE "QUEUED",
                      !.retry = tasks[t].retry + 1]]
              /\ UNCHANGED lock
         ELSE Close(a)
  /\ UNCHANGED <<tasks, nextId, job>>

\* Mutant: the query forgets the status filter.
CleanupCompletedTasks_AnyStatus(a, old) ==
  /\ old # {} /\ old \subseteq {t \in TaskIds : tasks[t].status # Absent}
  /\ Open(a, [NoSession EXCEPT !.op = "cleanup_completed_tasks", !.rows = old])

\* "old" stands for the finished tasks that ended before the cutoff: any of
\* them, so that the age of a row protects none.
CleanupCompletedTasks(a, old) ==
  /\ old # {} /\ old \subseteq {t \in TaskIds : tasks[t].status \in Terminal}
  /\ Open(a, [NoSession EXCEPT !.op = "cleanup_completed_tasks", !.rows = old])

\* A platform connection is deleted (delete_platform, or with its user): ON
\* DELETE CASCADE takes its tasks, whatever they are and whoever has read
\* them.  Which tasks are the connection's is left open.
DeletePlatform(u, lost) ==
  /\ "delete_platform" \in Methods
  /\ lost # {} /\ lost \subseteq {t \in TaskIds : Exists(t) /\ tasks[t].user = u}
  /\ tasks' = [t \in TaskIds |-> IF t \in lost THEN NoRow ELSE tasks[t]]
  /\ UNCHANGED <<nextId, lock, session, job>>

-----------------------------------------------------------------------------
(***************************************************************************)
(* What the workers do.                                                    *)
(***************************************************************************)
Rank(p) == CASE p = "LOW" -> 0 [] p = "NORMAL" -> 1 [] p = "HIGH" -> 2
             [] p = "URGENT" -> 3

\* ORDER BY (priority = 'urgent'), (priority = 'high'), (priority = 'normal'),
\* (role = 'admin'), created_at: a comparison that is true sorts after one
\* that is false.
Before(x, y) ==
  LET rx == Rank(tasks[x].priority)        ry == Rank(tasks[y].priority)
      ax == tasks[x].user \in Admins       ay == tasks[y].user \in Admins
  IN \/ rx < ry
     \/ rx = ry /\ ~ax /\ ay
     \/ rx = ry /\ ax = ay /\ x < y

\* Mutant: the running count is compared with >, not >=.
GetNextTask_OffByOne(w) ==
  /\ job[w] = NoTask
  /\ Cardinality(Having("RUNNING")) <= MaxConcurrent
  /\ \E t \in Having("QUEUED") :
       Open(w, [NoSession EXCEPT !.op = "get_next_task", !.rows = {t},
                                 !.to = "RUNNING"])

GetNextTask(w) ==
  /\ job[w] = NoTask
  /\ Cardinality(Having("RUNNING")) < MaxConcurrent
  /\ \E t \in Having("QUEUED") :
       /\ \A x \in Having("QUEUED") : ~Before(x, t)
       /\ Open(w, [NoSession EXCEPT !.op = "get_next_task", !.rows = {t},
                                    !.to = "RUNNING"])

\* The scripts take a queued row as it is: neither lock nor commit.
GetNextQueuedTask(w) ==
  /\ job[w] = NoTask /\ session[w].op = "none"
  /\ \E t \in Having("QUEUED") : job' = [job EXCEPT ![w] = t]
  /\ UNCHANGED <<tasks, nextId, lock, session>>

\* Mutant: a failed generation returns without telling the row.
CompleteTask_SkipsFailure(w, result) ==
  /\ job[w] # NoTask
  /\ IF Exists(job[w]) /\ result = "COMPLETED"
       THEN Open(w, [NoSession EXCEPT !.op = "complete_task", !.rows = {job[w]},
              !.to = IF tasks[job[w]].status = result THEN Keep ELSE result])
       ELSE /\ session[w].op = "none"
            /\ job' = [job EXCEPT ![w] = NoTask]
            /\ UNCHANGED <<tasks, nextId, lock, session>>

\* The end of _process_task, which has not looked at the row since the start.
\* An assignment that does not change the value read is not in the UPDATE.
CompleteTask(w, result) ==
  /\ job[w] # NoTask
  /\ IF Exists(job[w])
       THEN Open(w, [NoSession EXCEPT !.op = "complete_task", !.rows = {job[w]},
              !.to = IF tasks[job[w]].status = result THEN Keep ELSE result])
       ELSE /\ session[w].op = "none"
            /\ job' = [job EXCEPT ![w] = NoTask]
            /\ UNCHANGED <<tasks, nextId, lock, session>>

-----------------------------------------------------------------------------
(***************************************************************************)
(* session.commit() of the session that actor a has open.                  *)
(***************************************************************************)
Written(s, t) ==
  [tasks[t] EXCEPT
     !.status   = IF t \in s.rows /\ s.to # Keep THEN s.to ELSE @,
     !.marked   = IF t \in s.notes THEN s.note ELSE @,
     !.priority = IF t \in s.rows /\ s.op = "set_task_priority"
                    THEN s.priority ELSE @,
     !.retry    = IF t \in s.rows /\ s.op = "retry_failed_task"
                    THEN s.retry ELSE @]

\* An UPDATE of a row that is gone raises StaleDataError: nothing is written.
Stale(a) == \E t \in session[a].rows \cup session[a].notes : ~Exists(t)

\* A worker that completes a task lets go of it whatever complete_task says.
JobAfter(a) ==
  IF session[a].op = "complete_task" THEN [job EXCEPT ![a] = NoTask] ELSE job

CommitInsert(a) ==
  /\ session[a].op \in Inserting
  /\ nextId <= MaxTasks
  /\ tasks' = [tasks EXCEPT ![nextId] =
                 [user |-> session[a].user, status |-> "QUEUED",
                  priority |-> session[a].priority,
                  retry |-> session[a].retry, marked |-> FALSE]]
  /\ nextId' = nextId + 1
  /\ Close(a)
  /\ UNCHANGED job

CommitUpdate(a) ==
  /\ session[a].op \in {"cancel_task", "cancel_task_as_admin",
       "pause_user_jobs", "resume_user_jobs", "clear_stuck_tasks",
       "set_task_priority", "retry_failed_task", "complete_task"}
  /\ ~Stale(a)
  /\ tasks' = [t \in TaskIds |-> Written(session[a], t)]
  /\ job' = JobAfter(a)
  /\ Close(a)
  /\ UNCHANGED nextId

\* get_next_task returns the task it has marked RUNNING to the worker.
CommitStart(a) ==
  /\ session[a].op = "get_next_task"
  /\ ~Stale(a)
  /\ tasks' = [t \in TaskIds |-> Written(session[a], t)]
  /\ \E t \in session[a].rows : job' = [job EXCEPT ![a] = t]
  /\ Close(a)
  /\ UNCHANGED nextId

CommitDelete(a) ==
  /\ session[a].op = "cleanup_completed_tasks"
  /\ tasks' = [t \in TaskIds |-> IF t \in session[a].rows THEN NoRow ELSE tasks[t]]
  /\ Close(a)
  /\ UNCHANGED <<nextId, job>>

\* "except SQLAlchemyError": roll back, close, report failure.  The foreign key
\* refuses a task of a connection deleted meanwhile.
Rollback(a) ==
  /\ session[a].op # "none"
  /\ \/ Stale(a) /\ session[a].op \notin {"cleanup_completed_tasks",
                                          "should_auto_retry_task"}
     \/ session[a].op \in Inserting /\ "delete_platform" \in Methods
     \/ "db_error" \in Faults
  /\ job' = JobAfter(a)
  /\ Close(a)
  /\ UNCHANGED <<tasks, nextId>>

\* The worker's process dies, or its asyncio task is cancelled by shutdown():
\* what it had in memory is gone and no handler touches the row.
Crash(w) ==
  /\ "crash" \in Faults
  /\ job[w] # NoTask \/ session[w].op # "none"
  /\ job' = [job EXCEPT ![w] = NoTask]
  /\ Close(w)
  /\ UNCHANGED <<tasks, nextId>>

-----------------------------------------------------------------------------
Request(a) ==
  \/ \E u \in Users, p \in Submitted : EnqueueTask(a, u, p)
  \/ \E by \in Users, t \in TaskIds :
       \/ CancelTask(a, by, t)
       \/ CancelTaskAsAdmin(a, by, t)
       \/ RequeueFailedTask(a, by, t)
       \/ \E p \in Submitted : SetTaskPriority(a, by, t, p)
  \/ \E by \in Users, u \in Users : PauseUserJobs(a, by, u) \/ ResumeUserJobs(a, by, u)
  \/ \E by \in Users, stuck \in SUBSET TaskIds : ClearStuckTasks(a, by, stuck)
  \/ \E t \in TaskIds : ShouldAutoRetryTask(a, t)
  \/ \E old \in SUBSET TaskIds : CleanupCompletedTasks(a, old)

Commit(a) ==
  \/ CommitInsert(a) \/ CommitUpdate(a) \/ CommitStart(a) \/ CommitDelete(a)
  \/ RetryFailedTask(a) \/ Rollback(a)

Finish(w) == \E result \in {"COMPLETED", "FAILED"} : CompleteTask(w, result)

Next ==
  \/ \E a \in Requests : Request(a)
  \/ \E a \in Actors : Commit(a)
  \/ \E w \in Processors : GetNextTask(w)
  \/ \E w \in Scripts : GetNextQueuedTask(w)
  \/ \E w \in Workers : Finish(w) \/ Crash(w)
  \/ \E u \in Users, lost \in SUBSET TaskIds : DeletePlatform(u, lost)

Spec == Init /\ [][Next]_vars

-----------------------------------------------------------------------------
(***************************************************************************)
(* Properties.                                                             *)
(***************************************************************************)
\* "Manages caption generation task queue with single-task-per-user
\* enforcement" (TaskQueueManager): no user has two queued or running tasks,
\* although the check and the insert of enqueue_task are apart.
OneActivePerUser ==
  \A x, y \in TaskIds :
    /\ tasks[x].status \in Active /\ tasks[y].status \in Active
    /\ tasks[x].user = tasks[y].user
    => x = y

\* get_next_task counts the running rows before it starts another: however
\* its steps interleave with the rest, no more than max_concurrent_tasks run.
RunningBound == Cardinality(Having("RUNNING")) <= MaxConcurrent

\* enqueue_task counts the queued rows before it adds one: the table never
\* holds more than queue_size_limit of them.
QueueBound == Cardinality(Having("QUEUED")) <= QueueLimit

\* A task is generated by one worker at a time: get_next_task never hands out
\* what another worker is still at, even a task cancelled or failed meanwhile.
NoDoubleProcessing ==
  \A v, w \in Workers : job[v] # NoTask /\ job[v] = job[w] => v = w

\* A row that says RUNNING has a worker at it that will write its end, so no
\* row stays RUNNING: not even when a late get_next_task revives a row that a
\* cancel or another worker had already finished.
RunningHasWorker ==
  \A t \in TaskIds : tasks[t].status = "RUNNING" =>
    \E w \in Workers :
      /\ job[w] = t
      /\ ~(session[w].op = "complete_task" /\ session[w].to = Keep)

\* cleanup_completed_tasks deletes by id what an earlier query selected; the
\* row it deletes is a finished one still at that moment, or already gone with
\* its platform.
DeletesOnlyFinished ==
  [][\A a \in Actors, t \in TaskIds :
       session[a].op = "cleanup_completed_tasks" /\ session'[a].op = "none"
       /\ tasks'[t].status # tasks[t].status
       => tasks[t].status \in Terminal]_vars

\* user-guide.md, "Cancelled: Stopped by user or admin": what was cancelled
\* neither runs nor completes afterwards.
CancelledStaysCancelled ==
  [][\A t \in TaskIds :
       tasks[t].status = "CANCELLED"
       => tasks'[t].status \in {"CANCELLED", Absent}]_vars

-----------------------------------------------------------------------------
(***************************************************************************)
(* What is left of the limits when the actors have several managers.  Each *)
(* lock lets one actor through, so every manager can add one task to what  *)
(* the others have done since its check, and no manager can add two.       *)
(***************************************************************************)
Starters == {ManagerOf[p] : p \in Processors}
Askers   == {ManagerOf[r] : r \in Requests}

\* get_next_task compares the running rows with max_concurrent_tasks under its
\* own manager's lock: with k managers that start tasks, k - 1 more than the
\* limit may run, and never more.
RunningPerManager ==
  Cardinality(Having("RUNNING")) < MaxConcurrent + Cardinality(Starters)

\* enqueue_task compares the queued rows with queue_size_limit: with k managers
\* that take requests, k - 1 more than the limit may be queued, and never more.
QueuedPerManager ==
  Cardinality(Having("QUEUED")) < QueueLimit + Cardinality(Askers)

\* A user gets no more queued or running tasks than there are managers, each
\* with one enqueue_task that has passed its check or one get_next_task that
\* revives a task cancelled behind it.
ActivePerManager ==
  \A u \in Users : Cardinality(ActiveOf(u)) <= Cardinality(Askers \cup Starters)

\* The processors of one manager never share a task: as many workers are at a
\* task as there are managers that start tasks, at most.
WorkersPerManager ==
  \A t \in TaskIds :
    Cardinality({w \in Workers : job[w] = t}) <= Cardinality(Starters)

-----------------------------------------------------------------------------
(***************************************************************************)
(* The slot of a user, from the rows of the table.                         *)
(***************************************************************************)
SlotOf(u) ==
  CASE ActiveOf(u) \cap Having("RUNNING") # {} -> "working"
    [] ActiveOf(u) # {} /\ ActiveOf(u) \cap Having("RUNNING") = {} -> "waiting"
    [] ActiveOf(u) = {} -> "free"

Slots == INSTANCE UserSlots WITH slot <- [u \in Users |-> SlotOf(u)]

\* The queue behaves as one atomic slot per user, if one TaskQueueManager
\* serves every actor and only get_next_task hands tasks out.
ImplementsSlots == Slots!Spec

=============================================================================
