-------------------------- MODULE TaskQueueProofs --------------------------
(***************************************************************************)
(* Theorems about TaskQueue, for every set of users, actors and managers.  *)
(***************************************************************************)
EXTENDS TaskQueue, TLAPS

\* The sessions the methods open are sessions.
LEMMA NoSessionType == NoSession \in Session
  BY DEF NoSession, Session, Statuses, Priorities

\* Opening a session keeps the types.
LEMMA OpenType ==
  ASSUME TypeOK, NEW a \in Actors, NEW s \in Session, Open(a, s)
  PROVE  TypeOK'
<1>1. session' \in [Actors -> Session]
  BY DEF TypeOK, Open
<1>2. lock' \in [Managers -> Actors \cup {NoOne}]
  BY ActorsAssumption DEF TypeOK, Open
<1>3. QED
  BY <1>1, <1>2 DEF TypeOK, Open

\* Closing a session keeps the types of what it changes.
LEMMA CloseType ==
  ASSUME TypeOK, NEW a \in Actors, Close(a)
  PROVE  /\ session' \in [Actors -> Session]
         /\ lock' \in [Managers -> Actors \cup {NoOne}]
<1>1. session' \in [Actors -> Session]
  BY NoSessionType DEF TypeOK, Close
<1>2. lock' \in [Managers -> Actors \cup {NoOne}]
  BY ActorsAssumption DEF TypeOK, Close
<1>3. QED
  BY <1>1, <1>2

\* A row stays a row when a session is written to it.
LEMMA WrittenType ==
  ASSUME TypeOK, NEW a \in Actors, NEW t \in TaskIds
  PROVE  Written(session[a], t) \in Row
<1> DEFINE s == session[a]
<1>1. s \in Session /\ tasks[t] \in Row
  BY DEF TypeOK
<1>2. s.to # Keep => s.to \in Statuses
  BY <1>1 DEF Session, Statuses
<1>3. QED
  BY <1>1, <1>2 DEF Written, Row, Session

LEMMA JobAfterType ==
  ASSUME TypeOK, NEW a \in Actors
  PROVE  JobAfter(a) \in [Workers -> TaskIds \cup {NoTask}]
  BY DEF TypeOK, JobAfter

-----------------------------------------------------------------------------
(***************************************************************************)
(* What a request opens: enough about each method for the proofs below.    *)
(***************************************************************************)
RequestOps == (Locking \ {"get_next_task"}) \cup
              (LockFree \ {"complete_task", "retry_failed_task"})

Opening(s) ==
  /\ s.op \in RequestOps
  /\ s.to \in {Keep, "CANCELLED", "FAILED"}
  /\ s.op \in {"resume_user_jobs", "set_task_priority"} => s.to = Keep
  /\ s.op \in Inserting => ActiveOf(s.user) = {}
  /\ s.op = "enqueue_task" => Cardinality(Having("QUEUED")) < QueueLimit

LEMMA RequestOpens ==
  ASSUME TypeOK, NEW a \in Requests, Request(a)
  PROVE  \E s \in Session : Open(a, s) /\ Opening(s)
<1> DEFINE Goal == \E s \in Session : Open(a, s) /\ Opening(s)
<1> HIDE DEF Goal
<1>0. ASSUME NEW s \in Session, Open(a, s), Opening(s)
      PROVE  Goal
  BY <1>0 DEF Goal
<1> USE DEF NoSession, Session, Locking, LockFree, Statuses, Active, Terminal,
            Priorities, Opening, RequestOps, Inserting
<1>1. ASSUME NEW u \in Users, NEW p \in Submitted, EnqueueTask(a, u, p)
      PROVE  Goal
  <2> DEFINE s == [NoSession EXCEPT !.op = "enqueue_task", !.user = u, !.priority = p]
  <2>1. s \in Session
    BY LimitsAssumption
  <2>2. Open(a, s) /\ Opening(s)
    BY <1>1, <2>1 DEF EnqueueTask
  <2>3. QED
    BY <2>1, <2>2, <1>0
<1>2. ASSUME NEW by \in Users, NEW t \in TaskIds, CancelTask(a, by, t)
      PROVE  Goal
  <2> DEFINE s == [NoSession EXCEPT !.op = "cancel_task", !.rows = {t},
                          !.to = "CANCELLED"]
  <2>1. s \in Session
    OBVIOUS
  <2>2. Open(a, s) /\ Opening(s)
    BY <1>2, <2>1 DEF CancelTask
  <2>3. QED
    BY <2>1, <2>2, <1>0
<1>3. ASSUME NEW by \in Users, NEW t \in TaskIds, CancelTaskAsAdmin(a, by, t)
      PROVE  Goal
  <2> DEFINE s == [NoSession EXCEPT !.op = "cancel_task_as_admin", !.rows = {t},
                          !.to = "CANCELLED"]
  <2>1. s \in Session
    OBVIOUS
  <2>2. Open(a, s) /\ Opening(s)
    BY <1>3, <2>1 DEF CancelTaskAsAdmin
  <2>3. QED
    BY <2>1, <2>2, <1>0
<1>4. ASSUME NEW by \in Users, NEW t \in TaskIds, RequeueFailedTask(a, by, t)
      PROVE  Goal
  <2> DEFINE s == [NoSession EXCEPT !.op = "requeue_failed_task",
           !.user = tasks[t].user, !.priority = tasks[t].priority,
           !.retry = tasks[t].retry + 1]
  <2>1. tasks[t] \in Row
    BY DEF TypeOK
  <2>2. s \in Session
    <3>1. /\ tasks[t].user \in Users \cup {Nobody}
          /\ tasks[t].priority \in Priorities /\ tasks[t].retry + 1 \in Nat
      BY <2>1 DEF Row
    <3>2. QED
      BY <3>1
  <2>3. Open(a, s) /\ Opening(s)
    BY <1>4, <2>2 DEF RequeueFailedTask
  <2>4. QED
    BY <2>2, <2>3, <1>0
<1>5. ASSUME NEW by \in Users, NEW t \in TaskIds, NEW p \in Submitted,
             SetTaskPriority(a, by, t, p)
      PROVE  Goal
  <2> DEFINE s == [NoSession EXCEPT !.op = "set_task_priority", !.rows = {t},
           !.priority = p, !.notes = {t}, !.note = tasks[t].marked]
  <2>1. tasks[t] \in Row
    BY DEF TypeOK
  <2>2. s \in Session
    BY <2>1, LimitsAssumption DEF Row
  <2>3. Open(a, s) /\ Opening(s)
    BY <1>5, <2>2 DEF SetTaskPriority
  <2>4. QED
    BY <2>2, <2>3, <1>0
<1>6. ASSUME NEW by \in Users, NEW u \in Users, PauseUserJobs(a, by, u)
      PROVE  Goal
  <2> DEFINE s == [NoSession EXCEPT
           !.op = "pause_user_jobs", !.to = "CANCELLED",
           !.rows = ActiveOf(u) \cap Having("QUEUED"),
           !.notes = ActiveOf(u) \cap Having("RUNNING"), !.note = TRUE]
  <2>1. s \in Session
    BY DEF Having
  <2>2. Open(a, s) /\ Opening(s)
    BY <1>6, <2>1 DEF PauseUserJobs
  <2>3. QED
    BY <2>1, <2>2, <1>0
<1>7. ASSUME NEW by \in Users, NEW u \in Users, ResumeUserJobs(a, by, u)
      PROVE  Goal
  <2> DEFINE s == [NoSession EXCEPT !.op = "resume_user_jobs",
           !.notes = {t \in TaskIds : tasks[t].user = u /\ tasks[t].marked}]
  <2>1. s \in Session
    OBVIOUS
  <2>2. Open(a, s) /\ Opening(s)
    BY <1>7, <2>1 DEF ResumeUserJobs
  <2>3. QED
    BY <2>1, <2>2, <1>0
<1>8. ASSUME NEW by \in Users, NEW stuck \in SUBSET TaskIds,
             ClearStuckTasks(a, by, stuck)
      PROVE  Goal
  <2> DEFINE s == [NoSession EXCEPT !.op = "clear_stuck_tasks", !.rows = stuck,
                          !.to = "FAILED"]
  <2>1. s \in Session
    OBVIOUS
  <2>2. Open(a, s) /\ Opening(s)
    BY <1>8, <2>1 DEF ClearStuckTasks
  <2>3. QED
    BY <2>1, <2>2, <1>0
<1>9. ASSUME NEW t \in TaskIds, ShouldAutoRetryTask(a, t)
      PROVE  Goal
  <2> DEFINE s == [NoSession EXCEPT !.op = "should_auto_retry_task", !.rows = {t}]
  <2>1. s \in Session
    OBVIOUS
  <2>2. Open(a, s) /\ Opening(s)
    BY <1>9, <2>1 DEF ShouldAutoRetryTask
  <2>3. QED
    BY <2>1, <2>2, <1>0
<1>10. ASSUME NEW old \in SUBSET TaskIds, CleanupCompletedTasks(a, old)
       PROVE  Goal
  <2> DEFINE s == [NoSession EXCEPT !.op = "cleanup_completed_tasks", !.rows = old]
  <2>1. s \in Session
    OBVIOUS
  <2>2. Open(a, s) /\ Opening(s)
    BY <1>10, <2>1 DEF CleanupCompletedTasks
  <2>3. QED
    BY <2>1, <2>2, <1>0
<1>11. QED
  BY <1>1, <1>2, <1>3, <1>4, <1>5, <1>6, <1>7, <1>8, <1>9, <1>10 DEF Request, Goal

LEMMA RequestType ==
  ASSUME TypeOK, NEW a \in Requests, Request(a)
  PROVE  TypeOK'
<1>1. a \in Actors
  BY DEF Actors
<1>2. QED
  BY <1>1, RequestOpens, OpenType

LEMMA CommitTypes ==
  ASSUME TypeOK, NEW a \in Actors, Commit(a)
  PROVE  TypeOK'
<1>1. CASE CommitInsert(a)
  <2>1. nextId \in TaskIds /\ nextId + 1 \in 1 .. MaxTasks + 1
    BY <1>1, LimitsAssumption DEF CommitInsert, TypeOK, TaskIds
  <2>2. [user |-> session[a].user, status |-> "QUEUED",
         priority |-> session[a].priority, retry |-> session[a].retry,
         marked |-> FALSE] \in Row
    BY DEF TypeOK, Session, Row, Statuses, Active
  <2>3. tasks' \in [TaskIds -> Row]
    BY <1>1, <2>1, <2>2 DEF CommitInsert, TypeOK
  <2>4. QED
    BY <1>1, <2>1, <2>3, CloseType DEF CommitInsert, TypeOK
<1>2. CASE CommitUpdate(a)
  <2>1. tasks' \in [TaskIds -> Row]
    BY <1>2, WrittenType DEF CommitUpdate
  <2>2. QED
    BY <1>2, <2>1, JobAfterType, CloseType DEF CommitUpdate, TypeOK
<1>3. CASE CommitStart(a)
  <2>1. tasks' \in [TaskIds -> Row]
    BY <1>3, WrittenType DEF CommitStart
  <2>2. job' \in [Workers -> TaskIds \cup {NoTask}]
    BY <1>3 DEF CommitStart, TypeOK, Session
  <2>3. QED
    BY <1>3, <2>1, <2>2, CloseType DEF CommitStart, TypeOK
<1>4. CASE CommitDelete(a)
  <2>1. NoRow \in Row
    BY DEF NoRow, Row, Statuses, Priorities
  <2>2. tasks' \in [TaskIds -> Row]
    BY <1>4, <2>1 DEF CommitDelete, TypeOK
  <2>3. QED
    BY <1>4, <2>2, CloseType DEF CommitDelete, TypeOK
<1>5. CASE RetryFailedTask(a)
  <2>1. PICK t \in session[a].rows :
          IF Exists(t)
            THEN /\ session' = [session EXCEPT ![a] =
                      [NoSession EXCEPT !.op = "retry_failed_task", !.rows = {t},
                         !.to = IF tasks[t].status = "QUEUED" THEN Keep ELSE "QUEUED",
                         !.retry = tasks[t].retry + 1]]
                 /\ UNCHANGED lock
            ELSE Close(a)
    BY <1>5 DEF RetryFailedTask
  <2>2. t \in TaskIds /\ tasks[t] \in Row
    BY DEF TypeOK, Session
  <2>3. [NoSession EXCEPT !.op = "retry_failed_task", !.rows = {t},
           !.to = IF tasks[t].status = "QUEUED" THEN Keep ELSE "QUEUED",
           !.retry = tasks[t].retry + 1] \in Session
    <3>1. tasks[t].retry + 1 \in Nat
      BY <2>2 DEF Row
    <3>2. ASSUME NEW r \in Nat, NEW to \in {Keep, "QUEUED"}
          PROVE  [NoSession EXCEPT !.op = "retry_failed_task", !.rows = {t},
                    !.to = to, !.retry = r] \in Session
      BY <2>2 DEF NoSession, Session, LockFree, Statuses, Active, Priorities
    <3>3. QED
      BY <3>1, <3>2
  <2>4. /\ session' \in [Actors -> Session]
        /\ lock' \in [Managers -> Actors \cup {NoOne}]
    BY <2>1, <2>3, CloseType DEF TypeOK
  <2>5. QED
    BY <1>5, <2>4 DEF RetryFailedTask, TypeOK
<1>6. CASE Rollback(a)
  BY <1>6, JobAfterType, CloseType DEF Rollback, TypeOK
<1>7. QED
  BY <1>1, <1>2, <1>3, <1>4, <1>5, <1>6 DEF Commit

LEMMA WorkerType ==
  ASSUME TypeOK, NEW w \in Workers,
         \/ GetNextTask(w) \/ GetNextQueuedTask(w) \/ Finish(w) \/ Crash(w)
  PROVE  TypeOK'
<1> w \in Actors
  BY DEF Actors
<1>1. CASE GetNextTask(w)
  <2>1. ASSUME NEW t \in TaskIds
        PROVE  [NoSession EXCEPT !.op = "get_next_task", !.rows = {t},
                                 !.to = "RUNNING"] \in Session
    BY DEF NoSession, Session, Locking, Statuses, Active, Priorities
  <2>2. QED
    BY <1>1, <2>1, OpenType DEF GetNextTask, Having
<1>2. CASE GetNextQueuedTask(w)
  BY <1>2 DEF GetNextQueuedTask, TypeOK, Having
<1>3. CASE Finish(w)
  <2>1. PICK result \in {"COMPLETED", "FAILED"} : CompleteTask(w, result)
    BY <1>3 DEF Finish
  <2>2. job[w] \in TaskIds
    BY <2>1 DEF CompleteTask, TypeOK
  <2>3. [NoSession EXCEPT !.op = "complete_task", !.rows = {job[w]},
           !.to = IF tasks[job[w]].status = result THEN Keep ELSE result] \in Session
    BY <2>2 DEF NoSession, Session, LockFree, Statuses, Terminal, Priorities
  <2>4. QED
    BY <2>1, <2>3, OpenType DEF CompleteTask, TypeOK
<1>4. CASE Crash(w)
  BY <1>4, CloseType DEF Crash, TypeOK
<1>5. QED
  BY <1>1, <1>2, <1>3, <1>4

LEMMA DeleteType ==
  ASSUME TypeOK, NEW u \in Users, NEW lost \in SUBSET TaskIds, DeletePlatform(u, lost)
  PROVE  TypeOK'
<1>1. NoRow \in Row
  BY DEF NoRow, Row, Statuses, Priorities
<1>2. QED
  BY <1>1 DEF DeletePlatform, TypeOK

\* The types of the table, the locks, the sessions and the jobs, of every
\* deployment: in particular a session never writes a status that is none.
THEOREM TypeCorrect == Spec => []TypeOK
<1>1. Init => TypeOK
  <2> SUFFICES ASSUME Init PROVE TypeOK
    OBVIOUS
  <2>1. NoRow \in Row
    BY DEF NoRow, Row, Statuses, Priorities
  <2>2. 1 \in 1 .. MaxTasks + 1
    BY LimitsAssumption
  <2>3. QED
    BY <2>1, <2>2, NoSessionType DEF Init, TypeOK
<1>2. TypeOK /\ [Next]_vars => TypeOK'
  <2> SUFFICES ASSUME TypeOK, [Next]_vars PROVE TypeOK'
    OBVIOUS
  <2>1. CASE UNCHANGED vars
    BY <2>1 DEF vars, TypeOK
  <2>2. CASE Next
    BY <2>2, RequestType, CommitTypes, WorkerType, DeleteType DEF Next, Workers
  <2>3. QED
    BY <2>1, <2>2
<1>3. QED
  BY <1>1, <1>2, PTL DEF Spec

-----------------------------------------------------------------------------
(***************************************************************************)
(* The shape of the open sessions: complete_task and get_next_task belong  *)
(* to the worker that runs them, an insert to a request, and only          *)
(* get_next_task writes RUNNING.                                           *)
(***************************************************************************)
ShapeOf(a, s) ==
  /\ s.op = "complete_task" =>
       /\ a \in Workers /\ job[a] # NoTask /\ s.rows = {job[a]} /\ s.notes = {}
       /\ s.to \in {Keep, "COMPLETED", "FAILED"}
  /\ s.op = "get_next_task" =>
       /\ a \in Processors /\ job[a] = NoTask
       /\ s.to = "RUNNING" /\ \E t \in TaskIds : s.rows = {t}
  /\ s.op \in Inserting => a \in Requests
  /\ s.op \in {"resume_user_jobs", "set_task_priority"} => s.to = Keep
  /\ s.op # "get_next_task" => s.to # "RUNNING"
  /\ s.op \notin {"get_next_task", "retry_failed_task"} => s.to \notin Active

Shapes == \A a \in Actors : ShapeOf(a, session[a])

\* Opening a well-shaped session, or closing one, keeps the shapes.
LEMMA OpenShape ==
  ASSUME TypeOK, Shapes, NEW a \in Actors, NEW s \in Session, Open(a, s),
         ShapeOf(a, s)
  PROVE  Shapes'
  BY DEF Shapes, ShapeOf, Open, TypeOK

LEMMA CloseShape ==
  ASSUME TypeOK, Shapes, NEW a \in Actors, Close(a),
         \A w \in Workers : w # a => job'[w] = job[w]
  PROVE  Shapes'
<1>1. \A b \in Actors : session'[b] = IF b = a THEN NoSession ELSE session[b]
  BY DEF Close, TypeOK
<1>2. ASSUME NEW b \in Actors PROVE ShapeOf(b, session[b])'
  <2>1. CASE b = a
    BY <1>1, <2>1 DEF ShapeOf, NoSession, Active, Keep, Inserting
  <2>2. CASE b # a
    BY <1>1, <2>2 DEF Shapes, ShapeOf, Workers
  <2>3. QED
    BY <2>1, <2>2
<1>3. QED
  BY <1>2 DEF Shapes

\* What complete_task and get_next_task open.
WorkerOpening(w, s) ==
  \/ /\ s.op = "complete_task" /\ s.rows = {job[w]} /\ s.notes = {}
     /\ s.to \in {Keep, "COMPLETED", "FAILED"} /\ job[w] # NoTask
     /\ tasks[job[w]].status \in Active => s.to # Keep
  \/ /\ s.op = "get_next_task" /\ w \in Processors /\ job[w] = NoTask
     /\ s.to = "RUNNING"
     /\ Cardinality(Having("RUNNING")) < MaxConcurrent
     /\ \E t \in Having("QUEUED") : s.rows = {t}

LEMMA GetNextOpens ==
  ASSUME TypeOK, NEW w \in Processors, GetNextTask(w)
  PROVE  \E s \in Session : Open(w, s) /\ WorkerOpening(w, s)
<1>1. PICK t \in Having("QUEUED") :
        Open(w, [NoSession EXCEPT !.op = "get_next_task", !.rows = {t},
                                  !.to = "RUNNING"])
  BY DEF GetNextTask
<1> DEFINE s == [NoSession EXCEPT !.op = "get_next_task", !.rows = {t},
                                  !.to = "RUNNING"]
<1>2. s \in Session
  BY DEF NoSession, Session, Locking, Statuses, Active, Priorities, Having
<1>3. WorkerOpening(w, s)
  BY DEF GetNextTask, WorkerOpening, NoSession
<1>4. QED
  BY <1>1, <1>2, <1>3

LEMMA FinishOpens ==
  ASSUME TypeOK, NEW w \in Workers, Finish(w)
  PROVE  \/ \E s \in Session : Open(w, s) /\ WorkerOpening(w, s)
         \/ /\ session[w].op = "none" /\ ~Exists(job[w]) /\ job[w] \in TaskIds
            /\ job' = [job EXCEPT ![w] = NoTask]
            /\ UNCHANGED <<tasks, nextId, lock, session>>
<1>1. PICK result \in {"COMPLETED", "FAILED"} : CompleteTask(w, result)
  BY DEF Finish
<1>2. job[w] \in TaskIds
  BY <1>1 DEF CompleteTask, TypeOK
<1>3. CASE Exists(job[w])
  <2> DEFINE s == [NoSession EXCEPT !.op = "complete_task", !.rows = {job[w]},
           !.to = IF tasks[job[w]].status = result THEN Keep ELSE result]
  <2>1. s \in Session
    BY <1>2 DEF NoSession, Session, LockFree, Statuses, Terminal, Priorities
  <2>2. Open(w, s)
    BY <1>1, <1>3 DEF CompleteTask
  <2>3. WorkerOpening(w, s)
    BY <1>1 DEF CompleteTask, WorkerOpening, NoSession, Active, Keep
  <2>4. QED
    BY <2>1, <2>2, <2>3
<1>4. CASE ~Exists(job[w])
  BY <1>1, <1>2, <1>4 DEF CompleteTask
<1>5. QED
  BY <1>3, <1>4

LEMMA InitShapes == Init => Shapes
  BY DEF Init, Shapes, ShapeOf, NoSession, Active, Keep, Inserting

LEMMA NextShapes ==
  ASSUME TypeOK, Shapes, [Next]_vars
  PROVE  Shapes'
<1>1. ASSUME NEW a \in Requests, Request(a) PROVE Shapes'
  <2>1. PICK s \in Session : Open(a, s) /\ Opening(s)
    BY <1>1, RequestOpens
  <2>2. ShapeOf(a, s)
    BY <2>1 DEF Opening, RequestOps, Locking, LockFree, ShapeOf, Active, Keep, Inserting
  <2>3. a \in Actors
    BY DEF Actors
  <2>4. QED
    BY <2>1, <2>2, <2>3, OpenShape
<1>2. ASSUME NEW a \in Actors, Commit(a) PROVE Shapes'
  <2>1. CASE CommitInsert(a) \/ CommitUpdate(a) \/ CommitStart(a)
             \/ CommitDelete(a) \/ Rollback(a)
    <3>1. Close(a)
      BY <2>1 DEF CommitInsert, CommitUpdate, CommitStart, CommitDelete, Rollback
    <3>2. \A w \in Workers : w # a => job'[w] = job[w]
      BY <2>1 DEF CommitInsert, CommitUpdate, CommitStart, CommitDelete,
                  Rollback, JobAfter, TypeOK
    <3>3. QED
      BY <3>1, <3>2, CloseShape
  <2>2. CASE RetryFailedTask(a)
    <3>1. PICK t \in session[a].rows :
            \/ Close(a)
            \/ session' = [session EXCEPT ![a] =
                 [NoSession EXCEPT !.op = "retry_failed_task", !.rows = {t},
                    !.to = IF tasks[t].status = "QUEUED" THEN Keep ELSE "QUEUED",
                    !.retry = tasks[t].retry + 1]]
      BY <2>2 DEF RetryFailedTask
    <3>2. UNCHANGED job
      BY <2>2 DEF RetryFailedTask
    <3>3. CASE Close(a)
      BY <3>2, <3>3, CloseShape
    <3>4. CASE ~Close(a)
      <4> DEFINE s == [NoSession EXCEPT !.op = "retry_failed_task", !.rows = {t},
                    !.to = IF tasks[t].status = "QUEUED" THEN Keep ELSE "QUEUED",
                    !.retry = tasks[t].retry + 1]
      <4>1. s.op = "retry_failed_task" /\ s.to \in {Keep, "QUEUED"}
        BY DEF NoSession
      <4> HIDE DEF s
      <4>2. session' = [session EXCEPT ![a] = s]
        BY <3>1, <3>4 DEF s
      <4>3. QED
        BY <3>2, <4>1, <4>2 DEF Shapes, ShapeOf, Keep, Inserting, TypeOK
    <3>5. QED
      BY <3>3, <3>4
  <2>3. QED
    BY <1>2, <2>1, <2>2 DEF Commit
<1>3. ASSUME NEW w \in Processors, GetNextTask(w) PROVE Shapes'
  <2>1. PICK s \in Session : Open(w, s) /\ WorkerOpening(w, s)
    BY <1>3, GetNextOpens
  <2>2. w \in Actors /\ w \in Workers
    BY DEF Actors, Workers
  <2>3. ShapeOf(w, s)
    BY <2>1, <2>2 DEF WorkerOpening, ShapeOf, Active, Keep, Inserting, Having
  <2>4. QED
    BY <2>1, <2>2, <2>3, OpenShape
<1>4. ASSUME NEW w \in Scripts, GetNextQueuedTask(w) PROVE Shapes'
  <2>1. /\ UNCHANGED session /\ w \in Workers /\ job[w] = NoTask
        /\ session[w].op = "none"
        /\ \A v \in Workers : v # w => job'[v] = job[v]
    BY <1>4 DEF GetNextQueuedTask, TypeOK, Workers
  <2>2. ASSUME NEW b \in Actors PROVE ShapeOf(b, session[b])'
    <3>1. CASE b = w
      BY <2>1, <3>1 DEF Shapes, ShapeOf
    <3>2. CASE b # w
      BY <2>1, <3>2 DEF Shapes, ShapeOf, Workers
    <3>3. QED
      BY <3>1, <3>2
  <2>3. QED
    BY <2>2 DEF Shapes
<1>5. ASSUME NEW w \in Workers, Finish(w) PROVE Shapes'
  <2>1. w \in Actors
    BY DEF Actors
  <2>2. CASE \E s \in Session : Open(w, s) /\ WorkerOpening(w, s)
    <3>1. PICK s \in Session : Open(w, s) /\ WorkerOpening(w, s)
      BY <2>2
    <3>2. ShapeOf(w, s)
      BY <3>1 DEF WorkerOpening, ShapeOf, Active, Keep, Inserting, Having
    <3>3. QED
      BY <2>1, <3>1, <3>2, OpenShape
  <2>3. CASE /\ session[w].op = "none"
             /\ job' = [job EXCEPT ![w] = NoTask]
             /\ UNCHANGED session
    <3>1. ASSUME NEW b \in Actors PROVE ShapeOf(b, session[b])'
      <4>1. CASE b = w
        BY <2>3, <4>1 DEF Shapes, ShapeOf
      <4>2. CASE b # w
        BY <2>3, <4>2 DEF Shapes, ShapeOf, Workers, TypeOK
      <4>3. QED
        BY <4>1, <4>2
    <3>2. QED
      BY <3>1 DEF Shapes
  <2>4. QED
    BY <1>5, <2>2, <2>3, FinishOpens
<1>6. ASSUME NEW w \in Workers, Crash(w) PROVE Shapes'
  <2>1. w \in Actors /\ Close(w) /\ \A v \in Workers : v # w => job'[v] = job[v]
    BY <1>6 DEF Crash, TypeOK, Actors
  <2>2. QED
    BY <2>1, CloseShape
<1>7. CASE UNCHANGED vars
  BY <1>7 DEF vars, Shapes, ShapeOf
<1>8. ASSUME NEW u \in Users, NEW lost \in SUBSET TaskIds, DeletePlatform(u, lost)
      PROVE  Shapes'
  BY <1>8 DEF DeletePlatform, Shapes, ShapeOf
<1>9. QED
  BY <1>1, <1>2, <1>3, <1>4, <1>5, <1>6, <1>7, <1>8 DEF Next

-----------------------------------------------------------------------------
(***************************************************************************)
(* Without a crash and without a failing commit, a row that is RUNNING has *)
(* a worker that will write its end, whoever shares a lock with whom.      *)
(***************************************************************************)
\* w is at task t and its complete_task, if begun, will write the status.
At(w, t) == job[w] = t /\ ~(session[w].op = "complete_task" /\ session[w].to = Keep)

\* Opening a session takes no worker away from a running task.
LEMMA OpenRunning ==
  ASSUME TypeOK, RunningHasWorker, NEW a \in Actors, NEW s \in Session,
         Open(a, s), Opening(s) \/ WorkerOpening(a, s)
  PROVE  RunningHasWorker'
<1> SUFFICES ASSUME NEW t \in TaskIds, tasks'[t].status = "RUNNING"
             PROVE  \E w \in Workers : At(w, t)'
  BY DEF RunningHasWorker, At
<1>1. tasks[t].status = "RUNNING" /\ UNCHANGED job
  BY DEF Open
<1>2. PICK w \in Workers : At(w, t)
  BY <1>1 DEF RunningHasWorker, At
<1>3. \A b \in Actors : session'[b] = IF b = a THEN s ELSE session[b]
  BY DEF Open, TypeOK
<1>4. w \in Actors
  BY DEF Actors
<1>5. CASE w = a
  <2>1. s.op = "complete_task" => s.to # Keep
    BY <1>1, <1>2, <1>5 DEF At, Opening, RequestOps, Locking, LockFree,
                            WorkerOpening, Active
  <2>2. QED
    BY <1>1, <1>2, <1>3, <1>4, <1>5, <2>1 DEF At
<1>6. CASE w # a
  BY <1>1, <1>2, <1>3, <1>4, <1>6 DEF At
<1>7. QED
  BY <1>5, <1>6

\* Neither does closing one, if the rows it leaves RUNNING keep their worker.
LEMMA CloseRunning ==
  ASSUME TypeOK, RunningHasWorker, NEW a \in Actors, Close(a),
         \A t \in TaskIds : tasks'[t].status = "RUNNING" =>
           \/ a \in Workers /\ job'[a] = t
           \/ /\ tasks[t].status = "RUNNING"
              /\ \A w \in Workers : At(w, t) => job'[w] = t
  PROVE  RunningHasWorker'
<1> SUFFICES ASSUME NEW t \in TaskIds, tasks'[t].status = "RUNNING"
             PROVE  \E w \in Workers : At(w, t)'
  BY DEF RunningHasWorker, At
<1>1. /\ \A b \in Actors : session'[b] = IF b = a THEN NoSession ELSE session[b]
      /\ Workers \subseteq Actors /\ NoSession.op = "none"
  BY DEF Close, TypeOK, Actors, NoSession
<1>2. CASE a \in Workers /\ job'[a] = t
  BY <1>1, <1>2 DEF At
<1>3. CASE tasks[t].status = "RUNNING" /\ \A w \in Workers : At(w, t) => job'[w] = t
  <2>1. PICK w \in Workers : At(w, t)
    BY <1>3 DEF RunningHasWorker, At
  <2>2. job'[w] = t
    BY <1>3, <2>1
  <2>3. QED
    BY <1>1, <2>1, <2>2 DEF At
<1>4. QED
  BY <1>2, <1>3

LEMMA CommitRunning ==
  ASSUME Faults = {}, TypeOK, Shapes, RunningHasWorker, NEW a \in Actors, Commit(a)
  PROVE  RunningHasWorker'
<1> DEFINE s == session[a]
<1>0. ShapeOf(a, s) /\ s \in Session
  BY DEF Shapes, TypeOK
<1>1. CASE CommitInsert(a)
  <2>1. \A t \in TaskIds : tasks'[t].status = "RUNNING" => tasks[t].status = "RUNNING"
    BY <1>1 DEF CommitInsert, TypeOK, TaskIds
  <2>2. QED
    BY <1>1, <2>1, CloseRunning DEF CommitInsert, At
<1>2. CASE CommitUpdate(a)
  <2>1. ASSUME NEW t \in TaskIds, tasks'[t].status = "RUNNING"
        PROVE  /\ tasks[t].status = "RUNNING"
               /\ \A w \in Workers : At(w, t) => job'[w] = t
    <3>1. tasks'[t] = Written(s, t)
      BY <1>2 DEF CommitUpdate
    <3>2. tasks[t] \in Row /\ s.op # "get_next_task"
      BY <1>2 DEF TypeOK, CommitUpdate
    <3>3. tasks'[t].status = IF t \in s.rows /\ s.to # Keep THEN s.to
                             ELSE tasks[t].status
      BY <3>1, <3>2 DEF Written, Row
    <3>4. tasks[t].status = "RUNNING" /\ (t \in s.rows => s.to = Keep)
      BY <1>0, <2>1, <3>2, <3>3 DEF ShapeOf
    <3>5. ASSUME NEW w \in Workers, At(w, t) PROVE job'[w] = t
      <4>1. CASE s.op = "complete_task" /\ w = a
        BY <1>0, <3>4, <3>5, <4>1 DEF At, ShapeOf
      <4>2. CASE ~(s.op = "complete_task" /\ w = a)
        BY <1>2, <3>5, <4>2 DEF At, CommitUpdate, JobAfter, TypeOK
      <4>3. QED
        BY <4>1, <4>2
    <3>6. QED
      BY <3>4, <3>5
  <2>2. QED
    BY <1>2, <2>1, CloseRunning DEF CommitUpdate
<1>3. CASE CommitStart(a)
  <2>1. PICK x \in TaskIds : s.rows = {x}
    BY <1>0, <1>3 DEF CommitStart, ShapeOf
  <2>2. a \in Workers /\ job[a] = NoTask /\ job' = [job EXCEPT ![a] = x]
    BY <1>0, <1>3, <2>1 DEF CommitStart, ShapeOf, Workers
  <2>3. ASSUME NEW t \in TaskIds, tasks'[t].status = "RUNNING"
        PROVE  \/ a \in Workers /\ job'[a] = t
               \/ /\ tasks[t].status = "RUNNING"
                  /\ \A w \in Workers : At(w, t) => job'[w] = t
    <3>1. CASE t = x
      BY <2>2, <3>1 DEF TypeOK
    <3>2. CASE t # x
      <4>1. tasks[t] \in Row /\ tasks'[t] = Written(s, t)
        BY <1>3 DEF CommitStart, TypeOK
      <4>2. tasks[t].status = "RUNNING"
        BY <2>1, <2>3, <3>2, <4>1 DEF Written, Row
      <4>3. \A w \in Workers : At(w, t) => w # a
        BY <2>2, ActorsAssumption DEF At
      <4>4. QED
        BY <2>2, <4>2, <4>3 DEF At, TypeOK
    <3>3. QED
      BY <3>1, <3>2
  <2>4. QED
    BY <1>3, <2>3, CloseRunning DEF CommitStart
<1>4. CASE CommitDelete(a)
  <2>1. \A t \in TaskIds : tasks'[t].status = "RUNNING" => tasks[t].status = "RUNNING"
    BY <1>4 DEF CommitDelete, NoRow, Absent
  <2>2. QED
    BY <1>4, <2>1, CloseRunning DEF CommitDelete, At
<1>5. CASE RetryFailedTask(a)
  <2>1. UNCHANGED <<tasks, job>> /\ s.op # "complete_task"
    BY <1>5 DEF RetryFailedTask
  <2>2. \A b \in Actors : /\ b # a => session'[b] = session[b]
                          /\ session'[a].op # "complete_task"
    <3>1. PICK t \in s.rows :
            \/ session' = [session EXCEPT ![a] =
                 [NoSession EXCEPT !.op = "retry_failed_task", !.rows = {t},
                    !.to = IF tasks[t].status = "QUEUED" THEN Keep ELSE "QUEUED",
                    !.retry = tasks[t].retry + 1]]
            \/ session' = [session EXCEPT ![a] = NoSession]
      BY <1>5 DEF RetryFailedTask, Close
    <3>2. /\ NoSession.op # "complete_task"
          /\ [NoSession EXCEPT !.op = "retry_failed_task", !.rows = {t},
                !.to = IF tasks[t].status = "QUEUED" THEN Keep ELSE "QUEUED",
                !.retry = tasks[t].retry + 1].op # "complete_task"
      BY DEF NoSession
    <3>3. QED
      BY <3>1, <3>2 DEF TypeOK
  <2>3. QED
    BY <2>1, <2>2 DEF RunningHasWorker, Actors
<1>6. CASE Rollback(a)
  <2>1. ASSUME NEW t \in TaskIds, tasks'[t].status = "RUNNING"
        PROVE  /\ tasks[t].status = "RUNNING"
               /\ \A w \in Workers : At(w, t) => job'[w] = t
    <3>1. tasks[t].status = "RUNNING" /\ (Stale(a) \/ s.op \in Inserting)
      BY <1>6, <2>1 DEF Rollback
    <3>2. ASSUME NEW w \in Workers, At(w, t) PROVE job'[w] = t
      <4>1. CASE s.op = "complete_task" /\ w = a
        BY <1>0, <3>1, <3>2, <4>1 DEF At, ShapeOf, Stale, Exists, Absent, Inserting
      <4>2. CASE ~(s.op = "complete_task" /\ w = a)
        BY <1>6, <3>2, <4>2 DEF At, Rollback, JobAfter, TypeOK
      <4>3. QED
        BY <4>1, <4>2
    <3>3. QED
      BY <3>1, <3>2
  <2>2. QED
    BY <1>6, <2>1, CloseRunning DEF Rollback
<1>7. QED
  BY <1>1, <1>2, <1>3, <1>4, <1>5, <1>6 DEF Commit

\* No row stays RUNNING behind a worker that has gone: for every set of
\* actors and managers, if no process dies and no commit fails.
THEOREM RunningIsOwned ==
  ASSUME Faults = {}
  PROVE  Spec => []RunningHasWorker
<1>1. Init => RunningHasWorker
  BY DEF Init, RunningHasWorker, NoRow, Absent
<1>2. TypeOK /\ Shapes /\ RunningHasWorker /\ [Next]_vars => RunningHasWorker'
  <2> SUFFICES ASSUME TypeOK, Shapes, RunningHasWorker, [Next]_vars
               PROVE  RunningHasWorker'
    OBVIOUS
  <2>1. ASSUME NEW a \in Requests, Request(a) PROVE RunningHasWorker'
    BY <2>1, RequestOpens, OpenRunning DEF Actors
  <2>2. ASSUME NEW a \in Actors, Commit(a) PROVE RunningHasWorker'
    BY <2>2, CommitRunning
  <2>3. ASSUME NEW w \in Processors, GetNextTask(w) PROVE RunningHasWorker'
    BY <2>3, GetNextOpens, OpenRunning DEF Actors, Workers
  <2>4. ASSUME NEW w \in Scripts, GetNextQueuedTask(w) PROVE RunningHasWorker'
    <3>1. /\ UNCHANGED <<tasks, session>> /\ job[w] = NoTask
          /\ \A v \in Workers : v # w => job'[v] = job[v]
      BY <2>4 DEF GetNextQueuedTask, TypeOK
    <3>2. QED
      BY <3>1, ActorsAssumption DEF RunningHasWorker
  <2>5. ASSUME NEW w \in Workers, Finish(w) PROVE RunningHasWorker'
    <3>1. CASE \E s \in Session : Open(w, s) /\ WorkerOpening(w, s)
      BY <3>1, OpenRunning DEF Actors
    <3>2. CASE /\ ~Exists(job[w])
               /\ job' = [job EXCEPT ![w] = NoTask]
               /\ UNCHANGED <<tasks, session>>
      BY <3>2 DEF RunningHasWorker, Exists, Absent, TypeOK
    <3>3. QED
      BY <2>5, <3>1, <3>2, FinishOpens
  <2>6. ASSUME NEW w \in Workers, Crash(w) PROVE RunningHasWorker'
    BY <2>6 DEF Crash
  <2>7. CASE UNCHANGED vars
    BY <2>7 DEF vars, RunningHasWorker
  <2>8. ASSUME NEW u \in Users, NEW lost \in SUBSET TaskIds, DeletePlatform(u, lost)
        PROVE  RunningHasWorker'
    BY <2>8 DEF DeletePlatform, RunningHasWorker, NoRow, Absent
  <2>9. QED
    BY <2>1, <2>2, <2>3, <2>4, <2>5, <2>6, <2>7, <2>8 DEF Next
<1>3. QED
  BY <1>1, <1>2, TypeCorrect, InitShapes, NextShapes, PTL DEF Spec

=============================================================================
