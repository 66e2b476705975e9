--------------------------- MODULE ManagersProofs ---------------------------
(***************************************************************************)
(* Theorems about TaskQueue with any number of TaskQueueManager objects:   *)
(* what each one's lock protects, and what is left of the limits when      *)
(* several processes or requests have one each.                            *)
(***************************************************************************)
EXTENDS TaskQueueProofs, FiniteSetTheorems

\* retry_failed_task, which has no caller in the program, takes no lock.
NoRetry == "should_auto_retry_task" \notin Methods

-----------------------------------------------------------------------------
(***************************************************************************)
(* The lock, and the five kinds of steps.                                  *)
(***************************************************************************)
LockHeld == \A a \in Actors : session[a].op \in Locking => Holds(a)

NoRetrySessions ==
  \A a \in Actors : session[a].op \notin {"should_auto_retry_task", "retry_failed_task"}

\* A session opens, and nothing else happens.
Opens(a, s) == /\ Open(a, s)
               /\ (Opening(s) /\ a \in Requests) \/ WorkerOpening(a, s)

\* A worker takes or drops a task without touching the table.
Jobs ==
  /\ UNCHANGED <<tasks, nextId, lock, session>>
  /\ \/ \E w \in Scripts, t \in Having("QUEUED") : job' = [job EXCEPT ![w] = t]
     \/ \E w \in Workers : job' = [job EXCEPT ![w] = NoTask]

Crashes(w) == /\ Close(w) /\ UNCHANGED <<tasks, nextId>>
              /\ job' = [job EXCEPT ![w] = NoTask]

\* Rows go with their platform.
Deletes ==
  /\ \E lost \in SUBSET TaskIds :
       tasks' = [t \in TaskIds |-> IF t \in lost THEN NoRow ELSE tasks[t]]
  /\ UNCHANGED <<nextId, lock, session, job>>

LEMMA StepKinds ==
  ASSUME TypeOK, Next
  PROVE  \/ \E a \in Actors, s \in Session : Opens(a, s)
         \/ \E a \in Actors : Commit(a)
         \/ Jobs
         \/ \E w \in Workers : Crashes(w)
         \/ Deletes
<1> Requests \subseteq Actors /\ Processors \subseteq Actors /\ Workers \subseteq Actors
  BY DEF Actors, Workers
<1>1. ASSUME NEW a \in Requests, Request(a)
      PROVE  \E b \in Actors, s \in Session : Opens(b, s)
  BY <1>1, RequestOpens DEF Opens
<1>2. ASSUME NEW w \in Processors, GetNextTask(w)
      PROVE  \E b \in Actors, s \in Session : Opens(b, s)
  BY <1>2, GetNextOpens DEF Opens
<1>3. ASSUME NEW w \in Scripts, GetNextQueuedTask(w) PROVE Jobs
  BY <1>3 DEF GetNextQueuedTask, Jobs
<1>4. ASSUME NEW w \in Workers, Finish(w)
      PROVE  Jobs \/ \E b \in Actors, s \in Session : Opens(b, s)
  BY <1>4, FinishOpens DEF Opens, Jobs
<1>5. ASSUME NEW w \in Workers, Crash(w) PROVE Crashes(w)
  BY <1>5 DEF Crash, Crashes
<1>6. ASSUME NEW u \in Users, NEW lost \in SUBSET TaskIds, DeletePlatform(u, lost)
      PROVE  Deletes
  BY <1>6 DEF DeletePlatform, Deletes
<1>7. QED
  BY <1>1, <1>2, <1>3, <1>4, <1>5, <1>6 DEF Next

\* A commit closes its session; only a retry goes on to another.
LEMMA CommitCloses ==
  ASSUME TypeOK, NoRetrySessions, NEW a \in Actors, Commit(a)
  PROVE  Close(a)
  BY DEF Commit, CommitInsert, CommitUpdate, CommitStart, CommitDelete,
         RetryFailedTask, Rollback, NoRetrySessions

LEMMA InitLock == Init => LockHeld /\ NoRetrySessions
  BY DEF Init, LockHeld, NoRetrySessions, NoSession, Locking

LEMMA NextNoRetry ==
  ASSUME NoRetry, TypeOK, NoRetrySessions, [Next]_vars
  PROVE  NoRetrySessions'
<1>1. ASSUME NEW a \in Actors, NEW s \in Session, Opens(a, s)
      PROVE  NoRetrySessions'
  <2>1. s.op \notin {"should_auto_retry_task", "retry_failed_task"}
    BY <1>1 DEF NoRetry, Opens, Open, Opening, RequestOps, Locking, LockFree,
                WorkerOpening
  <2>2. QED
    BY <1>1, <2>1 DEF NoRetrySessions, Opens, Open, TypeOK
<1>2. ASSUME NEW a \in Actors, Close(a) PROVE NoRetrySessions'
  BY <1>2 DEF NoRetrySessions, Close, NoSession, TypeOK
<1>3. CASE UNCHANGED vars
  BY <1>3 DEF vars, NoRetrySessions
<1>4. CASE Next
  BY <1>1, <1>2, <1>4, StepKinds, CommitCloses
     DEF Crashes, Jobs, Deletes, Actors, NoRetrySessions
<1>5. QED
  BY <1>3, <1>4

\* Whoever is in a method that takes the lock holds it.
LEMMA NextLock ==
  ASSUME TypeOK, Shapes, LockHeld, [Next]_vars
  PROVE  LockHeld'
<1>1. ASSUME NEW a \in Actors, NEW s \in Session, Opens(a, s) PROVE LockHeld'
  BY <1>1, ActorsAssumption DEF Opens, Open, LockHeld, Holds, TypeOK
<1>2. ASSUME NEW a \in Actors, Close(a) PROVE LockHeld'
  <2>1. \A b \in Actors : session'[b] = IF b = a THEN NoSession ELSE session[b]
    BY <1>2 DEF Close, TypeOK
  <2>2. \A b \in Actors : b # a /\ Holds(b) => lock'[ManagerOf[b]] = b
    BY <1>2, ActorsAssumption DEF Close, Holds, TypeOK
  <2>3. NoSession.op \notin Locking
    BY DEF NoSession, Locking
  <2>4. QED
    BY <2>1, <2>2, <2>3 DEF LockHeld, Holds
<1>3. ASSUME NEW a \in Actors, RetryFailedTask(a) PROVE LockHeld'
  <2>1. PICK t \in session[a].rows :
          \/ Close(a)
          \/ /\ UNCHANGED lock
             /\ session' = [session EXCEPT ![a] =
                 [NoSession EXCEPT !.op = "retry_failed_task", !.rows = {t},
                    !.to = IF tasks[t].status = "QUEUED" THEN Keep ELSE "QUEUED",
                    !.retry = tasks[t].retry + 1]]
    BY <1>3 DEF RetryFailedTask
  <2> DEFINE s == [NoSession EXCEPT !.op = "retry_failed_task", !.rows = {t},
                    !.to = IF tasks[t].status = "QUEUED" THEN Keep ELSE "QUEUED",
                    !.retry = tasks[t].retry + 1]
  <2>2. s.op \notin Locking
    BY DEF NoSession, Locking
  <2> HIDE DEF s
  <2>3. CASE UNCHANGED lock /\ session' = [session EXCEPT ![a] = s]
    BY <2>2, <2>3 DEF LockHeld, Holds, TypeOK
  <2>4. QED
    BY <1>2, <2>1, <2>3 DEF s
<1>4. ASSUME NEW a \in Actors, Commit(a) PROVE LockHeld'
  BY <1>2, <1>3, <1>4 DEF Commit, CommitInsert, CommitUpdate, CommitStart,
                          CommitDelete, Rollback
<1>5. CASE UNCHANGED vars
  BY <1>5 DEF vars, LockHeld, Holds
<1>6. CASE Jobs \/ Deletes
  BY <1>6 DEF Jobs, Deletes, LockHeld, Holds
<1>7. CASE Next
  BY <1>1, <1>2, <1>4, <1>6, <1>7, StepKinds DEF Crashes, Actors
<1>8. QED
  BY <1>5, <1>7

\* Two actors are never both in methods that take the one lock.\* What the invariants below build on.
LEMMA Grounds ==
  ASSUME NoRetry
  PROVE  Spec => [](TypeOK /\ Shapes /\ LockHeld /\ NoRetrySessions)
<1>1. TypeOK /\ Shapes /\ [Next]_vars => Shapes'
  BY NextShapes
<1>2. TypeOK /\ NoRetrySessions /\ [Next]_vars => NoRetrySessions'
  BY NextNoRetry
<1>3. TypeOK /\ Shapes /\ LockHeld /\ [Next]_vars => LockHeld'
  BY NextLock
<1>4. QED
  BY <1>1, <1>2, <1>3, InitLock, InitShapes, TypeCorrect, PTL DEF Spec

-----------------------------------------------------------------------------
(***************************************************************************)
(* What a commit does to the table.                                        *)
(***************************************************************************)
\* No row becomes active, and no row changes hands.
Quiet ==
  \A t \in TaskIds :
    /\ tasks'[t].status # tasks[t].status => tasks'[t].status \notin Active
    /\ tasks'[t].status # Absent =>
         tasks[t].status # Absent /\ tasks'[t].user = tasks[t].user

LEMMA DeleteQuiet ==
  ASSUME Deletes
  PROVE  /\ Quiet /\ nextId' = nextId
         /\ \A s \in {"QUEUED", "RUNNING"} : Having(s)' \subseteq Having(s)
<1>1. PICK lost \in SUBSET TaskIds :
        tasks' = [t \in TaskIds |-> IF t \in lost THEN NoRow ELSE tasks[t]]
  BY DEF Deletes
<1>2. \A t \in TaskIds : tasks'[t] = tasks[t] \/ tasks'[t].status = Absent
  BY <1>1 DEF NoRow
<1>3. QED
  BY <1>2 DEF Deletes, Quiet, Having, Active, Absent

\* The statuses and the owners of the rows that a session writes.
LEMMA WrittenStatus ==
  ASSUME TypeOK, NEW a \in Actors, NEW t \in TaskIds
  PROVE  /\ Written(session[a], t).user = tasks[t].user
         /\ Written(session[a], t).status =
              IF t \in session[a].rows /\ session[a].to # Keep
                THEN session[a].to ELSE tasks[t].status
<1>1. tasks[t] \in Row
  BY DEF TypeOK
<1>2. QED
  BY <1>1 DEF Written, Row

\* Only an insert, a start and a retry are not quiet.
LEMMA CommitQuiet ==
  ASSUME TypeOK, Shapes, NEW a \in Actors, Commit(a),
         session[a].op # "retry_failed_task", ~CommitInsert(a), ~CommitStart(a)
  PROVE  Quiet /\ nextId' = nextId
<1>1. CASE CommitUpdate(a)
  <2>1. session[a].to \notin Active /\ nextId' = nextId
    BY <1>1 DEF Shapes, ShapeOf, CommitUpdate
  <2>2. ASSUME NEW t \in TaskIds
        PROVE  /\ tasks'[t].user = tasks[t].user
               /\ tasks'[t].status # tasks[t].status =>
                    tasks'[t].status = session[a].to /\ tasks[t].status # Absent
    <3>1. tasks'[t] = Written(session[a], t)
      BY <1>1 DEF CommitUpdate
    <3>2. t \in session[a].rows => tasks[t].status # Absent
      BY <1>1 DEF CommitUpdate, Stale, Exists
    <3>3. QED
      BY <3>1, <3>2, WrittenStatus
  <2>3. QED
    BY <2>1, <2>2 DEF Quiet
<1>2. CASE CommitDelete(a)
  BY <1>2 DEF CommitDelete, Quiet, NoRow, Absent, Active
<1>3. CASE UNCHANGED <<tasks, nextId>>
  BY <1>3 DEF Quiet
<1>4. QED
  BY <1>1, <1>2, <1>3 DEF Commit, RetryFailedTask, Rollback

\* Only get_next_task makes a row RUNNING, whatever else retries it.
LEMMA CommitRuns ==
  ASSUME TypeOK, Shapes, NEW a \in Actors, Commit(a), ~CommitStart(a)
  PROVE  Having("RUNNING")' \subseteq Having("RUNNING")
<1>1. CASE CommitUpdate(a)
  <2>1. session[a].to # "RUNNING"
    BY <1>1 DEF Shapes, ShapeOf, CommitUpdate
  <2>2. \A t \in TaskIds : tasks'[t].status = "RUNNING" => tasks[t].status = "RUNNING"
    BY <1>1, <2>1, WrittenStatus DEF CommitUpdate
  <2>3. QED
    BY <2>2 DEF Having
<1>2. CASE CommitInsert(a)
  BY <1>2 DEF CommitInsert, Having, TypeOK, TaskIds
<1>3. CASE CommitDelete(a)
  BY <1>3 DEF CommitDelete, Having, NoRow, Absent
<1>4. CASE UNCHANGED tasks
  BY <1>4 DEF Having
<1>5. QED
  BY <1>1, <1>2, <1>3, <1>4 DEF Commit, RetryFailedTask, Rollback

\* get_next_task makes the row it selected RUNNING, and no other.
LEMMA CommitStarts ==
  ASSUME TypeOK, Shapes, NEW a \in Actors, CommitStart(a)
  PROVE  \E x \in TaskIds :
           /\ session[a].rows = {x} /\ tasks[x].status # Absent
           /\ a \in Processors /\ job' = [job EXCEPT ![a] = x]
           /\ \A t \in TaskIds : tasks'[t].user = tasks[t].user
           /\ tasks'[x].status = "RUNNING"
           /\ \A t \in TaskIds : t # x => tasks'[t].status = tasks[t].status
           /\ nextId' = nextId
<1>1. PICK x \in TaskIds : session[a].rows = {x}
  BY DEF CommitStart, Shapes, ShapeOf
<1>2. session[a].to = "RUNNING" /\ a \in Processors
  BY DEF CommitStart, Shapes, ShapeOf
<1>3. tasks[x].status # Absent
  BY <1>1 DEF CommitStart, Stale, Exists
<1>4. \A t \in TaskIds : tasks'[t] = Written(session[a], t)
  BY DEF CommitStart
<1>5. job' = [job EXCEPT ![a] = x] /\ nextId' = nextId
  BY <1>1 DEF CommitStart
<1>6. \A t \in TaskIds :
        /\ tasks'[t].user = tasks[t].user
        /\ tasks'[t].status = IF t = x THEN "RUNNING" ELSE tasks[t].status
  BY <1>1, <1>2, <1>4, WrittenStatus DEF Keep
<1>7. QED
  BY <1>1, <1>2, <1>3, <1>5, <1>6
\* What an open or a commit does to the sessions of get_next_task.
LEMMA CommitSessions ==
  ASSUME TypeOK, NEW a \in Actors, Commit(a)
  PROVE  /\ \A b \in Actors : b # a => session'[b] = session[b]
         /\ session'[a].op \in {"none", "retry_failed_task"}
<1>1. CASE Close(a)
  BY <1>1 DEF Close, NoSession, TypeOK
<1>2. CASE RetryFailedTask(a)
  <2>1. PICK t \in session[a].rows :
          \/ Close(a)
          \/ session' = [session EXCEPT ![a] =
                 [NoSession EXCEPT !.op = "retry_failed_task", !.rows = {t},
                    !.to = IF tasks[t].status = "QUEUED" THEN Keep ELSE "QUEUED",
                    !.retry = tasks[t].retry + 1]]
    BY <1>2 DEF RetryFailedTask
  <2> DEFINE s == [NoSession EXCEPT !.op = "retry_failed_task", !.rows = {t},
                    !.to = IF tasks[t].status = "QUEUED" THEN Keep ELSE "QUEUED",
                    !.retry = tasks[t].retry + 1]
  <2>2. s.op = "retry_failed_task"
    BY DEF NoSession
  <2> HIDE DEF s
  <2>3. CASE session' = [session EXCEPT ![a] = s]
    BY <2>2, <2>3 DEF TypeOK
  <2>4. QED
    BY <1>1, <2>1, <2>3 DEF s
<1>3. QED
  BY <1>1, <1>2 DEF Commit, CommitInsert, CommitUpdate, CommitStart, CommitDelete,
                    Rollback

\* There are finitely many rows to count.
LEMMA TasksFinite ==
  /\ IsFiniteSet(TaskIds)
  /\ \A s : IsFiniteSet(Having(s)) /\ Cardinality(Having(s)) \in Nat
<1>1. IsFiniteSet(TaskIds)
  BY LimitsAssumption, FS_Interval DEF TaskIds
<1>2. \A s : Having(s) \subseteq TaskIds
  BY DEF Having
<1>3. QED
  BY <1>1, <1>2, FS_Subset, FS_CardinalityType

\* What the table counts is no more than before and one row.
LEMMA OneMoreOf ==
  ASSUME NEW s, NEW x \in TaskIds, Having(s)' \subseteq Having(s) \cup {x}
  PROVE  Cardinality(Having(s)') <= Cardinality(Having(s)) + 1
<1>1. IsFiniteSet(Having(s)) /\ Cardinality(Having(s)) \in Nat
  BY TasksFinite
<1>2. /\ IsFiniteSet(Having(s) \cup {x})
      /\ Cardinality(Having(s) \cup {x}) <= Cardinality(Having(s)) + 1
  <2>1. /\ IsFiniteSet(Having(s) \cup {x})
        /\ \/ Cardinality(Having(s) \cup {x}) = Cardinality(Having(s))
           \/ Cardinality(Having(s) \cup {x}) = Cardinality(Having(s)) + 1
    BY <1>1, FS_AddElement
  <2>2. QED
    BY <1>1, <2>1
<1>3. /\ Cardinality(Having(s)') <= Cardinality(Having(s) \cup {x})
      /\ Cardinality(Having(s)') \in Nat
      /\ Cardinality(Having(s) \cup {x}) \in Nat
  BY <1>2, FS_Subset, FS_CardinalityType
<1>4. QED
  BY <1>2, <1>3, TasksFinite

-----------------------------------------------------------------------------
(***************************************************************************)
(* Counting by managers.                                                   *)
(***************************************************************************)
FewManagers == IsFiniteSet(Askers \cup Starters)

LEMMA ManagersFinite ==
  ASSUME FewManagers
  PROVE  /\ IsFiniteSet(Starters) /\ Cardinality(Starters) \in Nat
         /\ IsFiniteSet(Askers) /\ Cardinality(Askers) \in Nat
         /\ IsFiniteSet(Askers \cup Starters) /\ Cardinality(Askers \cup Starters) \in Nat
  BY FS_Subset, FS_CardinalityType DEF FewManagers

\* Actors that hold locks of the managers M are no more than M, whatever the
\* table of locks.
LEMMA HoldersPerManager ==
  ASSUME NEW X, NEW M, IsFiniteSet(M), NEW L,
         \A a \in X : ManagerOf[a] \in M /\ L[ManagerOf[a]] = a
  PROVE  /\ IsFiniteSet(X) /\ Cardinality(X) <= Cardinality(M)
         /\ Cardinality(X) \in Nat /\ Cardinality(M) \in Nat
<1> DEFINE f == [a \in X |-> ManagerOf[a]]
<1>1. f \in [X -> M]
  OBVIOUS
<1>2. \A a, b \in X : f[a] = f[b] => a = b
  OBVIOUS
<1>3. f \in Injection(X, M)
  BY <1>1, <1>2 DEF Injection, IsInjective
<1>4. QED
  BY <1>3, FS_Injection, FS_CardinalityType

\* The actors between the query and the commit of get_next_task, and of
\* enqueue_task.
Starting == {a \in Actors : session[a].op = "get_next_task"}
Asking   == {a \in Actors : session[a].op = "enqueue_task"}

LEMMA StartingFinite ==
  ASSUME FewManagers
  PROVE  Shapes /\ LockHeld =>
           /\ IsFiniteSet(Starting) /\ Cardinality(Starting) <= Cardinality(Starters)
           /\ Cardinality(Starting) \in Nat
<1> SUFFICES ASSUME Shapes, LockHeld
             PROVE  /\ IsFiniteSet(Starting)
                    /\ Cardinality(Starting) <= Cardinality(Starters)
                    /\ Cardinality(Starting) \in Nat
  OBVIOUS
<1>1. \A a \in Starting : ManagerOf[a] \in Starters /\ lock[ManagerOf[a]] = a
  BY DEF Starting, Starters, Shapes, ShapeOf, LockHeld, Holds, Locking
<1>2. QED
  BY <1>1, HoldersPerManager, ManagersFinite

LEMMA AskingFinite ==
  ASSUME FewManagers
  PROVE  Shapes /\ LockHeld =>
           /\ IsFiniteSet(Asking) /\ Cardinality(Asking) <= Cardinality(Askers)
           /\ Cardinality(Asking) \in Nat
<1> SUFFICES ASSUME Shapes, LockHeld
             PROVE  /\ IsFiniteSet(Asking)
                    /\ Cardinality(Asking) <= Cardinality(Askers)
                    /\ Cardinality(Asking) \in Nat
  OBVIOUS
<1>1. \A a \in Asking : ManagerOf[a] \in Askers /\ lock[ManagerOf[a]] = a
  BY DEF Asking, Askers, Shapes, ShapeOf, LockHeld, Holds, Locking, Inserting
<1>2. QED
  BY <1>1, HoldersPerManager, ManagersFinite

\* What opening and closing sessions does to them.
LEMMA OpensSessions ==
  ASSUME TypeOK, NEW a \in Actors, NEW s \in Session, Opens(a, s)
  PROVE  /\ UNCHANGED <<tasks, nextId, job>> /\ session[a].op = "none"
         /\ \A b \in Actors : session'[b] = IF b = a THEN s ELSE session[b]
  BY DEF Opens, Open, TypeOK

LEMMA ClosesSessions ==
  ASSUME TypeOK, NEW a \in Actors, Close(a)
  PROVE  \A b \in Actors : session'[b] = IF b = a THEN NoSession ELSE session[b]
  BY DEF Close, TypeOK

-----------------------------------------------------------------------------
(***************************************************************************)
(* The running tasks.                                                      *)
(***************************************************************************)
\* The rows that run and the starts that have been decided.  The sum, and not
\* the number of rows alone, is what a check of get_next_task bounds: when a
\* start is decided, fewer than the limit run and each manager has one start
\* decided at most.
StartInv ==
  Cardinality(Having("RUNNING")) + Cardinality(Starting)
    < MaxConcurrent + Cardinality(Starters)

LEMMA StartFewer ==
  ASSUME FewManagers, Shapes, LockHeld, StartInv,
         Having("RUNNING")' \subseteq Having("RUNNING"), Starting' \subseteq Starting
  PROVE  StartInv'
<1>1. /\ Cardinality(Having("RUNNING")') <= Cardinality(Having("RUNNING"))
      /\ Cardinality(Having("RUNNING")') \in Nat
      /\ Cardinality(Having("RUNNING")) \in Nat
  BY TasksFinite, FS_Subset, FS_CardinalityType
<1>2. /\ Cardinality(Starting') <= Cardinality(Starting)
      /\ Cardinality(Starting') \in Nat /\ Cardinality(Starting) \in Nat
  BY StartingFinite, FS_Subset, FS_CardinalityType
<1>3. MaxConcurrent \in Nat /\ Cardinality(Starters) \in Nat
  BY LimitsAssumption, ManagersFinite
<1>4. QED
  BY <1>1, <1>2, <1>3 DEF StartInv

LEMMA StartOpens ==
  ASSUME FewManagers, TypeOK, Shapes, LockHeld, Shapes', LockHeld', StartInv,
         NEW a \in Actors, NEW s \in Session, Opens(a, s)
  PROVE  StartInv'
<1>1. Having("RUNNING")' = Having("RUNNING")
  BY OpensSessions DEF Having
<1>2. CASE s.op # "get_next_task"
  BY <1>1, <1>2, OpensSessions, StartFewer DEF Starting
<1>3. CASE s.op = "get_next_task"
  <2>1. Cardinality(Having("RUNNING")) < MaxConcurrent
    BY <1>3 DEF Opens, Opening, WorkerOpening, RequestOps, Locking, LockFree
  <2>2. (Shapes /\ LockHeld => /\ Cardinality(Starting) <= Cardinality(Starters)
                               /\ Cardinality(Starting) \in Nat)'
    BY StartingFinite, PTL
  <2>3. /\ Cardinality(Having("RUNNING")) \in Nat /\ MaxConcurrent \in Nat
        /\ Cardinality(Starters) \in Nat
    BY TasksFinite, LimitsAssumption, ManagersFinite
  <2>4. QED
    BY <1>1, <2>1, <2>2, <2>3 DEF StartInv
<1>4. QED
  BY <1>2, <1>3

\* A start that was decided becomes a row that runs.
LEMMA StartCommits ==
  ASSUME FewManagers, TypeOK, Shapes, LockHeld, StartInv, NEW a \in Actors, Commit(a)
  PROVE  StartInv'
<1>1. Starting' \subseteq Starting \ {a}
  BY CommitSessions DEF Starting
<1>2. CASE ~CommitStart(a)
  BY <1>1, <1>2, CommitRuns, StartFewer
<1>3. CASE CommitStart(a)
  <2>1. PICK x \in TaskIds :
          \A t \in TaskIds : t # x => tasks'[t].status = tasks[t].status
    BY <1>3, CommitStarts
  <2>2. Having("RUNNING")' \subseteq Having("RUNNING") \cup {x}
    BY <2>1 DEF Having
  <2>3. /\ Cardinality(Having("RUNNING")') <= Cardinality(Having("RUNNING")) + 1
        /\ Cardinality(Having("RUNNING")') \in Nat
        /\ Cardinality(Having("RUNNING")) \in Nat
    BY <2>2, OneMoreOf, TasksFinite, FS_AddElement, FS_Subset, FS_CardinalityType
  <2>4. a \in Starting
    BY <1>3 DEF CommitStart, Starting
  <2>5. /\ IsFiniteSet(Starting \ {a})
        /\ Cardinality(Starting \ {a}) = Cardinality(Starting) - 1
        /\ Cardinality(Starting) \in Nat
    BY <2>4, StartingFinite, FS_RemoveElement
  <2>6. /\ Cardinality(Starting') <= Cardinality(Starting) - 1
        /\ Cardinality(Starting') \in Nat
    BY <1>1, <2>5, FS_Subset, FS_CardinalityType
  <2>7. MaxConcurrent \in Nat /\ Cardinality(Starters) \in Nat
    BY LimitsAssumption, ManagersFinite
  <2>8. QED
    BY <2>3, <2>5, <2>6, <2>7 DEF StartInv
<1>4. QED
  BY <1>2, <1>3

LEMMA StartInvariant ==
  ASSUME FewManagers
  PROVE  Spec => [](TypeOK /\ Shapes /\ LockHeld /\ StartInv)
<1>1. Init => StartInv
  <2> SUFFICES ASSUME Init PROVE StartInv
    OBVIOUS
  <2>1. Having("RUNNING") = {} /\ Starting = {}
    BY DEF Init, Having, NoRow, Absent, Starting, NoSession
  <2>2. QED
    BY <2>1, FS_EmptySet, LimitsAssumption, ManagersFinite DEF StartInv
<1>2. TypeOK /\ Shapes /\ LockHeld /\ StartInv /\ Shapes' /\ LockHeld' /\ [Next]_vars
      => StartInv'
  <2> SUFFICES ASSUME TypeOK, Shapes, LockHeld, StartInv, Shapes', LockHeld', [Next]_vars
               PROVE  StartInv'
    OBVIOUS
  <2>1. CASE UNCHANGED <<tasks, session>>
    BY <2>1, StartFewer DEF Having, Starting
  <2>2. ASSUME NEW w \in Workers, Crashes(w) PROVE StartInv'
    <3>1. Having("RUNNING")' = Having("RUNNING")
      BY <2>2 DEF Crashes, Having
    <3>2. Starting' \subseteq Starting
      BY <2>2, ClosesSessions DEF Crashes, Starting, NoSession, Actors
    <3>3. QED
      BY <3>1, <3>2, StartFewer
  <2>3. CASE Deletes
    BY <2>3, DeleteQuiet, StartFewer DEF Deletes, Starting
  <2>4. QED
    BY <2>1, <2>2, <2>3, StepKinds, StartOpens, StartCommits DEF Jobs, vars
<1>3. TypeOK /\ Shapes /\ [Next]_vars => Shapes'
  BY NextShapes
<1>4. TypeOK /\ Shapes /\ LockHeld /\ [Next]_vars => LockHeld'
  BY NextLock
<1>5. Init => LockHeld
  BY InitLock
<1>6. QED
  BY <1>1, <1>2, <1>3, <1>4, <1>5, InitShapes, TypeCorrect, PTL DEF Spec

\* However many managers start tasks, one more than the limit may run for each
\* of them but the first: with every method, retries, crashes and failing
\* commits.
THEOREM RunningBoundedPerManager ==
  ASSUME FewManagers
  PROVE  Spec => []RunningPerManager
<1>1. Shapes /\ LockHeld /\ StartInv => RunningPerManager
  <2> SUFFICES ASSUME Shapes, LockHeld, StartInv PROVE RunningPerManager
    OBVIOUS
  <2>1. Cardinality(Starting) \in Nat /\ Cardinality(Having("RUNNING")) \in Nat
    BY StartingFinite, TasksFinite
  <2>2. MaxConcurrent \in Nat /\ Cardinality(Starters) \in Nat
    BY LimitsAssumption, ManagersFinite
  <2>3. QED
    BY <2>1, <2>2 DEF StartInv, RunningPerManager
<1>2. Spec => [](TypeOK /\ Shapes /\ LockHeld /\ StartInv)
  BY StartInvariant
<1>3. QED
  BY <1>1, <1>2, PTL

-----------------------------------------------------------------------------
(***************************************************************************)
(* The queued tasks.                                                       *)
(***************************************************************************)
NoRequeue == "requeue_failed_task" \notin Methods

\* The rows that are queued and the inserts that have been decided.
QueueInv ==
  /\ Cardinality(Having("QUEUED")) + Cardinality(Asking)
       < QueueLimit + Cardinality(Askers)
  /\ \A a \in Actors : session[a].op # "requeue_failed_task"

LEMMA QueueFewer ==
  ASSUME FewManagers, Shapes, LockHeld, QueueInv,
         Having("QUEUED")' \subseteq Having("QUEUED"), Asking' \subseteq Asking,
         \A a \in Actors : session'[a].op # "requeue_failed_task"
  PROVE  QueueInv'
<1>1. /\ Cardinality(Having("QUEUED")') <= Cardinality(Having("QUEUED"))
      /\ Cardinality(Having("QUEUED")') \in Nat
      /\ Cardinality(Having("QUEUED")) \in Nat
  BY TasksFinite, FS_Subset, FS_CardinalityType
<1>2. /\ Cardinality(Asking') <= Cardinality(Asking)
      /\ Cardinality(Asking') \in Nat /\ Cardinality(Asking) \in Nat
  BY AskingFinite, FS_Subset, FS_CardinalityType
<1>3. QueueLimit \in Nat /\ Cardinality(Askers) \in Nat
  BY LimitsAssumption, ManagersFinite
<1>4. QED
  BY <1>1, <1>2, <1>3 DEF QueueInv

LEMMA QueueOpens ==
  ASSUME FewManagers, NoRequeue, TypeOK, Shapes, LockHeld, Shapes', LockHeld', QueueInv,
         NEW a \in Actors, NEW s \in Session, Opens(a, s)
  PROVE  QueueInv'
<1>1. Having("QUEUED")' = Having("QUEUED")
  BY OpensSessions DEF Having
<1>2. \A b \in Actors : session'[b].op # "requeue_failed_task"
  BY OpensSessions DEF QueueInv, NoRequeue, Opens, Open
<1>3. CASE s.op # "enqueue_task"
  BY <1>1, <1>2, <1>3, OpensSessions, QueueFewer DEF Asking
<1>4. CASE s.op = "enqueue_task"
  <2>1. Cardinality(Having("QUEUED")) < QueueLimit
    BY <1>4 DEF Opens, Opening, WorkerOpening
  <2>2. (Shapes /\ LockHeld => /\ Cardinality(Asking) <= Cardinality(Askers)
                               /\ Cardinality(Asking) \in Nat)'
    BY AskingFinite, PTL
  <2>3. /\ Cardinality(Having("QUEUED")) \in Nat /\ QueueLimit \in Nat
        /\ Cardinality(Askers) \in Nat
    BY TasksFinite, LimitsAssumption, ManagersFinite
  <2>4. QED
    BY <1>1, <1>2, <2>1, <2>2, <2>3 DEF QueueInv
<1>5. QED
  BY <1>3, <1>4

\* An insert that was decided becomes a row that is queued.
LEMMA QueueCommits ==
  ASSUME FewManagers, TypeOK, Shapes, LockHeld, NoRetrySessions, QueueInv,
         NEW a \in Actors, Commit(a)
  PROVE  QueueInv'
<1>1. /\ Asking' \subseteq Asking \ {a}
      /\ \A b \in Actors : session'[b].op # "requeue_failed_task"
  BY CommitSessions DEF Asking, QueueInv
<1>2. CASE ~CommitInsert(a)
  <2>1. Having("QUEUED")' \subseteq Having("QUEUED")
    <3>1. CASE CommitStart(a)
      BY <3>1, CommitStarts DEF Having
    <3>2. CASE ~CommitStart(a)
      BY <1>2, <3>2, CommitQuiet DEF Having, Quiet, NoRetrySessions, Active
    <3>3. QED
      BY <3>1, <3>2
  <2>2. QED
    BY <1>1, <2>1, QueueFewer
<1>3. CASE CommitInsert(a)
  <2>1. Having("QUEUED")' \subseteq Having("QUEUED") \cup {nextId} /\ nextId \in TaskIds
    BY <1>3 DEF CommitInsert, Having, TypeOK, TaskIds
  <2>2. /\ Cardinality(Having("QUEUED")') <= Cardinality(Having("QUEUED")) + 1
        /\ Cardinality(Having("QUEUED")') \in Nat
        /\ Cardinality(Having("QUEUED")) \in Nat
    BY <2>1, OneMoreOf, TasksFinite, FS_AddElement, FS_Subset, FS_CardinalityType
  <2>3. a \in Asking
    BY <1>3 DEF CommitInsert, Asking, Inserting, QueueInv
  <2>4. /\ IsFiniteSet(Asking \ {a})
        /\ Cardinality(Asking \ {a}) = Cardinality(Asking) - 1
        /\ Cardinality(Asking) \in Nat
    BY <2>3, AskingFinite, FS_RemoveElement
  <2>5. /\ Cardinality(Asking') <= Cardinality(Asking) - 1
        /\ Cardinality(Asking') \in Nat
    BY <1>1, <2>4, FS_Subset, FS_CardinalityType
  <2>6. QueueLimit \in Nat /\ Cardinality(Askers) \in Nat
    BY LimitsAssumption, ManagersFinite
  <2>7. QED
    BY <1>1, <2>2, <2>4, <2>5, <2>6 DEF QueueInv
<1>4. QED
  BY <1>2, <1>3

LEMMA QueueInvariant ==
  ASSUME FewManagers, NoRetry, NoRequeue
  PROVE  Spec => []QueueInv
<1>1. Init => QueueInv
  <2> SUFFICES ASSUME Init PROVE QueueInv
    OBVIOUS
  <2>1. Having("QUEUED") = {} /\ Asking = {} /\ \A a \in Actors : session[a].op = "none"
    BY DEF Init, Having, NoRow, Absent, Asking, NoSession
  <2>2. QueueLimit \in Nat \ {0} /\ Cardinality(Askers) \in Nat
    BY LimitsAssumption, ManagersFinite
  <2>3. Cardinality(Having("QUEUED")) = 0 /\ Cardinality(Asking) = 0
    BY <2>1, FS_EmptySet
  <2>4. QED
    BY <2>1, <2>2, <2>3 DEF QueueInv
<1>2. (TypeOK /\ Shapes /\ LockHeld /\ NoRetrySessions /\ Shapes' /\ LockHeld'
       /\ QueueInv /\ [Next]_vars) => QueueInv'
  <2> SUFFICES ASSUME TypeOK, Shapes, LockHeld, NoRetrySessions, Shapes', LockHeld',
                      QueueInv, [Next]_vars
               PROVE  QueueInv'
    OBVIOUS
  <2>1. CASE UNCHANGED <<tasks, session>>
    BY <2>1, QueueFewer DEF Having, Asking, QueueInv
  <2>2. ASSUME NEW w \in Workers, Crashes(w) PROVE QueueInv'
    <3>1. Having("QUEUED")' = Having("QUEUED")
      BY <2>2 DEF Crashes, Having
    <3>2. /\ Asking' \subseteq Asking
          /\ \A b \in Actors : session'[b].op # "requeue_failed_task"
      BY <2>2, ClosesSessions DEF Crashes, Asking, NoSession, Actors, QueueInv
    <3>3. QED
      BY <3>1, <3>2, QueueFewer
  <2>3. CASE Deletes
    BY <2>3, DeleteQuiet, QueueFewer DEF Deletes, Asking, QueueInv
  <2>4. QED
    BY <2>1, <2>2, <2>3, StepKinds, QueueOpens, QueueCommits DEF Jobs, vars
<1>3. Spec => [](TypeOK /\ Shapes /\ LockHeld /\ NoRetrySessions)
  BY Grounds
<1>4. QED
  BY <1>1, <1>2, <1>3, PTL DEF Spec

\* However many managers take requests, one more than the limit may be queued
\* for each of them but the first, if requeue_failed_task and
\* retry_failed_task, which do not look at the limit, are not called.
THEOREM QueueBoundedPerManager ==
  ASSUME FewManagers, NoRetry, NoRequeue
  PROVE  Spec => []QueuedPerManager
<1>1. Shapes /\ LockHeld /\ QueueInv => QueuedPerManager
  <2> SUFFICES ASSUME Shapes, LockHeld, QueueInv PROVE QueuedPerManager
    OBVIOUS
  <2>1. Cardinality(Asking) \in Nat /\ Cardinality(Having("QUEUED")) \in Nat
    BY AskingFinite, TasksFinite
  <2>2. QueueLimit \in Nat /\ Cardinality(Askers) \in Nat
    BY LimitsAssumption, ManagersFinite
  <2>3. QED
    BY <2>1, <2>2 DEF QueueInv, QueuedPerManager
<1>2. Spec => []QueueInv
  BY QueueInvariant
<1>3. Spec => [](TypeOK /\ Shapes /\ LockHeld /\ NoRetrySessions)
  BY Grounds
<1>4. QED
  BY <1>1, <1>2, <1>3, PTL

-----------------------------------------------------------------------------
(***************************************************************************)
(* The active tasks of a user.                                             *)
(***************************************************************************)
\* The rows of u that are active, or that an open get_next_task makes so.
Claims(u) ==
  {t \in TaskIds :
     /\ tasks[t].user = u /\ tasks[t].status # Absent
     /\ \/ tasks[t].status \in Active
        \/ \E a \in Starting : t \in session[a].rows}

\* The inserts that have been decided for u.
AskingFor(u) ==
  {a \in Actors : session[a].op \in Inserting /\ session[a].user = u}

\* When an insert is decided no row of u is active: every claim is then some
\* get_next_task's, which holds a manager's lock as every insert does.
ClaimInv ==
  \A u \in Users \cup {Nobody} :
    Cardinality(Claims(u)) + Cardinality(AskingFor(u))
      <= Cardinality(Askers \cup Starters)

LEMMA ClaimsFinite ==
  \A u : IsFiniteSet(Claims(u)) /\ Cardinality(Claims(u)) \in Nat
<1>1. \A u : Claims(u) \subseteq TaskIds
  BY DEF Claims
<1>2. QED
  BY <1>1, TasksFinite, FS_Subset, FS_CardinalityType

LEMMA AskingForFinite ==
  ASSUME FewManagers
  PROVE  Shapes /\ LockHeld =>
           \A u : IsFiniteSet(AskingFor(u)) /\ Cardinality(AskingFor(u)) \in Nat
<1> SUFFICES ASSUME Shapes, LockHeld, NEW u
             PROVE  IsFiniteSet(AskingFor(u)) /\ Cardinality(AskingFor(u)) \in Nat
  OBVIOUS
<1>1. \A a \in AskingFor(u) : ManagerOf[a] \in Askers /\ lock[ManagerOf[a]] = a
  BY DEF AskingFor, Askers, Shapes, ShapeOf, LockHeld, Holds, Locking, Inserting
<1>2. QED
  BY <1>1, HoldersPerManager, ManagersFinite

LEMMA ClaimFewer ==
  ASSUME FewManagers, Shapes, LockHeld, ClaimInv, NEW u \in Users \cup {Nobody},
         Claims(u)' \subseteq Claims(u), AskingFor(u)' \subseteq AskingFor(u)
  PROVE  Cardinality(Claims(u)') + Cardinality(AskingFor(u)')
           <= Cardinality(Askers \cup Starters)
<1>1. /\ Cardinality(Claims(u)') <= Cardinality(Claims(u))
      /\ Cardinality(Claims(u)') \in Nat /\ Cardinality(Claims(u)) \in Nat
  BY ClaimsFinite, FS_Subset, FS_CardinalityType
<1>2. /\ Cardinality(AskingFor(u)') <= Cardinality(AskingFor(u))
      /\ Cardinality(AskingFor(u)') \in Nat /\ Cardinality(AskingFor(u)) \in Nat
  BY AskingForFinite, FS_Subset, FS_CardinalityType
<1>3. /\ Cardinality(Askers \cup Starters) \in Nat
      /\ Cardinality(Claims(u)) + Cardinality(AskingFor(u))
           <= Cardinality(Askers \cup Starters)
  BY ManagersFinite DEF ClaimInv
<1>4. QED
  BY <1>1, <1>2, <1>3

\* The count, at the moment the check of an insert for u finds no active row.
LEMMA ClaimsWhenIdle ==
  ASSUME FewManagers, NEW u
  PROVE  TypeOK /\ Shapes /\ LockHeld /\ ActiveOf(u) = {} =>
           Cardinality(Claims(u)) + Cardinality(AskingFor(u))
             <= Cardinality(Askers \cup Starters)
<1> SUFFICES ASSUME TypeOK, Shapes, LockHeld, ActiveOf(u) = {}
             PROVE  Cardinality(Claims(u)) + Cardinality(AskingFor(u))
                      <= Cardinality(Askers \cup Starters)
  OBVIOUS
<1> DEFINE S == {a \in Starting : \E t \in Claims(u) : session[a].rows = {t}}
           f == [a \in S |-> CHOOSE t \in Claims(u) : session[a].rows = {t}]
<1>1. \A t \in Claims(u) : \E a \in S : session[a].rows = {t}
  <2> SUFFICES ASSUME NEW t \in Claims(u) PROVE \E a \in S : session[a].rows = {t}
    OBVIOUS
  <2>1. PICK a \in Starting : t \in session[a].rows
    BY DEF Claims, ActiveOf
  <2>2. session[a].rows = {t}
    BY <2>1 DEF Starting, Shapes, ShapeOf
  <2>3. QED
    BY <2>1, <2>2
<1>2. \A a \in S : f[a] \in Claims(u) /\ session[a].rows = {f[a]}
  OBVIOUS
<1> HIDE DEF f
<1>3. f \in Surjection(S, Claims(u))
  <2>1. f \in [S -> Claims(u)]
    <3>1. f = [a \in S |-> f[a]]
      BY DEF f
    <3>2. QED
      BY <1>2, <3>1
  <2>2. ASSUME NEW t \in Claims(u) PROVE \E a \in S : f[a] = t
    <3>1. PICK a \in S : session[a].rows = {t}
      BY <1>1
    <3>2. {f[a]} = {t}
      BY <1>2, <3>1
    <3>3. QED
      BY <3>2
  <2>3. QED
    BY <2>1, <2>2 DEF Surjection
<1>4. \A a \in S \cup AskingFor(u) :
        ManagerOf[a] \in Askers \cup Starters /\ lock[ManagerOf[a]] = a
  BY DEF Starting, AskingFor, Askers, Starters, Shapes, ShapeOf, LockHeld, Holds,
         Locking, Inserting
<1>5. S \cap AskingFor(u) = {}
  BY DEF Starting, AskingFor, Inserting
<1> HIDE DEF S
<1>6. /\ IsFiniteSet(S \cup AskingFor(u))
      /\ Cardinality(S \cup AskingFor(u)) <= Cardinality(Askers \cup Starters)
      /\ Cardinality(Askers \cup Starters) \in Nat
  BY <1>4, HoldersPerManager, ManagersFinite
<1>7. /\ IsFiniteSet(S) /\ IsFiniteSet(AskingFor(u))
      /\ Cardinality(S) \in Nat /\ Cardinality(AskingFor(u)) \in Nat
  BY <1>6, FS_Subset, FS_CardinalityType
<1>8. Cardinality(S \cup AskingFor(u)) = Cardinality(S) + Cardinality(AskingFor(u))
  BY <1>5, <1>7, FS_Union, FS_EmptySet
<1>9. Cardinality(Claims(u)) <= Cardinality(S) /\ Cardinality(Claims(u)) \in Nat
  BY <1>3, <1>7, FS_Surjection, ClaimsFinite
<1>10. QED
  BY <1>6, <1>7, <1>8, <1>9

LEMMA ClaimOpens ==
  ASSUME FewManagers, TypeOK, Shapes, LockHeld, TypeOK', Shapes', LockHeld', ClaimInv,
         NEW a \in Actors, NEW s \in Session, Opens(a, s)
  PROVE  ClaimInv'
<1> SUFFICES ASSUME NEW u \in Users \cup {Nobody}
             PROVE  Cardinality(Claims(u)') + Cardinality(AskingFor(u)')
                      <= Cardinality(Askers \cup Starters)
  BY DEF ClaimInv
<1>1. CASE s.op \in Inserting /\ s.user = u
  <2>1. ActiveOf(u)' = {}
    BY <1>1, OpensSessions DEF Opens, Opening, WorkerOpening, Inserting, ActiveOf
  <2>2. (TypeOK /\ Shapes /\ LockHeld /\ ActiveOf(u) = {} =>
           Cardinality(Claims(u)) + Cardinality(AskingFor(u))
             <= Cardinality(Askers \cup Starters))'
    BY ClaimsWhenIdle, PTL
  <2>3. QED
    BY <2>1, <2>2
<1>2. CASE ~(s.op \in Inserting /\ s.user = u)
  <2>1. AskingFor(u)' \subseteq AskingFor(u)
    BY <1>2, OpensSessions DEF AskingFor
  <2>2. Claims(u)' \subseteq Claims(u)
    <3>1. s.op = "get_next_task" => \A t \in s.rows : tasks[t].status \in Active
      BY DEF Opens, Opening, WorkerOpening, RequestOps, Locking, LockFree, Having, Active
    <3>2. QED
      BY <3>1, OpensSessions DEF Claims, Starting
  <2>3. QED
    BY <2>1, <2>2, ClaimFewer
<1>3. QED
  BY <1>1, <1>2

\* A step that makes no row active and closes at most a session.
LEMMA ClaimQuiet ==
  ASSUME FewManagers, Shapes, LockHeld, ClaimInv, Quiet,
         \A b \in Actors : session'[b] \in {session[b], NoSession}
  PROVE  ClaimInv'
<1> SUFFICES ASSUME NEW u \in Users \cup {Nobody}
             PROVE  Cardinality(Claims(u)') + Cardinality(AskingFor(u)')
                      <= Cardinality(Askers \cup Starters)
  BY DEF ClaimInv
<1>1. AskingFor(u)' \subseteq AskingFor(u)
  BY DEF AskingFor, NoSession, Inserting
<1>2. \A b \in Starting' : b \in Starting /\ session'[b] = session[b]
  BY DEF Starting, NoSession
<1>3. Claims(u)' \subseteq Claims(u)
  <2> SUFFICES ASSUME NEW t \in Claims(u)' PROVE t \in Claims(u)
    OBVIOUS
  <2>1. /\ t \in TaskIds /\ tasks'[t].user = u /\ tasks'[t].status # Absent
        /\ tasks'[t].status \in Active \/ \E b \in Starting' : t \in session'[b].rows
    BY DEF Claims
  <2>2. tasks[t].status # Absent /\ tasks[t].user = u
    BY <2>1 DEF Quiet
  <2>3. tasks'[t].status \in Active => tasks[t].status \in Active
    BY <2>1 DEF Quiet
  <2>4. QED
    BY <1>2, <2>1, <2>2, <2>3 DEF Claims
<1>4. QED
  BY <1>1, <1>3, ClaimFewer

\* An insert turns a decision into a claim; a start was a claim before.
LEMMA ClaimCommits ==
  ASSUME FewManagers, TypeOK, Shapes, LockHeld, NoRetrySessions, ClaimInv,
         NEW a \in Actors, Commit(a)
  PROVE  ClaimInv'
<1>1. \A b \in Actors : session'[b] = IF b = a THEN NoSession ELSE session[b]
  BY CommitCloses, ClosesSessions
<1>2. CASE ~CommitInsert(a) /\ ~CommitStart(a)
  BY <1>1, <1>2, CommitQuiet, ClaimQuiet DEF NoRetrySessions
<1> SUFFICES ASSUME CommitInsert(a) \/ CommitStart(a), NEW u \in Users \cup {Nobody}
             PROVE  Cardinality(Claims(u)') + Cardinality(AskingFor(u)')
                      <= Cardinality(Askers \cup Starters)
  BY <1>2 DEF ClaimInv
<1>3. AskingFor(u)' \subseteq AskingFor(u)
  BY <1>1 DEF AskingFor, NoSession, Inserting
<1>4. \A b \in Starting' : b \in Starting /\ session'[b] = session[b]
  BY <1>1 DEF Starting, NoSession
<1>5. CASE CommitStart(a)
  <2>1. PICK x \in TaskIds :
          /\ session[a].rows = {x} /\ tasks[x].status # Absent
          /\ \A t \in TaskIds : tasks'[t].user = tasks[t].user
          /\ \A t \in TaskIds : t # x => tasks'[t].status = tasks[t].status
    BY <1>5, CommitStarts
  <2>2. a \in Starting
    BY <1>5 DEF CommitStart, Starting
  <2>3. Claims(u)' \subseteq Claims(u)
    BY <1>4, <2>1, <2>2 DEF Claims
  <2>4. QED
    BY <1>3, <2>3, ClaimFewer
<1>6. CASE CommitInsert(a)
  <2>1. /\ nextId \in TaskIds /\ tasks'[nextId].user = session[a].user
        /\ \A t \in TaskIds : t # nextId => tasks'[t] = tasks[t]
    BY <1>6 DEF CommitInsert, TypeOK, TaskIds
  <2>2. CASE session[a].user # u
    <3>1. Claims(u)' \subseteq Claims(u)
      BY <1>4, <2>1, <2>2 DEF Claims
    <3>2. QED
      BY <1>3, <3>1, ClaimFewer
  <2>3. CASE session[a].user = u
    <3>1. Claims(u)' \subseteq Claims(u) \cup {nextId}
      BY <1>4, <2>1 DEF Claims
    <3>2. /\ Cardinality(Claims(u)') <= Cardinality(Claims(u)) + 1
          /\ Cardinality(Claims(u)') \in Nat /\ Cardinality(Claims(u)) \in Nat
      <4>1. /\ IsFiniteSet(Claims(u) \cup {nextId})
            /\ Cardinality(Claims(u) \cup {nextId}) <= Cardinality(Claims(u)) + 1
            /\ Cardinality(Claims(u) \cup {nextId}) \in Nat
            /\ Cardinality(Claims(u)) \in Nat
        <5>1. /\ IsFiniteSet(Claims(u) \cup {nextId})
              /\ \/ Cardinality(Claims(u) \cup {nextId}) = Cardinality(Claims(u))
                 \/ Cardinality(Claims(u) \cup {nextId}) = Cardinality(Claims(u)) + 1
          BY ClaimsFinite, FS_AddElement
        <5>2. Cardinality(Claims(u)) \in Nat
          BY ClaimsFinite
        <5>3. QED
          BY <5>1, <5>2
      <4>2. /\ Cardinality(Claims(u)') <= Cardinality(Claims(u) \cup {nextId})
            /\ Cardinality(Claims(u)') \in Nat
        BY <3>1, <4>1, FS_Subset, FS_CardinalityType
      <4>3. QED
        BY <4>1, <4>2
    <3>3. AskingFor(u)' \subseteq AskingFor(u) \ {a} /\ a \in AskingFor(u)
      BY <1>1, <1>6, <2>3 DEF CommitInsert, AskingFor, NoSession, Inserting
    <3>4. /\ IsFiniteSet(AskingFor(u) \ {a})
          /\ Cardinality(AskingFor(u) \ {a}) = Cardinality(AskingFor(u)) - 1
          /\ Cardinality(AskingFor(u)) \in Nat
      BY <3>3, AskingForFinite, FS_RemoveElement
    <3>5. /\ Cardinality(AskingFor(u)') <= Cardinality(AskingFor(u)) - 1
          /\ Cardinality(AskingFor(u)') \in Nat
      BY <3>3, <3>4, FS_Subset, FS_CardinalityType
    <3>6. /\ Cardinality(Askers \cup Starters) \in Nat
          /\ Cardinality(Claims(u)) + Cardinality(AskingFor(u))
               <= Cardinality(Askers \cup Starters)
      BY ManagersFinite DEF ClaimInv
    <3>7. QED
      BY <3>2, <3>4, <3>5, <3>6
  <2>4. QED
    BY <2>2, <2>3
<1>7. QED
  BY <1>5, <1>6

LEMMA ClaimInvariant ==
  ASSUME FewManagers, NoRetry
  PROVE  Spec => []ClaimInv
<1>1. Init => ClaimInv
  <2> SUFFICES ASSUME Init, NEW u \in Users \cup {Nobody}
               PROVE  Cardinality(Claims(u)) + Cardinality(AskingFor(u))
                        <= Cardinality(Askers \cup Starters)
    BY DEF ClaimInv
  <2>1. Claims(u) = {} /\ AskingFor(u) = {}
    BY DEF Init, Claims, AskingFor, NoRow, NoSession, Inserting
  <2>2. QED
    BY <2>1, FS_EmptySet, ManagersFinite
<1>2. (TypeOK /\ Shapes /\ LockHeld /\ NoRetrySessions /\ TypeOK' /\ Shapes' /\ LockHeld'
       /\ ClaimInv /\ [Next]_vars) => ClaimInv'
  <2> SUFFICES ASSUME TypeOK, Shapes, LockHeld, NoRetrySessions,
                      TypeOK', Shapes', LockHeld', ClaimInv, [Next]_vars
               PROVE  ClaimInv'
    OBVIOUS
  <2>1. CASE UNCHANGED <<tasks, session>>
    BY <2>1, ClaimQuiet DEF Quiet
  <2>2. ASSUME NEW w \in Workers, Crashes(w) PROVE ClaimInv'
    BY <2>2, ClosesSessions, ClaimQuiet DEF Crashes, Quiet, Actors
  <2>3. CASE Deletes
    BY <2>3, DeleteQuiet, ClaimQuiet DEF Deletes
  <2>4. QED
    BY <2>1, <2>2, <2>3, StepKinds, ClaimOpens, ClaimCommits DEF Jobs, vars
<1>3. Spec => [](TypeOK /\ Shapes /\ LockHeld /\ NoRetrySessions)
  BY Grounds
<1>4. QED
  BY <1>1, <1>2, <1>3, PTL DEF Spec

\* However many managers there are, a user gets no more active tasks than
\* that: with every method but retry_failed_task, crashes and failing commits.
THEOREM ActiveBoundedPerManager ==
  ASSUME FewManagers, NoRetry
  PROVE  Spec => []ActivePerManager
<1>1. Shapes /\ LockHeld /\ ClaimInv => ActivePerManager
  <2> SUFFICES ASSUME Shapes, LockHeld, ClaimInv, NEW u \in Users
               PROVE  Cardinality(ActiveOf(u)) <= Cardinality(Askers \cup Starters)
    BY DEF ActivePerManager
  <2>1. ActiveOf(u) \subseteq Claims(u)
    BY DEF ActiveOf, Claims, Active, Absent
  <2>2. /\ Cardinality(ActiveOf(u)) <= Cardinality(Claims(u))
        /\ Cardinality(ActiveOf(u)) \in Nat /\ Cardinality(Claims(u)) \in Nat
    BY <2>1, ClaimsFinite, FS_Subset, FS_CardinalityType
  <2>3. Cardinality(AskingFor(u)) \in Nat /\ Cardinality(Askers \cup Starters) \in Nat
    BY AskingForFinite, ManagersFinite
  <2>4. QED
    BY <2>2, <2>3 DEF ClaimInv
<1>2. Spec => []ClaimInv
  BY ClaimInvariant
<1>3. Spec => [](TypeOK /\ Shapes /\ LockHeld /\ NoRetrySessions)
  BY Grounds
<1>4. QED
  BY <1>1, <1>2, <1>3, PTL

-----------------------------------------------------------------------------
(***************************************************************************)
(* The workers at a task.                                                  *)
(***************************************************************************)
\* Rows beyond nextId were never inserted, and no worker has one.
Unborn ==
  /\ \A t \in TaskIds : t >= nextId => tasks[t].status = Absent
  /\ \A w \in Workers, t \in TaskIds : t >= nextId => job[w] # t

\* Who has the task, or is about to be handed it.
Hands(t) ==
  {w \in Workers : job[w] = t} \cup {a \in Starting : t \in session[a].rows}

\* A row that is queued is in nobody's hands: whoever is about to get it holds
\* a lock, and once one of them has it nobody else selects it.
HandsInv ==
  /\ Unborn
  /\ \A w \in Workers, t \in TaskIds : tasks[t].status = "QUEUED" => job[w] # t
  /\ \A t \in TaskIds :
       IsFiniteSet(Hands(t)) /\ Cardinality(Hands(t)) <= Cardinality(Starters)

LEMMA HandsFewer ==
  ASSUME FewManagers, HandsInv, NEW t \in TaskIds, Hands(t)' \subseteq Hands(t)
  PROVE  IsFiniteSet(Hands(t)') /\ Cardinality(Hands(t)') <= Cardinality(Starters)
<1>1. IsFiniteSet(Hands(t)) /\ Cardinality(Hands(t)) <= Cardinality(Starters)
  BY DEF HandsInv
<1>2. /\ IsFiniteSet(Hands(t)') /\ Cardinality(Hands(t)') <= Cardinality(Hands(t))
      /\ Cardinality(Hands(t)') \in Nat /\ Cardinality(Hands(t)) \in Nat
  BY <1>1, FS_Subset, FS_CardinalityType
<1>3. Cardinality(Starters) \in Nat
  BY ManagersFinite
<1>4. QED
  BY <1>1, <1>2, <1>3

\* The count for a task that no worker has: all its hands are decided starts.
LEMMA HandsWhenQueued ==
  ASSUME FewManagers, NEW t
  PROVE  Shapes /\ LockHeld /\ (\A w \in Workers : job[w] # t) =>
           IsFiniteSet(Hands(t)) /\ Cardinality(Hands(t)) <= Cardinality(Starters)
<1> SUFFICES ASSUME Shapes, LockHeld, \A w \in Workers : job[w] # t
             PROVE  /\ IsFiniteSet(Hands(t))
                    /\ Cardinality(Hands(t)) <= Cardinality(Starters)
  OBVIOUS
<1>1. Hands(t) \subseteq Starting
  BY DEF Hands
<1>2. \A a \in Hands(t) : ManagerOf[a] \in Starters /\ lock[ManagerOf[a]] = a
  BY <1>1 DEF Starting, Starters, Shapes, ShapeOf, LockHeld, Holds, Locking
<1>3. QED
  BY <1>2, HoldersPerManager, ManagersFinite

LEMMA HandsOpens ==
  ASSUME FewManagers, TypeOK, Shapes', LockHeld', HandsInv,
         NEW a \in Actors, NEW s \in Session, Opens(a, s)
  PROVE  HandsInv'
<1>1. /\ Unborn'
      /\ \A w \in Workers, t \in TaskIds : tasks'[t].status = "QUEUED" => job'[w] # t
  BY OpensSessions DEF HandsInv, Unborn
<1>2. ASSUME NEW t \in TaskIds
      PROVE  IsFiniteSet(Hands(t)') /\ Cardinality(Hands(t)') <= Cardinality(Starters)
  <2>1. CASE s.op = "get_next_task" /\ t \in s.rows
    <3>1. tasks[t].status = "QUEUED"
      BY <2>1 DEF Opens, Opening, RequestOps, Locking, LockFree, WorkerOpening, Having
    <3>2. (\A w \in Workers : job[w] # t)'
      BY <3>1, OpensSessions DEF HandsInv
    <3>3. (Shapes /\ LockHeld /\ (\A w \in Workers : job[w] # t) =>
             IsFiniteSet(Hands(t)) /\ Cardinality(Hands(t)) <= Cardinality(Starters))'
      BY HandsWhenQueued, PTL
    <3>4. QED
      BY <3>2, <3>3
  <2>2. CASE ~(s.op = "get_next_task" /\ t \in s.rows)
    <3>1. Hands(t)' \subseteq Hands(t)
      BY <2>2, OpensSessions DEF Hands, Starting
    <3>2. QED
      BY <3>1, HandsFewer
  <2>3. QED
    BY <2>1, <2>2
<1>3. QED
  BY <1>1, <1>2 DEF HandsInv

\* A quiet step that closes at most a session and drops at most a task.
LEMMA HandsQuiet ==
  ASSUME FewManagers, TypeOK, HandsInv, Quiet, nextId' = nextId,
         \A b \in Actors : session'[b] \in {session[b], NoSession},
         \A w \in Workers : job'[w] \in {job[w], NoTask}
  PROVE  HandsInv'
<1>1. NoTask \notin TaskIds
  BY ActorsAssumption
<1>2. Unborn'
  BY <1>1 DEF HandsInv, Unborn, Quiet
<1>3. \A w \in Workers, t \in TaskIds : tasks'[t].status = "QUEUED" => job'[w] # t
  BY <1>1 DEF HandsInv, Quiet, Active
<1>4. \A t \in TaskIds : Hands(t)' \subseteq Hands(t)
  <2>1. \A b \in Starting' : b \in Starting /\ session'[b] = session[b]
    BY DEF Starting, NoSession
  <2>2. \A w \in Workers, t \in TaskIds : job'[w] = t => job[w] = t
    BY <1>1
  <2>3. QED
    BY <2>1, <2>2 DEF Hands
<1>5. QED
  BY <1>2, <1>3, <1>4, HandsFewer DEF HandsInv

LEMMA HandsCommits ==
  ASSUME FewManagers, TypeOK, Shapes, NoRetrySessions, HandsInv,
         NEW a \in Actors, Commit(a)
  PROVE  HandsInv'
<1>0. /\ NoTask \notin TaskIds /\ nextId \in Nat /\ TaskIds \subseteq Nat
      /\ \A b \in Actors : session'[b] = IF b = a THEN NoSession ELSE session[b]
  BY ActorsAssumption, LimitsAssumption, CommitCloses, ClosesSessions DEF TypeOK, TaskIds
<1>1. \A b \in Starting' : b \in Starting /\ session'[b] = session[b]
  BY <1>0 DEF Starting, NoSession
<1>2. CASE ~CommitInsert(a) /\ ~CommitStart(a)
  <2>1. \A w \in Workers : job'[w] \in {job[w], NoTask}
    BY <1>2 DEF Commit, CommitUpdate, CommitDelete, RetryFailedTask, Rollback,
                JobAfter, TypeOK
  <2>2. Quiet /\ nextId' = nextId
    BY <1>2, CommitQuiet DEF NoRetrySessions
  <2>3. QED
    BY <1>0, <2>1, <2>2, HandsQuiet
<1>3. CASE CommitInsert(a)
  <2>1. /\ nextId \in TaskIds /\ nextId' = nextId + 1 /\ UNCHANGED job
        /\ \A t \in TaskIds : t # nextId => tasks'[t] = tasks[t]
    BY <1>3 DEF CommitInsert, TypeOK, TaskIds
  <2>2. Unborn'
    <3>1. \A t \in TaskIds : t >= nextId + 1 => t >= nextId /\ t # nextId
      <4>1. \A m, n \in Nat : m >= n + 1 => m >= n /\ m # n
        OBVIOUS
      <4>2. QED
        BY <1>0, <4>1
    <3>2. QED
      BY <2>1, <3>1 DEF HandsInv, Unborn
  <2>3. \A w \in Workers, t \in TaskIds : tasks'[t].status = "QUEUED" => job'[w] # t
    <3>1. \A w \in Workers : job[w] # nextId
      BY <1>0, <2>1 DEF HandsInv, Unborn
    <3>2. QED
      BY <2>1, <3>1 DEF HandsInv
  <2>4. \A t \in TaskIds : Hands(t)' \subseteq Hands(t)
    BY <1>1, <2>1 DEF Hands
  <2>5. QED
    BY <2>2, <2>3, <2>4, HandsFewer DEF HandsInv
<1>4. CASE CommitStart(a)
  <2>1. PICK x \in TaskIds :
          /\ session[a].rows = {x} /\ tasks[x].status # Absent
          /\ a \in Processors /\ job' = [job EXCEPT ![a] = x]
          /\ tasks'[x].status = "RUNNING" /\ nextId' = nextId
          /\ \A t \in TaskIds : t # x => tasks'[t].status = tasks[t].status
    BY <1>4, CommitStarts
  <2>2. a \in Starting /\ a \in Workers
    BY <1>4, <2>1 DEF CommitStart, Workers, Starting
  <2>3. \A w \in Workers : job'[w] = IF w = a THEN x ELSE job[w]
    BY <2>1, <2>2 DEF TypeOK
  <2>4. Unborn'
    BY <2>1, <2>3 DEF HandsInv, Unborn
  <2>5. \A w \in Workers, t \in TaskIds : tasks'[t].status = "QUEUED" => job'[w] # t
    BY <2>1, <2>3 DEF HandsInv
  <2>6. \A t \in TaskIds : Hands(t)' \subseteq Hands(t)
    BY <1>1, <2>1, <2>2, <2>3 DEF Hands
  <2>7. QED
    BY <2>4, <2>5, <2>6, HandsFewer DEF HandsInv
<1>5. QED
  BY <1>2, <1>3, <1>4

LEMMA HandsInvariant ==
  ASSUME FewManagers, NoRetry, Scripts = {}
  PROVE  Spec => []HandsInv
<1>1. Init => HandsInv
  <2> SUFFICES ASSUME Init PROVE HandsInv
    OBVIOUS
  <2>1. \A t \in TaskIds : Hands(t) = {}
    BY ActorsAssumption DEF Init, Hands, Starting, NoSession
  <2>2. \A t \in TaskIds :
          IsFiniteSet(Hands(t)) /\ Cardinality(Hands(t)) <= Cardinality(Starters)
    BY <2>1, FS_EmptySet, ManagersFinite
  <2>3. QED
    BY <2>2, ActorsAssumption DEF Init, HandsInv, Unborn, NoRow, Absent
<1>2. (TypeOK /\ Shapes /\ LockHeld /\ NoRetrySessions /\ Shapes' /\ LockHeld'
       /\ HandsInv /\ [Next]_vars) => HandsInv'
  <2> SUFFICES ASSUME TypeOK, Shapes, LockHeld, NoRetrySessions, Shapes', LockHeld',
                      HandsInv, [Next]_vars
               PROVE  HandsInv'
    OBVIOUS
  <2>1. CASE Jobs
    <3>1. \A w \in Workers : job'[w] \in {job[w], NoTask}
      BY <2>1 DEF Jobs, TypeOK
    <3>2. QED
      BY <2>1, <3>1, HandsQuiet DEF Jobs, Quiet
  <2>2. ASSUME NEW w \in Workers, Crashes(w) PROVE HandsInv'
    <3>1. \A v \in Workers : job'[v] \in {job[v], NoTask}
      BY <2>2 DEF Crashes, TypeOK
    <3>2. \A b \in Actors : session'[b] \in {session[b], NoSession}
      BY <2>2, ClosesSessions DEF Crashes, Actors
    <3>3. QED
      BY <2>2, <3>1, <3>2, HandsQuiet DEF Crashes, Quiet
  <2>3. CASE Deletes
    BY <2>3, DeleteQuiet, HandsQuiet DEF Deletes
  <2>4. CASE UNCHANGED vars
    BY <2>4, HandsQuiet DEF vars, Quiet
  <2>5. QED
    BY <2>1, <2>2, <2>3, <2>4, StepKinds, HandsOpens, HandsCommits
<1>3. Spec => [](TypeOK /\ Shapes /\ LockHeld /\ NoRetrySessions)
  BY Grounds
<1>4. QED
  BY <1>1, <1>2, <1>3, PTL DEF Spec

\* However many managers start tasks, no more workers than that are at one
\* task, without retry_failed_task and the scripts that take rows by
\* themselves.
THEOREM WorkersBoundedPerManager ==
  ASSUME FewManagers, NoRetry, Scripts = {}
  PROVE  Spec => []WorkersPerManager
<1>1. HandsInv => WorkersPerManager
  <2> SUFFICES ASSUME HandsInv, NEW t \in TaskIds
               PROVE  Cardinality({w \in Workers : job[w] = t}) <= Cardinality(Starters)
    BY DEF WorkersPerManager
  <2> DEFINE W == {w \in Workers : job[w] = t}
  <2>1. W \subseteq Hands(t)
    BY DEF Hands
  <2> HIDE DEF W
  <2>2. IsFiniteSet(Hands(t)) /\ Cardinality(Hands(t)) <= Cardinality(Starters)
    BY DEF HandsInv
  <2>3. /\ Cardinality(W) <= Cardinality(Hands(t))
        /\ Cardinality(W) \in Nat /\ Cardinality(Hands(t)) \in Nat
        /\ Cardinality(Starters) \in Nat
    BY <2>1, <2>2, ManagersFinite, FS_Subset, FS_CardinalityType
  <2>4. Cardinality(W) <= Cardinality(Starters)
    BY <2>2, <2>3
  <2>5. QED
    BY <2>4 DEF W
<1>2. Spec => []HandsInv
  BY HandsInvariant
<1>3. QED
  BY <1>1, <1>2, PTL
=============================================================================
