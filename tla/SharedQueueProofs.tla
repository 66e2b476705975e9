------------------------- MODULE SharedQueueProofs -------------------------
(***************************************************************************)
(* Theorems about a deployment of TaskQueue in which one TaskQueueManager  *)
(* serves every actor.  The counts of ManagersProofs then are at most one: *)
(* the limits hold as they are written, and to its users the queue looks   *)
(* as if every method were atomic.                                         *)
(***************************************************************************)
EXTENDS ManagersProofs

OneManager == \A a, b \in Actors : ManagerOf[a] = ManagerOf[b]

LEMMA OneLock ==
  ASSUME OneManager
  PROVE  /\ FewManagers
         /\ Cardinality(Askers \cup Starters) <= 1
         /\ Cardinality(Askers) <= 1 /\ Cardinality(Starters) <= 1
<1>1. \A x, y \in Askers \cup Starters : x = y
  BY DEF OneManager, Askers, Starters, Actors, Workers
<1>2. \E m : Askers \cup Starters \subseteq {m}
  BY <1>1
<1>3. PICK m : Askers \cup Starters \subseteq {m}
  BY <1>2
<1>4. IsFiniteSet({m}) /\ Cardinality({m}) = 1
  BY FS_Singleton
<1>5. \A S : S \subseteq {m} => Cardinality(S) <= 1
  BY <1>4, FS_Subset
<1>6. FewManagers
  BY <1>3, <1>4, FS_Subset DEF FewManagers
<1>7. QED
  BY <1>3, <1>5, <1>6

\* A set with one element at most.
LEMMA AtMostOne ==
  ASSUME NEW S, IsFiniteSet(S), Cardinality(S) <= 1, NEW x \in S, NEW y \in S
  PROVE  x = y
<1>1. SUFFICES ASSUME x # y PROVE FALSE
  OBVIOUS
<1>2. /\ IsFiniteSet(S \ {x}) /\ Cardinality(S \ {x}) = Cardinality(S) - 1
      /\ Cardinality(S) \in Nat /\ Cardinality(S \ {x}) \in Nat
  BY FS_RemoveElement, FS_CardinalityType
<1>3. Cardinality(S \ {x}) = 0
  BY <1>2
<1>4. S \ {x} = {}
  BY <1>2, <1>3, FS_EmptySet
<1>5. QED
  BY <1>1, <1>4

\* Two actors are never both in methods that take the one lock.
LEMMA AloneInLock ==
  ASSUME OneManager, LockHeld, NEW a \in Actors, NEW b \in Actors,
         session[a].op \in Locking, session[b].op \in Locking
  PROVE  a = b
  BY DEF OneManager, LockHeld, Holds

-----------------------------------------------------------------------------
(***************************************************************************)
(* One active task per user.                                               *)
(***************************************************************************)
\* Between its check and its insert nobody else has got the user an active
\* row, and between its query and its commit get_next_task has not been
\* overtaken by an insert for the user of the row it is going to revive.
CheckStands ==
  \A a \in Actors :
    /\ session[a].op \in Inserting => ActiveOf(session[a].user) = {}
    /\ session[a].op = "get_next_task" =>
         \A t \in session[a].rows, x \in TaskIds :
           x # t /\ tasks[t].status # Absent /\ tasks[x].status \in Active
           => tasks[x].user # tasks[t].user

UserInv == OneActivePerUser /\ CheckStands

\* One claim or one decided insert, and not both.
LEMMA OneClaim ==
  ASSUME OneManager, TypeOK, Shapes, LockHeld, ClaimInv, NEW u \in Users \cup {Nobody}
  PROVE  /\ \A x, y \in Claims(u) : x = y
         /\ AskingFor(u) # {} => Claims(u) = {}
<1>1. FewManagers /\ Cardinality(Askers \cup Starters) <= 1
  BY OneLock
<1>2. /\ IsFiniteSet(Claims(u)) /\ Cardinality(Claims(u)) \in Nat
      /\ IsFiniteSet(AskingFor(u)) /\ Cardinality(AskingFor(u)) \in Nat
      /\ Cardinality(Askers \cup Starters) \in Nat
  BY <1>1, ClaimsFinite, AskingForFinite, ManagersFinite
<1>3. Cardinality(Claims(u)) + Cardinality(AskingFor(u))
        <= Cardinality(Askers \cup Starters)
  BY DEF ClaimInv
<1>4. Cardinality(Claims(u)) + Cardinality(AskingFor(u)) <= 1
  BY <1>1, <1>2, <1>3
<1>5. \A x, y \in Claims(u) : x = y
  <2>1. Cardinality(Claims(u)) <= 1
    BY <1>2, <1>4
  <2>2. QED
    BY <1>2, <2>1, AtMostOne
<1>6. ASSUME AskingFor(u) # {} PROVE Claims(u) = {}
  <2>1. Cardinality(AskingFor(u)) # 0
    BY <1>2, <1>6, FS_EmptySet
  <2>2. Cardinality(Claims(u)) = 0
    BY <1>2, <1>4, <2>1
  <2>3. QED
    BY <1>2, <2>2, FS_EmptySet
<1>7. QED
  BY <1>5, <1>6

LEMMA UserInvariant ==
  ASSUME OneManager, NoRetry
  PROVE  Spec => []UserInv
<1>1. TypeOK /\ Shapes /\ LockHeld /\ ClaimInv => UserInv
  <2> SUFFICES ASSUME TypeOK, Shapes, LockHeld, ClaimInv PROVE UserInv
    OBVIOUS
  <2>1. \A t \in TaskIds : /\ tasks[t].user \in Users \cup {Nobody}
                           /\ tasks[t].status \in Active => t \in Claims(tasks[t].user)
    BY DEF TypeOK, Row, Claims, Active, Absent
  <2>2. OneActivePerUser
    BY <2>1, OneClaim DEF OneActivePerUser
  <2>3. ASSUME NEW a \in Actors, session[a].op \in Inserting
        PROVE  ActiveOf(session[a].user) = {}
    <3>1. session[a].user \in Users \cup {Nobody} /\ a \in AskingFor(session[a].user)
      BY <2>3 DEF TypeOK, Session, AskingFor
    <3>2. Claims(session[a].user) = {}
      BY <3>1, OneClaim
    <3>3. QED
      BY <2>1, <3>2 DEF ActiveOf
  <2>4. ASSUME NEW a \in Actors, session[a].op = "get_next_task",
               NEW t \in session[a].rows, NEW x \in TaskIds,
               x # t, tasks[t].status # Absent, tasks[x].status \in Active
        PROVE  tasks[x].user # tasks[t].user
    <3>1. t \in TaskIds /\ a \in Starting
      BY <2>4 DEF TypeOK, Session, Starting
    <3>2. t \in Claims(tasks[t].user)
      BY <2>4, <3>1 DEF Claims
    <3>3. QED
      BY <2>1, <2>4, <3>1, <3>2, OneClaim
  <2>5. QED
    BY <2>2, <2>3, <2>4 DEF UserInv, CheckStands
<1>2. Spec => []ClaimInv
  BY OneLock, ClaimInvariant
<1>3. Spec => [](TypeOK /\ Shapes /\ LockHeld /\ NoRetrySessions)
  BY Grounds
<1>4. QED
  BY <1>1, <1>2, <1>3, PTL

\* Under one manager and without retry_failed_task no user has two queued or
\* running tasks, whatever the methods, crashes and failing commits.
THEOREM SingleTaskPerUser ==
  ASSUME OneManager, NoRetry
  PROVE  Spec => []OneActivePerUser
<1>1. Spec => []UserInv
  BY UserInvariant
<1>2. UserInv => OneActivePerUser
  BY DEF UserInv
<1>3. QED
  BY <1>1, <1>2, PTL

-----------------------------------------------------------------------------
(***************************************************************************)
(* The two limits.                                                         *)
(***************************************************************************)
\* get_next_task has counted, and no other start has come between.
SlotLeft ==
  \A a \in Actors : session[a].op = "get_next_task"
                      => Cardinality(Having("RUNNING")) < MaxConcurrent

RunningInv == RunningBound /\ SlotLeft

LEMMA RunningInvariant ==
  ASSUME OneManager
  PROVE  Spec => []RunningInv
<1>1. FewManagers /\ Cardinality(Starters) <= 1 /\ Cardinality(Starters) \in Nat
  BY OneLock, ManagersFinite
<1>2. Shapes /\ LockHeld /\ StartInv => RunningInv
  <2> SUFFICES ASSUME Shapes, LockHeld, StartInv PROVE RunningInv
    OBVIOUS
  <2>1. /\ Cardinality(Having("RUNNING")) \in Nat /\ MaxConcurrent \in Nat
        /\ IsFiniteSet(Starting) /\ Cardinality(Starting) \in Nat
    BY <1>1, TasksFinite, LimitsAssumption, StartingFinite
  <2>2. Cardinality(Having("RUNNING")) + Cardinality(Starting) <= MaxConcurrent
    BY <1>1, <2>1 DEF StartInv
  <2>3. RunningBound
    BY <2>1, <2>2 DEF RunningBound
  <2>4. ASSUME NEW a \in Actors, session[a].op = "get_next_task"
        PROVE  Cardinality(Having("RUNNING")) < MaxConcurrent
    <3>1. Cardinality(Starting) # 0
      BY <2>1, <2>4, FS_EmptySet DEF Starting
    <3>2. QED
      BY <2>1, <2>2, <3>1
  <2>5. QED
    BY <2>3, <2>4 DEF RunningInv, SlotLeft
<1>3. Spec => [](TypeOK /\ Shapes /\ LockHeld /\ StartInv)
  BY <1>1, StartInvariant
<1>4. QED
  BY <1>2, <1>3, PTL

\* Under one manager the running tasks never pass max_concurrent_tasks, with
\* retries, crashes and failing commits too.
THEOREM RunningBounded ==
  ASSUME OneManager
  PROVE  Spec => []RunningBound
<1>1. Spec => []RunningInv
  BY RunningInvariant
<1>2. RunningInv => RunningBound
  BY DEF RunningInv
<1>3. QED
  BY <1>1, <1>2, PTL

\* Under one manager the queued tasks never pass queue_size_limit, if
\* requeue_failed_task, which does not look at the limit, is not called.
THEOREM QueueBounded ==
  ASSUME OneManager, NoRetry, NoRequeue
  PROVE  Spec => []QueueBound
<1>1. FewManagers /\ Cardinality(Askers) <= 1 /\ Cardinality(Askers) \in Nat
  BY OneLock, ManagersFinite
<1>2. QueuedPerManager => QueueBound
  <2>1. Cardinality(Having("QUEUED")) \in Nat /\ QueueLimit \in Nat
    BY TasksFinite, LimitsAssumption
  <2>2. QED
    BY <1>1, <2>1 DEF QueuedPerManager, QueueBound
<1>3. Spec => []QueuedPerManager
  BY <1>1, QueueBoundedPerManager
<1>4. QED
  BY <1>2, <1>3, PTL

-----------------------------------------------------------------------------
(***************************************************************************)
(* A task in the hands of one worker.                                      *)
(***************************************************************************)
\* The row that an open get_next_task is going to hand out is in nobody's
\* hands.
Untouched ==
  \A a \in Actors : session[a].op = "get_next_task" =>
    \A t \in session[a].rows, w \in Workers : job[w] # t

WorkInv == NoDoubleProcessing /\ Unborn /\ Untouched

LEMMA WorkInvariant ==
  ASSUME OneManager, NoRetry, Scripts = {}
  PROVE  Spec => []WorkInv
<1>1. FewManagers /\ Cardinality(Starters) <= 1 /\ Cardinality(Starters) \in Nat
  BY OneLock, ManagersFinite
<1>2. TypeOK /\ Shapes /\ HandsInv => WorkInv
  <2> SUFFICES ASSUME TypeOK, Shapes, HandsInv PROVE WorkInv
    OBVIOUS
  <2>1. ASSUME NEW t \in TaskIds, NEW v \in Hands(t), NEW w \in Hands(t)
        PROVE  v = w
    <3>1. /\ IsFiniteSet(Hands(t)) /\ Cardinality(Hands(t)) <= Cardinality(Starters)
          /\ Cardinality(Hands(t)) \in Nat
      BY FS_CardinalityType DEF HandsInv
    <3>2. Cardinality(Hands(t)) <= 1
      BY <1>1, <3>1
    <3>3. QED
      BY <3>1, <3>2, AtMostOne
  <2>2. \A w \in Workers : job[w] # NoTask => job[w] \in TaskIds /\ w \in Hands(job[w])
    BY DEF TypeOK, Hands
  <2>3. NoDoubleProcessing
    BY <2>1, <2>2 DEF NoDoubleProcessing
  <2>4. Untouched
    <3> SUFFICES ASSUME NEW a \in Actors, session[a].op = "get_next_task",
                        NEW t \in session[a].rows, NEW w \in Workers, job[w] = t
                 PROVE  FALSE
      BY DEF Untouched
    <3>1. t \in TaskIds /\ a \in Hands(t) /\ w \in Hands(t)
      BY DEF TypeOK, Session, Hands, Starting
    <3>2. w = a
      BY <2>1, <3>1
    <3>3. job[a] = NoTask
      BY DEF Shapes, ShapeOf
    <3>4. QED
      BY <3>1, <3>2, <3>3, ActorsAssumption
  <2>5. QED
    BY <2>3, <2>4 DEF WorkInv, HandsInv
<1>3. Spec => []HandsInv
  BY <1>1, HandsInvariant
<1>4. Spec => [](TypeOK /\ Shapes /\ LockHeld /\ NoRetrySessions)
  BY Grounds
<1>5. QED
  BY <1>2, <1>3, <1>4, PTL

\* Under one manager, without retry_failed_task and the scripts that take rows
\* by themselves, no two workers are at one task.
THEOREM OneWorkerPerTask ==
  ASSUME OneManager, NoRetry, Scripts = {}
  PROVE  Spec => []NoDoubleProcessing
<1>1. Spec => []WorkInv
  BY WorkInvariant
<1>2. WorkInv => NoDoubleProcessing
  BY DEF WorkInv
<1>3. QED
  BY <1>1, <1>2, PTL

-----------------------------------------------------------------------------
(***************************************************************************)
(* TaskQueue implements UserSlots.                                         *)
(***************************************************************************)
SlotMap == [u \in Users |-> SlotOf(u)]

\* The row an open get_next_task has selected is queued until it commits, or
\* gone: the lock keeps cancellations away, and no worker completes it.
StillQueued ==
  \A a \in Actors : session[a].op = "get_next_task" =>
    \A t \in session[a].rows : tasks[t].status \in {"QUEUED", Absent}

Inv == /\ TypeOK /\ Shapes /\ LockHeld /\ NoRetrySessions
       /\ UserInv /\ RunningInv /\ WorkInv

LEMMA QueuedStays ==
  ASSUME OneManager, Inv, StillQueued, NEW a \in Actors, Commit(a)
  PROVE  StillQueued'
<1>1. \A b \in Actors : session'[b] = IF b = a THEN NoSession ELSE session[b]
  BY CommitCloses DEF Close, TypeOK, Inv
<1> SUFFICES ASSUME NEW b \in Actors, session'[b].op = "get_next_task",
                    NEW t \in session'[b].rows
             PROVE  tasks'[t].status \in {"QUEUED", Absent}
  BY DEF StillQueued
<1>2. /\ b # a /\ session[b].op = "get_next_task" /\ t \in session[b].rows
      /\ t \in TaskIds
  BY <1>1 DEF NoSession, TypeOK, Session, Inv
<1>3. tasks[t].status \in {"QUEUED", Absent} /\ \A w \in Workers : job[w] # t
  BY <1>2 DEF StillQueued, Inv, WorkInv, Untouched
<1>4. session[a].op \notin Locking
  BY <1>2, AloneInLock DEF Inv, Locking
<1>5. CASE CommitUpdate(a)
  <2>1. session[a].op \in {"resume_user_jobs", "set_task_priority", "complete_task"}
    BY <1>4, <1>5 DEF CommitUpdate, Locking, NoRetrySessions, Inv
  <2>2. t \notin session[a].rows \/ session[a].to = Keep
    BY <1>3, <2>1 DEF Shapes, ShapeOf, Inv
  <2>3. tasks'[t] = Written(session[a], t)
    BY <1>2, <1>5 DEF CommitUpdate
  <2>4. QED
    BY <1>2, <1>3, <2>2, <2>3, WrittenStatus DEF Inv
<1>6. CASE CommitDelete(a)
  <2>1. tasks'[t] \in {tasks[t], NoRow}
    BY <1>2, <1>6 DEF CommitDelete
  <2>2. QED
    BY <1>3, <2>1 DEF NoRow
<1>7. CASE UNCHANGED tasks
  BY <1>3, <1>7
<1>8. QED
  BY <1>4, <1>5, <1>6, <1>7 DEF Commit, CommitInsert, CommitStart, RetryFailedTask,
                                Rollback, Inserting, Locking

-----------------------------------------------------------------------------
(***************************************************************************)
(* Steps of the queue as steps of the slots.                               *)
(***************************************************************************)
\* The three values of a slot, from the row the user has.
SlotFacts ==
  \A u \in Users :
    /\ SlotOf(u) = "free" <=> ActiveOf(u) = {}
    /\ SlotOf(u) = "working" <=> ActiveOf(u) \cap Having("RUNNING") # {}
    /\ SlotOf(u) \in {"free", "waiting", "working"}

LEMMA SlotValues == SlotFacts
<1> SUFFICES ASSUME NEW u \in Users
             PROVE  /\ SlotOf(u) = "free" <=> ActiveOf(u) = {}
                    /\ SlotOf(u) = "working" <=> ActiveOf(u) \cap Having("RUNNING") # {}
                    /\ SlotOf(u) \in {"free", "waiting", "working"}
  BY DEF SlotFacts
<1>1. ActiveOf(u) \cap Having("RUNNING") # {} => ActiveOf(u) # {}
  OBVIOUS
<1>2. CASE ActiveOf(u) \cap Having("RUNNING") # {}
  BY <1>1, <1>2 DEF SlotOf
<1>3. CASE ActiveOf(u) # {} /\ ActiveOf(u) \cap Having("RUNNING") = {}
  BY <1>3 DEF SlotOf
<1>4. CASE ActiveOf(u) = {}
  BY <1>4 DEF SlotOf
<1>5. QED
  BY <1>1, <1>2, <1>3, <1>4

LEMMA SlotValuesAfter == SlotFacts'
  BY SlotValues, PTL

\* What a slot says of the rows, before and after a step.
LEMMA SlotOfRows ==
  ASSUME NEW u \in Users
  PROVE  /\ SlotOf(u) = "free" <=>
              \A t \in TaskIds : ~(tasks[t].user = u /\ tasks[t].status \in Active)
         /\ SlotOf(u) = "working" <=>
              \E t \in TaskIds : tasks[t].user = u /\ tasks[t].status = "RUNNING"
         /\ SlotOf(u)' = "free" <=>
              \A t \in TaskIds : ~(tasks'[t].user = u /\ tasks'[t].status \in Active)
         /\ SlotOf(u)' = "working" <=>
              \E t \in TaskIds : tasks'[t].user = u /\ tasks'[t].status = "RUNNING"
         /\ SlotOf(u) \in {"free", "waiting", "working"}
         /\ SlotOf(u)' \in {"free", "waiting", "working"}
  BY SlotValues, SlotValuesAfter DEF SlotFacts, ActiveOf, Having, Active

LEMMA UnchangedSlots ==
  ASSUME UNCHANGED tasks
  PROVE  UNCHANGED SlotMap
  BY DEF SlotMap, SlotOf, ActiveOf, Having

\* A step that makes no row active frees slots at most.
LEMMA QuietEnds ==
  ASSUME Inv, Quiet
  PROVE  [Slots!Next]_SlotMap
<1> DEFINE S == {u \in Users : SlotOf(u) # "free" /\ SlotOf(u)' = "free"}
<1>1. ASSUME NEW u \in Users
      PROVE  SlotOf(u)' = IF u \in S THEN "free" ELSE SlotOf(u)
  <2>1. CASE SlotOf(u)' = "free"
    BY <2>1
  <2>2. CASE SlotOf(u)' # "free"
    <3>1. \A t \in TaskIds : tasks'[t].status \in Active =>
            tasks'[t].status = tasks[t].status /\ tasks'[t].user = tasks[t].user
      BY DEF Quiet, Active, Absent
    <3>2. PICK x \in TaskIds : tasks'[x].user = u /\ tasks'[x].status \in Active
      BY <2>2, SlotOfRows
    <3>3. \A t \in TaskIds : tasks[t].user = u /\ tasks[t].status \in Active => t = x
      BY <3>1, <3>2 DEF Inv, UserInv, OneActivePerUser
    <3>4. /\ SlotOf(u) # "free"
          /\ SlotOf(u) = "working" <=> SlotOf(u)' = "working"
      BY <3>1, <3>2, <3>3, SlotOfRows DEF Active
    <3>5. QED
      BY <2>2, <3>4, SlotOfRows
  <2>3. QED
    BY <2>1, <2>2
<1>2. CASE S = {}
  BY <1>1, <1>2 DEF SlotMap
<1>3. CASE S # {}
  <2>1. S \in SUBSET Users /\ \A u \in S : SlotMap[u] # "free"
    BY DEF SlotMap
  <2>2. SlotMap' = [u \in Users |-> IF u \in S THEN "free" ELSE SlotMap[u]]
    BY <1>1 DEF SlotMap
  <2> HIDE DEF S
  <2>3. Slots!End(S)
    BY <1>3, <2>1, <2>2 DEF Slots!End, SlotMap
  <2>4. QED
    BY <2>1, <2>3 DEF Slots!Next
<1>4. QED
  BY <1>2, <1>3

\* An insert takes the slot of its user.
LEMMA InsertAsks ==
  ASSUME Inv, NEW a \in Actors, CommitInsert(a)
  PROVE  [Slots!Next]_SlotMap
<1>0. PICK v : v = session[a].user
  OBVIOUS
<1>1. /\ nextId \in TaskIds
      /\ tasks'[nextId].user = v /\ tasks'[nextId].status = "QUEUED"
      /\ \A t \in TaskIds : t # nextId => tasks'[t] = tasks[t]
      /\ tasks[nextId].status = "ABSENT"
  <2>1. nextId \in TaskIds /\ nextId >= nextId
    BY LimitsAssumption DEF CommitInsert, Inv, TypeOK, TaskIds
  <2>2. QED
    BY <1>0, <2>1 DEF CommitInsert, Inv, TypeOK, WorkInv, Unborn, Absent
<1>2. \A t \in TaskIds : ~(tasks[t].user = v /\ tasks[t].status \in Active)
  BY <1>0 DEF CommitInsert, Inv, UserInv, CheckStands, ActiveOf
<1>3. ASSUME NEW u \in Users, u # v PROVE SlotOf(u)' = SlotOf(u)
  <2>1. /\ SlotOf(u)' = "free" <=> SlotOf(u) = "free"
        /\ SlotOf(u)' = "working" <=> SlotOf(u) = "working"
    BY <1>1, <1>3, SlotOfRows DEF Active
  <2>2. QED
    BY <2>1, SlotOfRows
<1>4. ASSUME v \in Users PROVE SlotOf(v) = "free" /\ SlotOf(v)' = "waiting"
  <2>1. SlotOf(v) = "free" /\ SlotOf(v)' # "free"
    BY <1>1, <1>2, <1>4, SlotOfRows DEF Active
  <2>2. SlotOf(v)' # "working"
    BY <1>1, <1>2, <1>4, SlotOfRows DEF Active
  <2>3. QED
    BY <1>4, <2>1, <2>2, SlotOfRows
<1>5. CASE v \in Users
  <2>1. SlotMap' = [SlotMap EXCEPT ![v] = "waiting"]
    BY <1>3, <1>4, <1>5 DEF SlotMap
  <2>2. Slots!Ask(v)
    BY <1>4, <1>5, <2>1 DEF Slots!Ask, SlotMap
  <2>3. QED
    BY <1>5, <2>2 DEF Slots!Next
<1>6. CASE v \notin Users
  BY <1>3, <1>6 DEF SlotMap
<1>7. QED
  BY <1>5, <1>6

\* There are no more users at work than tasks running.
LEMMA WorkingUsers ==
  /\ IsFiniteSet({u \in Users : SlotOf(u) = "working"})
  /\ Cardinality({u \in Users : SlotOf(u) = "working"}) <= Cardinality(Having("RUNNING"))
<1> DEFINE U == {u \in Users : SlotOf(u) = "working"}
<1>1. \A u \in U : \E t \in Having("RUNNING") : tasks[t].user = u
  BY SlotOfRows DEF Having
<1> DEFINE f == [u \in U |-> CHOOSE t \in Having("RUNNING") : tasks[t].user = u]
<1>2. \A u \in U : f[u] \in Having("RUNNING") /\ tasks[f[u]].user = u
  BY <1>1
<1> HIDE DEF f
<1>3. f \in [U -> Having("RUNNING")]
  <2>1. f = [u \in U |-> f[u]]
    BY DEF f
  <2>2. QED
    BY <1>2, <2>1
<1>4. \A u, w \in U : f[u] = f[w] => u = w
  BY <1>2
<1> HIDE DEF U
<1>5. f \in Injection(U, Having("RUNNING"))
  BY <1>3, <1>4 DEF Injection, IsInjective
<1>6. QED
  BY <1>5, TasksFinite, FS_Injection DEF U

\* A start turns a waiting user into one at work.
LEMMA StartBegins ==
  ASSUME Inv, StillQueued, NEW a \in Actors, CommitStart(a)
  PROVE  [Slots!Next]_SlotMap
<1>1. PICK x \in TaskIds :
        /\ session[a].rows = {x}
        /\ \A t \in TaskIds : tasks'[t].user = tasks[t].user
        /\ tasks'[x].status = "RUNNING"
        /\ \A t \in TaskIds : t # x => tasks'[t].status = tasks[t].status
  BY CommitStarts DEF Inv
<1>2. session[a].op = "get_next_task" /\ tasks[x].status = "QUEUED"
  BY <1>1 DEF CommitStart, StillQueued, Stale, Exists
<1>0. PICK v : v = tasks[x].user
  OBVIOUS
<1>3. \A t \in TaskIds : tasks[t].user = v /\ tasks[t].status \in Active => t = x
  BY <1>0, <1>2 DEF Inv, UserInv, OneActivePerUser, Active
<1>4. ASSUME NEW u \in Users, u # v PROVE SlotOf(u)' = SlotOf(u)
  <2>1. \A t \in TaskIds : tasks[t].user = u =>
          tasks'[t].user = u /\ tasks'[t].status = tasks[t].status
    BY <1>0, <1>1, <1>4
  <2>2. /\ SlotOf(u)' = "free" <=> SlotOf(u) = "free"
        /\ SlotOf(u)' = "working" <=> SlotOf(u) = "working"
    BY <1>1, <2>1, SlotOfRows
  <2>3. QED
    BY <2>2, SlotOfRows
<1>5. ASSUME v \in Users PROVE SlotOf(v) = "waiting" /\ SlotOf(v)' = "working"
  <2>1. SlotOf(v) # "free" /\ SlotOf(v) # "working"
    BY <1>0, <1>2, <1>3, <1>5, SlotOfRows DEF Active
  <2>2. SlotOf(v)' = "working"
    BY <1>0, <1>1, <1>5, SlotOfRows
  <2>3. QED
    BY <1>5, <2>1, <2>2, SlotOfRows
<1>6. Cardinality(Having("RUNNING")) < MaxConcurrent
  BY <1>2 DEF Inv, RunningInv, SlotLeft
<1>7. Cardinality({u \in Users : SlotMap[u] = "working"}) < MaxConcurrent
  <2>1. {u \in Users : SlotMap[u] = "working"} = {u \in Users : SlotOf(u) = "working"}
    BY DEF SlotMap
  <2>2. /\ Cardinality({u \in Users : SlotOf(u) = "working"}) \in Nat
        /\ Cardinality(Having("RUNNING")) \in Nat /\ MaxConcurrent \in Nat
    BY WorkingUsers, TasksFinite, FS_CardinalityType, LimitsAssumption
  <2>3. QED
    BY <1>6, <2>1, <2>2, WorkingUsers
<1>8. CASE v \in Users
  <2>1. SlotMap' = [SlotMap EXCEPT ![v] = "working"]
    BY <1>4, <1>5, <1>8 DEF SlotMap
  <2>2. Slots!In("working") = {u \in Users : SlotMap[u] = "working"}
    BY DEF Slots!In, SlotMap
  <2>3. Slots!Cardinality(Slots!In("working")) < MaxConcurrent
    <3>1. \A S : Slots!Cardinality(S) = Cardinality(S)
      BY DEF Cardinality, Slots!Cardinality
    <3>2. QED
      BY <1>7, <2>2, <3>1
  <2>4. SlotMap[v] = "waiting"
    BY <1>5, <1>8 DEF SlotMap
  <2>5. Slots!Begin(v)
    BY <2>1, <2>3, <2>4 DEF Slots!Begin, SlotMap
  <2>6. QED
    BY <1>8, <2>5 DEF Slots!Next
<1>9. CASE v \notin Users
  BY <1>4, <1>9 DEF SlotMap
<1>10. QED
  BY <1>8, <1>9

-----------------------------------------------------------------------------
\* With one manager, and without retry_failed_task and the scripts that take
\* rows by themselves, the queue is an atomic slot per user: reads and commits
\* interleaved, crashes and failing commits show as nothing its users can see.
THEOREM QueueImplementsSlots ==
  ASSUME OneManager, NoRetry, Scripts = {}
  PROVE  Spec => ImplementsSlots
<1>1. Init => /\ Slots!Init /\ StillQueued
  <2> SUFFICES ASSUME Init PROVE Slots!Init /\ StillQueued
    OBVIOUS
  <2>1. \A u \in Users : SlotOf(u) = "free"
    BY SlotOfRows DEF Init, NoRow, Absent, Active
  <2>2. StillQueued
    BY DEF Init, StillQueued, NoSession
  <2>3. QED
    BY <2>1, <2>2 DEF Slots!Init
<1>2. Inv /\ StillQueued /\ [Next]_vars => StillQueued'
  <2> SUFFICES ASSUME Inv, StillQueued, [Next]_vars PROVE StillQueued'
    OBVIOUS
  <2>1. ASSUME NEW a \in Actors, NEW s \in Session, Opens(a, s) PROVE StillQueued'
    <3>1. s.op = "get_next_task" => \A t \in s.rows : tasks[t].status = "QUEUED"
      BY <2>1 DEF Opens, Opening, RequestOps, Locking, LockFree, WorkerOpening, Having
    <3>2. QED
      BY <2>1, <3>1 DEF StillQueued, Opens, Open, Inv, TypeOK
  <2>2. ASSUME NEW w \in Workers, Crashes(w) PROVE StillQueued'
    <3>1. \A b \in Actors : session'[b] \in {session[b], NoSession}
      BY <2>2 DEF Crashes, Close, Inv, TypeOK
    <3>2. QED
      BY <2>2, <3>1 DEF StillQueued, Crashes, NoSession
  <2>3. CASE UNCHANGED <<tasks, session>>
    BY <2>3 DEF StillQueued
  <2>4. CASE Deletes
    <3>1. \A t \in TaskIds : tasks'[t] = tasks[t] \/ tasks'[t].status = Absent
      BY <2>4 DEF Deletes, NoRow
    <3>2. UNCHANGED session /\ \A a \in Actors : session[a].rows \subseteq TaskIds
      BY <2>4 DEF Deletes, Inv, TypeOK, Session
    <3>3. QED
      BY <3>1, <3>2 DEF StillQueued
  <2>5. QED
    BY <2>1, <2>2, <2>3, <2>4, StepKinds, QueuedStays DEF Jobs, vars, Inv
<1>3. Inv /\ StillQueued /\ [Next]_vars => [Slots!Next]_SlotMap
  <2> SUFFICES ASSUME Inv, StillQueued, [Next]_vars PROVE [Slots!Next]_SlotMap
    OBVIOUS
  <2>1. CASE UNCHANGED tasks
    BY <2>1, UnchangedSlots
  <2>2. ASSUME NEW a \in Actors, Commit(a) PROVE [Slots!Next]_SlotMap
    BY <2>2, InsertAsks, StartBegins, QuietEnds, CommitQuiet DEF Inv, NoRetrySessions
  <2>3. CASE Deletes
    BY <2>3, DeleteQuiet, QuietEnds
  <2>4. QED
    BY <2>1, <2>2, <2>3, StepKinds DEF Opens, Open, Jobs, Crashes, vars, Inv
<1>4. Spec => []Inv
  <2>1. Spec => [](TypeOK /\ Shapes /\ LockHeld /\ NoRetrySessions)
    BY Grounds
  <2>2. (Spec => []UserInv) /\ (Spec => []RunningInv)
    BY UserInvariant, RunningInvariant
  <2>3. Spec => []WorkInv
    BY WorkInvariant
  <2>4. QED
    BY <2>1, <2>2, <2>3, PTL DEF Inv
<1>5. QED
  BY <1>1, <1>2, <1>3, <1>4, PTL DEF Spec, ImplementsSlots, Slots!Spec, SlotMap

=============================================================================
