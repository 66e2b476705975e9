--------------------------- MODULE RQQueueProofs ---------------------------
(***************************************************************************)
(* Proofs about RQQueue, for any number of requests, users, workers and    *)
(* processors.                                                             *)
(***************************************************************************)
EXTENDS RQQueue, TLAPS

(* The ids a request makes are its own, and tell the two queues apart. *)
LEMMA TaskFacts ==
    /\ \A r \in Requests : /\ RQTask(r) \in TaskIds /\ TableTask(r) \in TaskIds
                           /\ RQTask(r)[1] = r /\ TableTask(r)[1] = r
                           /\ UserOf(RQTask(r)) = User[r]
                           /\ User[r] \in Users
    /\ \A r, q \in Requests : /\ RQTask(r) = RQTask(q) => r = q
                              /\ RQTask(r) # TableTask(q)
    /\ \A t \in TaskIds : t # None /\ t[1] \in Requests /\ UserOf(t) \in Users
BY RQAssumption DEF RQTask, TableTask, TaskIds, UserOf, Users

(* Every step is one of the actions, by one actor. *)
LEMMA RQSteps ==
    ASSUME [Next]_vars,
           NEW G,
           UNCHANGED vars => G,
           RedisChanges => G,
           ModeChanges => G,
           \A u \in Users : KeyExpires(u) => G,
           \A r \in Requests : CheckKey(r) => G,
           \A r \in Requests : CheckRows(r) => G,
           \A r \in Requests : ClaimKey(r) => G,
           \A r \in Requests : ClaimRefused(r) => G,
           \A r \in Requests : EnqueueToDatabase(r) => G,
           \A r \in Requests : EnqueueToRedis(r) => G,
           \A r \in Requests : EnqueueFails(r) => G,
           \A r \in Requests : FallbackCheck(r) => G,
           \A r \in Requests : FallbackInsert(r) => G,
           \A t \in TaskIds : CancelGeneration(t) => G,
           \A w \in Workers : TakeJob(w) => G,
           \A w \in Workers : ReadTask(w) => G,
           \A w \in Workers : StartTask(w) => G,
           \A w \in Workers : FinishTask(w) => G,
           \A p \in Processors : TakeRow(p) => G,
           \A p \in Processors : CompleteRow(p) => G,
           FetchRows => G,
           PickRow => G,
           MigrateRow => G,
           TrackRow => G
    PROVE  G
BY Zenon DEF Next, Submit, Process, Drain, Migrate

(* An actor that is busy with a task has one. *)
BusyHasTask ==
    /\ \A w \in Workers : worker[w].at # "idle" => worker[w].task \in TaskIds
    /\ migration.at \in {"picked", "pushed"} => migration.task \in TaskIds

(* TypeOK needs BusyHasTask: what is written or pushed is a task. *)
RQType == TypeOK /\ BusyHasTask

LEMMA RQTypeInit == Init => RQType
<1> SUFFICES ASSUME Init PROVE RQType
  OBVIOUS
<1>1. TypeOK
  BY DEF Init, TypeOK, Idle, Active
<1>2. BusyHasTask
  BY DEF Init, BusyHasTask, Idle
<1> QED
  BY <1>1, <1>2 DEF RQType

(* Where each actor is and what it holds stays within what the code knows; *)
(* in particular no job is taken that is not there.                        *)
LEMMA RQTypeStep == RQType /\ [Next]_vars => RQType'
<1> SUFFICES ASSUME RQType, [Next]_vars PROVE RQType'
  OBVIOUS
<1> USE TaskFacts
<1> USE DEF RQType, TypeOK, BusyHasTask, store, hands, vars, Active, Go, SetRow,
            SetKey, Do, Idle
<1>1. UNCHANGED vars => RQType'
  OBVIOUS
<1>2. RedisChanges => RQType'
  BY DEF RedisChanges
<1>3. ModeChanges => RQType'
  BY DEF ModeChanges
<1>4. \A u \in Users : KeyExpires(u) => RQType'
  BY DEF KeyExpires
<1>5. \A r \in Requests : CheckKey(r) => RQType'
  BY DEF CheckKey
<1>6. \A r \in Requests : CheckRows(r) => RQType'
  BY DEF CheckRows
<1>7. \A r \in Requests : ClaimKey(r) => RQType'
  BY DEF ClaimKey
<1>8. \A r \in Requests : ClaimRefused(r) => RQType'
  BY DEF ClaimRefused
<1>9. \A r \in Requests : EnqueueToDatabase(r) => RQType'
  BY DEF EnqueueToDatabase
<1>10. \A r \in Requests : EnqueueToRedis(r) => RQType'
  BY DEF EnqueueToRedis
<1>11. \A r \in Requests : EnqueueFails(r) => RQType'
  <2> TAKE r \in Requests
  <2> HAVE EnqueueFails(r)
  <2>1. jobs' \in [TaskIds -> Nat]
    <3>1. jobs' = jobs \/ jobs' = [jobs EXCEPT ![RQTask(r)] = jobs[RQTask(r)] + 1]
      BY DEF EnqueueFails
    <3>2. jobs[RQTask(r)] + 1 \in Nat
      OBVIOUS
    <3> HIDE TaskFacts
    <3> QED
      BY <3>1, <3>2
  <2>2. key' \in [Users -> TaskIds \cup {None}]
    BY DEF EnqueueFails
  <2> QED
    BY <2>1, <2>2 DEF EnqueueFails
<1>12. \A r \in Requests : FallbackCheck(r) => RQType'
  BY DEF FallbackCheck
<1>13. \A r \in Requests : FallbackInsert(r) => RQType'
  BY DEF FallbackInsert
<1>14. \A t \in TaskIds : CancelGeneration(t) => RQType'
  BY DEF CancelGeneration
<1>15. \A w \in Workers : TakeJob(w) => RQType'
  BY DEF TakeJob
<1>16. \A w \in Workers : ReadTask(w) => RQType'
  <2> TAKE w \in Workers
  <2> HAVE ReadTask(w)
  <2>1. PICK at \in {"starting", "failing"} :
          worker' = [worker EXCEPT ![w] = [at |-> at, task |-> worker[w].task]]
    BY DEF ReadTask
  <2>2. worker[w].task \in TaskIds
    BY DEF ReadTask
  <2> QED
    BY <2>1, <2>2 DEF ReadTask
<1>17. \A w \in Workers : StartTask(w) => RQType'
  BY DEF StartTask
<1>18. \A w \in Workers : FinishTask(w) => RQType'
  BY DEF FinishTask
<1>19. \A p \in Processors : TakeRow(p) => RQType'
  BY DEF TakeRow
<1>20. \A p \in Processors : CompleteRow(p) => RQType'
  BY DEF CompleteRow
<1>21. FetchRows => RQType'
  BY DEF FetchRows
<1>22. PickRow => RQType'
  <2> HAVE PickRow
  <2>1. PICK t \in migration.rows :
          \/ migration' = [migration EXCEPT !.at = "fetched", !.rows = @ \ {t}, !.task = None]
          \/ migration' = [migration EXCEPT !.at = "picked", !.rows = @ \ {t}, !.task = t]
    BY Zenon DEF PickRow
  <2>2. t \in TaskIds /\ migration.rows \ {t} \in SUBSET TaskIds
    OBVIOUS
  <2>3. /\ migration'.at = "picked" => migration'.task = t
        /\ migration'.at # "pushed"
        /\ migration' \in [at : {"off", "fetched", "picked", "pushed"}, rows : SUBSET TaskIds,
                            task : TaskIds \cup {None}, started : Nat]
    <3>1. CASE migration' = [migration EXCEPT !.at = "fetched", !.rows = @ \ {t},
                                              !.task = None]
      BY <2>2, <3>1
    <3>2. CASE migration' = [migration EXCEPT !.at = "picked", !.rows = @ \ {t}, !.task = t]
      BY <2>2, <3>2
    <3> QED
      BY <2>1, <3>1, <3>2
  <2>4. UNCHANGED <<redisUp, rqMode, store, request, lock, worker, processor>>
    BY DEF PickRow
  <2> QED
    BY <2>1, <2>2, <2>3, <2>4
<1>23. MigrateRow => RQType'
  <2> HAVE MigrateRow
  <2>1. migration.task \in TaskIds
    BY DEF MigrateRow
  <2>2. CASE redisUp
    <3>1. migration' = [migration EXCEPT !.at = "pushed"]
      BY <2>2 DEF MigrateRow
    <3>2. /\ migration'.task \in TaskIds
          /\ migration' \in [at : {"off", "fetched", "picked", "pushed"}, rows : SUBSET TaskIds,
                              task : TaskIds \cup {None}, started : Nat]
      BY <2>1, <3>1
    <3>3. jobs' \in [TaskIds -> Nat]
      BY <2>1, <2>2 DEF MigrateRow
    <3>4. UNCHANGED <<redisUp, rqMode, lapsed, key, row, request, lock, worker, processor>>
      BY DEF MigrateRow
    <3> QED
      BY <3>2, <3>3, <3>4
  <2>3. CASE ~redisUp
    <3>1. migration' = [migration EXCEPT !.at = "fetched", !.task = None]
      BY <2>3 DEF MigrateRow
    <3> QED
      BY <2>3, <3>1 DEF MigrateRow
  <2> QED
    BY <2>2, <2>3
<1>24. TrackRow => RQType'
  <2> HAVE TrackRow
  <2>1. migration.task \in TaskIds
    BY DEF TrackRow
  <2>2. key' \in [Users -> TaskIds \cup {None}]
    BY <2>1 DEF TrackRow
  <2>3. migration' = [migration EXCEPT !.at = "fetched", !.task = None]
    BY DEF TrackRow
  <2> QED
    BY <2>2, <2>3 DEF TrackRow
<1> HIDE DEF RQType, vars
<1> QED
  BY <1>1, <1>2, <1>3, <1>4, <1>5, <1>6, <1>7, <1>8, <1>9, <1>10, <1>11, <1>12,
     <1>13, <1>14, <1>15, <1>16, <1>17, <1>18, <1>19, <1>20, <1>21, <1>22,
     <1>23, <1>24, RQSteps, Zenon

(* Keys, jobs, rows and actors keep their types; no job is taken that is   *)
(* not queued.                                                             *)
THEOREM RQTypeCorrect == Spec => []TypeOK
<1>1. RQType => TypeOK
  BY DEF RQType
<1> QED
  BY RQTypeInit, RQTypeStep, <1>1, PTL DEF Spec

-----------------------------------------------------------------------------
(* The lock is held by the request that has claimed a key and not yet      *)
(* pushed its job.  That key is its own unless it ran out; it is never     *)
(* that of a job returned to the same user, so clearing it harms none.     *)
ClaimHeld ==
    /\ \A r \in Requests :
          request[r] = "claimed" =>
              lock = r /\ (key[User[r]] = RQTask(r) \/ RQTask(r) \in lapsed)
    /\ \A q, r \in Requests :
          request[q] = "claimed" /\ request[r] = "queued" /\ User[q] = User[r]
          => key[User[q]] # RQTask(r)

(* Only a task enqueued in database mode has a row under its RQ id, and    *)
(* only tasks with rows are migrated or started: no job of an id that was  *)
(* returned is pushed again.                                               *)
RowsOfStored ==
    /\ \A r \in Requests : row[RQTask(r)] # "absent" => request[r] = "stored"
    /\ \A t \in migration.rows : row[t] # "absent"
    /\ migration.at \in {"picked", "pushed"} => row[migration.task] # "absent"
    /\ \A w \in Workers :
          worker[w].at \in {"starting", "working"} => row[worker[w].task] # "absent"
    /\ \A p \in Processors : processor[p] # None => row[processor[p]] # "absent"

KeyInv == RQType /\ ClaimHeld /\ RowsOfStored /\ ReturnedJobHoldsKey

LEMMA KeyInvInit == Init => KeyInv
<1> SUFFICES ASSUME Init PROVE KeyInv
  OBVIOUS
<1>1. RQType
  BY RQTypeInit
<1>2. ClaimHeld /\ ReturnedJobHoldsKey
  BY DEF Init, ClaimHeld, ReturnedJobHoldsKey
<1>3. RowsOfStored
  BY TaskFacts DEF Init, RowsOfStored, Idle
<1> QED
  BY <1>1, <1>2, <1>3 DEF KeyInv

(* The claim stands until the push, and rows appear only where a request   *)
(* has stored one.                                                         *)
LEMMA ClaimStep == KeyInv /\ [Next]_vars => (ClaimHeld /\ RowsOfStored)'
<1> SUFFICES ASSUME KeyInv, [Next]_vars PROVE (ClaimHeld /\ RowsOfStored)'
  OBVIOUS
<1> DEFINE G == (ClaimHeld /\ RowsOfStored)'
<1> USE TaskFacts, RQAssumption
<1> USE DEF KeyInv, RQType, TypeOK, BusyHasTask, ClaimHeld, RowsOfStored, store,
            hands, vars, Active, Go, SetRow, SetKey, Do, Idle
<1>1. UNCHANGED vars => G
  OBVIOUS
<1>2. RedisChanges => G
  BY DEF RedisChanges
<1>3. ModeChanges => G
  BY DEF ModeChanges
<1>4. \A u \in Users : KeyExpires(u) => G
  BY DEF KeyExpires
<1>5. \A r \in Requests : CheckKey(r) => G
  BY DEF CheckKey
<1>6. \A r \in Requests : CheckRows(r) => G
  BY DEF CheckRows
<1>7. \A r \in Requests : ClaimKey(r) => G
  BY DEF ClaimKey
<1>8. \A r \in Requests : ClaimRefused(r) => G
  BY DEF ClaimRefused
<1>9. \A r \in Requests : EnqueueToDatabase(r) => G
  BY DEF EnqueueToDatabase
<1>10. \A r \in Requests : EnqueueToRedis(r) => G
  BY DEF EnqueueToRedis
<1>11. \A r \in Requests : EnqueueFails(r) => G
  BY DEF EnqueueFails
<1>12. \A r \in Requests : FallbackCheck(r) => G
  BY DEF FallbackCheck
<1>13. \A r \in Requests : FallbackInsert(r) => G
  BY DEF FallbackInsert
<1>14. \A t \in TaskIds : CancelGeneration(t) => G
  BY DEF CancelGeneration
<1>15. \A w \in Workers : TakeJob(w) => G
  BY DEF TakeJob
<1>16. \A w \in Workers : ReadTask(w) => G
  BY DEF ReadTask
<1>17. \A w \in Workers : StartTask(w) => G
  BY DEF StartTask
<1>18. \A w \in Workers : FinishTask(w) => G
  BY DEF FinishTask
<1>19. \A p \in Processors : TakeRow(p) => G
  BY DEF TakeRow
<1>20. \A p \in Processors : CompleteRow(p) => G
  BY DEF CompleteRow
<1>21. FetchRows => G
  BY DEF FetchRows
<1>22. PickRow => G
  BY DEF PickRow
<1>23. MigrateRow => G
  <2> HAVE MigrateRow
  <2>1. \/ /\ migration'.at = "pushed" /\ migration'.rows = migration.rows
           /\ migration'.task = migration.task
        \/ migration'.at = "fetched" /\ migration'.rows = migration.rows
    <3>1. CASE redisUp
      <4>1. migration' = [migration EXCEPT !.at = "pushed"]
        BY <3>1 DEF MigrateRow
      <4> QED
        BY <4>1
    <3>2. CASE ~redisUp
      <4>1. migration' = [migration EXCEPT !.at = "fetched", !.task = None]
        BY <3>2 DEF MigrateRow
      <4> QED
        BY <4>1
    <3> QED
      BY <3>1, <3>2
  <2>2. /\ migration.at = "picked"
        /\ UNCHANGED <<redisUp, rqMode, lapsed, key, row, request, lock, worker, processor>>
    BY DEF MigrateRow
  <2>3. /\ migration'.rows = migration.rows
        /\ migration'.at \in {"picked", "pushed"} => migration'.task = migration.task
    BY <2>1
  <2> QED
    BY <2>2, <2>3
<1>24. TrackRow => G
  BY DEF TrackRow
<1> HIDE DEF G, vars
<1>25. G
  BY <1>1, <1>2, <1>3, <1>4, <1>5, <1>6, <1>7, <1>8, <1>9, <1>10, <1>11, <1>12,
     <1>13, <1>14, <1>15, <1>16, <1>17, <1>18, <1>19, <1>20, <1>21, <1>22,
     <1>23, <1>24, RQSteps, Zenon
<1> QED
  BY <1>25 DEF G

(* The key of a returned job is let go by nobody before it runs out.       *)
LEMMA HolderStep == KeyInv /\ [Next]_vars => ReturnedJobHoldsKey'
<1> SUFFICES ASSUME KeyInv, [Next]_vars PROVE ReturnedJobHoldsKey'
  OBVIOUS
<1> DEFINE G == ReturnedJobHoldsKey'
<1> USE TaskFacts, RQAssumption
<1> USE DEF KeyInv, RQType, TypeOK, BusyHasTask, ClaimHeld, RowsOfStored, store,
            hands, vars, Active, Go, SetRow, SetKey, Do, Idle,
            ReturnedJobHoldsKey
<1>1. UNCHANGED vars => G
  OBVIOUS
<1>2. RedisChanges => G
  BY DEF RedisChanges
<1>3. ModeChanges => G
  BY DEF ModeChanges
<1>4. \A u \in Users : KeyExpires(u) => G
  BY DEF KeyExpires
<1>5. \A r \in Requests : CheckKey(r) => G
  BY DEF CheckKey
<1>6. \A r \in Requests : CheckRows(r) => G
  BY DEF CheckRows
<1>7. \A r \in Requests : ClaimKey(r) => G
  BY DEF ClaimKey
<1>8. \A r \in Requests : ClaimRefused(r) => G
  BY DEF ClaimRefused
<1>9. \A r \in Requests : EnqueueToDatabase(r) => G
  BY DEF EnqueueToDatabase
<1>10. \A r \in Requests : EnqueueToRedis(r) => G
  BY DEF EnqueueToRedis
<1>11. \A r \in Requests : EnqueueFails(r) => G
  BY DEF EnqueueFails
<1>12. \A r \in Requests : FallbackCheck(r) => G
  BY DEF FallbackCheck
<1>13. \A r \in Requests : FallbackInsert(r) => G
  BY DEF FallbackInsert
<1>14. \A t \in TaskIds : CancelGeneration(t) => G
  BY DEF CancelGeneration
<1>15. \A w \in Workers : TakeJob(w) => G
  BY DEF TakeJob
<1>16. \A w \in Workers : ReadTask(w) => G
  BY DEF ReadTask
<1>17. \A w \in Workers : StartTask(w) => G
  BY DEF StartTask
<1>18. \A w \in Workers : FinishTask(w) => G
  BY DEF FinishTask
<1>19. \A p \in Processors : TakeRow(p) => G
  BY DEF TakeRow
<1>20. \A p \in Processors : CompleteRow(p) => G
  BY DEF CompleteRow
<1>21. FetchRows => G
  BY DEF FetchRows
<1>22. PickRow => G
  BY DEF PickRow
<1>23. MigrateRow => G
  BY DEF MigrateRow
<1>24. TrackRow => G
  BY DEF TrackRow
<1> HIDE DEF G, vars
<1>25. G
  BY <1>1, <1>2, <1>3, <1>4, <1>5, <1>6, <1>7, <1>8, <1>9, <1>10, <1>11, <1>12,
     <1>13, <1>14, <1>15, <1>16, <1>17, <1>18, <1>19, <1>20, <1>21, <1>22,
     <1>23, <1>24, RQSteps, Zenon
<1> QED
  BY <1>25 DEF G

LEMMA KeyInvStep == KeyInv /\ [Next]_vars => KeyInv'
BY RQTypeStep, ClaimStep, HolderStep DEF KeyInv

(* The id returned to a user holds the user's key until that runs out, for *)
(* any interleaving of submissions, expiries, outages, late failures and   *)
(* migrations.                                                             *)
THEOREM ReturnedJobsHoldKeys == Spec => []ReturnedJobHoldsKey
<1>1. KeyInv => ReturnedJobHoldsKey
  BY DEF KeyInv
<1> QED
  BY KeyInvInit, KeyInvStep, <1>1, PTL DEF Spec

-----------------------------------------------------------------------------
HandsInv == RQType /\ RunningHasHands

LEMMA HandsInit == Init => HandsInv
<1> SUFFICES ASSUME Init PROVE HandsInv
  OBVIOUS
<1>1. RQType
  BY RQTypeInit
<1>2. RunningHasHands
  BY DEF Init, RunningHasHands
<1> QED
  BY <1>1, <1>2 DEF HandsInv

(* A worker or processor leaves its row only when it writes its end.       *)
LEMMA HandsStep == HandsInv /\ [Next]_vars => HandsInv'
<1> SUFFICES ASSUME HandsInv, [Next]_vars PROVE HandsInv'
  OBVIOUS
<1> DEFINE G == RunningHasHands'
<1>0. RQType'
  BY RQTypeStep DEF HandsInv
<1> USE TaskFacts
<1> USE DEF HandsInv, RQType, TypeOK, BusyHasTask, RunningHasHands, store, hands,
            vars, Active, Go, SetRow, SetKey, Do, Idle
<1>a. ASSUME row' = row, worker' = worker, processor' = processor PROVE G
  <2>1. RunningHasHands
    BY DEF HandsInv
  <2> QED
    BY ONLY <1>a, <2>1 DEF RunningHasHands
<1>1. UNCHANGED vars => G
  BY <1>a
<1>2. RedisChanges => G
  BY <1>a DEF RedisChanges
<1>3. ModeChanges => G
  BY <1>a DEF ModeChanges
<1>4. \A u \in Users : KeyExpires(u) => G
  BY <1>a DEF KeyExpires
<1>5. \A r \in Requests : CheckKey(r) => G
  BY <1>a DEF CheckKey
<1>6. \A r \in Requests : CheckRows(r) => G
  BY <1>a DEF CheckRows
<1>7. \A r \in Requests : ClaimKey(r) => G
  BY <1>a DEF ClaimKey
<1>8. \A r \in Requests : ClaimRefused(r) => G
  BY <1>a DEF ClaimRefused
<1>9. \A r \in Requests : EnqueueToDatabase(r) => G
  BY DEF EnqueueToDatabase
<1>10. \A r \in Requests : EnqueueToRedis(r) => G
  BY <1>a DEF EnqueueToRedis
<1>11. \A r \in Requests : EnqueueFails(r) => G
  BY <1>a DEF EnqueueFails
<1>12. \A r \in Requests : FallbackCheck(r) => G
  BY <1>a DEF FallbackCheck
<1>13. \A r \in Requests : FallbackInsert(r) => G
  BY DEF FallbackInsert
<1>14. \A t \in TaskIds : CancelGeneration(t) => G
  BY DEF CancelGeneration
<1>15. \A w \in Workers : TakeJob(w) => G
  BY DEF TakeJob
<1>16. \A w \in Workers : ReadTask(w) => G
  <2> TAKE w \in Workers
  <2> HAVE ReadTask(w)
  <2>1. /\ row' = row /\ processor' = processor /\ worker[w].at # "working"
        /\ \A v \in Workers \ {w} : worker'[v] = worker[v]
    BY DEF ReadTask
  <2>2. RunningHasHands
    BY DEF HandsInv
  <2> QED
    BY ONLY <2>1, <2>2 DEF RunningHasHands
<1>17. \A w \in Workers : StartTask(w) => G
  BY DEF StartTask
<1>18. \A w \in Workers : FinishTask(w) => G
  <2> TAKE w \in Workers
  <2> HAVE FinishTask(w)
  <2>1. worker[w].task \in TaskIds
    BY DEF FinishTask
  <2>2. /\ row' = row /\ row[worker[w].task] = "absent"
        \/ row' = [row EXCEPT ![worker[w].task] = "ENDED"]
    BY DEF FinishTask
  <2>3. /\ processor' = processor
        /\ \A v \in Workers \ {w} : worker'[v] = worker[v]
    BY DEF FinishTask
  <2>4. \A t \in TaskIds : row'[t] = "RUNNING" => row[t] = "RUNNING" /\ t # worker[w].task
    BY <2>1, <2>2
  <2>5. ASSUME NEW t \in TaskIds, row'[t] = "RUNNING"
        PROVE  \/ \E v \in Workers : worker'[v].at = "working" /\ worker'[v].task = t
               \/ \E p \in Processors : processor'[p] = t
    <3>1. \/ \E v \in Workers : worker[v].at = "working" /\ worker[v].task = t
          \/ \E p \in Processors : processor[p] = t
      BY <2>4, <2>5
    <3>2. t # worker[w].task
      BY <2>4, <2>5
    <3> QED
      BY ONLY <2>3, <3>1, <3>2
  <2> QED
    BY <2>5
<1>19. \A p \in Processors : TakeRow(p) => G
  BY DEF TakeRow
<1>20. \A p \in Processors : CompleteRow(p) => G
  BY DEF CompleteRow
<1>21. FetchRows => G
  BY <1>a DEF FetchRows
<1>22. PickRow => G
  BY <1>a DEF PickRow
<1>23. MigrateRow => G
  BY <1>a DEF MigrateRow
<1>24. TrackRow => G
  BY <1>a DEF TrackRow
<1> HIDE DEF G, vars
<1>25. G
  BY <1>1, <1>2, <1>3, <1>4, <1>5, <1>6, <1>7, <1>8, <1>9, <1>10, <1>11, <1>12,
     <1>13, <1>14, <1>15, <1>16, <1>17, <1>18, <1>19, <1>20, <1>21, <1>22,
     <1>23, <1>24, RQSteps, Zenon
<1> QED
  BY <1>0, <1>25 DEF G, HandsInv

(* Every RUNNING row is in the hands of a worker or a processor that will  *)
(* write its end, although both queues may serve it at once.               *)
THEOREM HandsAreThere == Spec => []RunningHasHands
<1>1. HandsInv => RunningHasHands
  BY DEF HandsInv
<1> QED
  BY HandsInit, HandsStep, <1>1, PTL DEF Spec

-----------------------------------------------------------------------------
(* No job of the task is queued or in a worker's hands. *)
NoTrace(t) == jobs[t] = 0 /\ \A w \in Workers : worker[w].task # t

(* A submission that has not pushed has left no trace under its id, and a  *)
(* task of the database service has none before it has a row.              *)
Untraced ==
    /\ \A r \in Requests :
          request[r] \in {"new", "unkeyed", "rq", "claimed"} => NoTrace(RQTask(r))
    /\ \A r \in Requests :
          row[TableTask(r)] = "absent" => NoTrace(TableTask(r))

(* PushedOnce needs Untraced for the one push of a submission, and         *)
(* RowsOfStored for the migrations, which push only what has a row.        *)
PushInv == KeyInv /\ Untraced /\ PushedOnce

LEMMA PushInit == Init => PushInv
<1> SUFFICES ASSUME Init PROVE PushInv
  OBVIOUS
<1>1. \A t \in TaskIds : NoTrace(t)
  BY TaskFacts DEF Init, NoTrace, Idle
<1>2. Untraced
  BY <1>1, TaskFacts DEF Untraced
<1>3. PushedOnce
  BY <1>1, TaskFacts DEF PushedOnce, NoTrace, Working
<1> QED
  BY <1>2, <1>3, KeyInvInit DEF PushInv

(* A step that queues nothing and hands no worker a task keeps both, if it *)
(* takes no row and no submission back.                                    *)
Quiet ==
    /\ jobs' = jobs
    /\ \A w \in Workers : worker'[w].task \in {worker[w].task, None}
    /\ \A t \in TaskIds : row'[t] = "absent" => row[t] = "absent"
    /\ \A r \in Requests :
          request'[r] \in {"new", "unkeyed", "rq", "claimed"}
          => request[r] \in {"new", "unkeyed", "rq", "claimed"}

LEMMA QuietKeeps == PushInv /\ Quiet => (Untraced /\ PushedOnce)'
<1> SUFFICES ASSUME PushInv, Quiet PROVE (Untraced /\ PushedOnce)'
  OBVIOUS
<1>1. \A t \in TaskIds : NoTrace(t) => NoTrace(t)'
  BY TaskFacts DEF NoTrace, Quiet
<1>2. Untraced'
  BY <1>1, TaskFacts DEF PushInv, Untraced, Quiet
<1>3. PushedOnce'
  BY TaskFacts DEF PushInv, PushedOnce, Working, Quiet
<1> QED
  BY <1>2, <1>3

(* A job of one task is pushed. *)
Push(t) ==
    /\ jobs' = [jobs EXCEPT ![t] = @ + 1]
    /\ worker' = worker
    /\ row' = row
    /\ \A r \in Requests : RQTask(r) # t => request'[r] = request[r]

(* ... the first of a submission: it leaves the states without a trace.    *)
LEMMA FirstPush ==
    ASSUME PushInv, NEW r \in Requests, request[r] = "claimed", Push(RQTask(r)),
           request'[r] \notin {"new", "unkeyed", "rq", "claimed"}
    PROVE  (Untraced /\ PushedOnce)'
<1> DEFINE t == RQTask(r)
<1>1. t \in TaskIds /\ jobs \in [TaskIds -> Nat] /\ NoTrace(t)
  BY TaskFacts DEF PushInv, KeyInv, RQType, TypeOK, Untraced
<1>2. \A s \in TaskIds : s # t => jobs'[s] = jobs[s]
  BY <1>1 DEF Push
<1>3. jobs'[t] = 1 /\ worker' = worker /\ row' = row
  BY <1>1 DEF Push, NoTrace
<1>4. \A q \in Requests : q # r => RQTask(q) # t /\ request'[q] = request[q]
  BY TaskFacts DEF Push
<1>5. \A q \in Requests : TableTask(q) # t
  BY TaskFacts
<1> HIDE DEF t
<1>6. Untraced'
  <2>1. \A s \in TaskIds : s # t /\ NoTrace(s) => NoTrace(s)'
    BY <1>2, <1>3 DEF NoTrace
  <2>2. ASSUME NEW q \in Requests,
               request'[q] \in {"new", "unkeyed", "rq", "claimed"}
        PROVE  NoTrace(RQTask(q))'
    <3>1. q # r
      BY <2>2
    <3> QED
      BY <1>4, <2>1, <2>2, <3>1, TaskFacts DEF PushInv, Untraced
  <2>3. ASSUME NEW q \in Requests, row'[TableTask(q)] = "absent"
        PROVE  NoTrace(TableTask(q))'
    BY <1>3, <1>5, <2>1, <2>3, TaskFacts DEF PushInv, Untraced
  <2> QED
    BY <2>2, <2>3 DEF Untraced
<1>7. PushedOnce'
  <2> SUFFICES ASSUME NEW s \in TaskIds, row'[s] = "absent"
               PROVE  /\ jobs'[s] = 0 \/ (jobs'[s] = 1 /\ ~Working(s)')
                      /\ \A w, v \in Workers :
                            worker'[w].task = s /\ worker'[v].task = s => w = v
    BY DEF PushedOnce
  <2>1. CASE s = t
    BY <1>1, <1>3, <2>1 DEF NoTrace, Working
  <2>2. CASE s # t
    BY <1>2, <1>3, <2>2 DEF PushInv, PushedOnce, Working
  <2> QED
    BY <2>1, <2>2
<1> QED
  BY <1>6, <1>7

(* ... or one of a task that has a row. *)
LEMMA MigrationPush ==
    ASSUME PushInv, NEW t \in TaskIds, row[t] # "absent", Push(t), request' = request
    PROVE  (Untraced /\ PushedOnce)'
<1>1. jobs \in [TaskIds -> Nat]
  BY DEF PushInv, KeyInv, RQType, TypeOK
<1>2. \A s \in TaskIds : s # t => jobs'[s] = jobs[s]
  BY <1>1 DEF Push
<1>3. worker' = worker /\ row' = row
  BY DEF Push
<1>4. \A s \in TaskIds : s # t /\ NoTrace(s) => NoTrace(s)'
  BY <1>2, <1>3 DEF NoTrace
<1>5. \A r \in Requests : t = RQTask(r) => request[r] = "stored"
  BY DEF PushInv, KeyInv, RowsOfStored
<1>6. Untraced'
  BY <1>3, <1>4, <1>5, TaskFacts DEF PushInv, Untraced
<1>7. PushedOnce'
  BY <1>2, <1>3 DEF PushInv, PushedOnce, Working
<1> QED
  BY <1>6, <1>7

LEMMA PushStep == PushInv /\ [Next]_vars => PushInv'
<1> SUFFICES ASSUME PushInv, [Next]_vars PROVE PushInv'
  OBVIOUS
<1> DEFINE G == (Untraced /\ PushedOnce)'
<1>a. Quiet => G
  BY QuietKeeps
<1>b. /\ KeyInv /\ row \in [TaskIds -> {"absent", "ENDED"} \cup Active]
      /\ request \in [Requests -> {"new", "unkeyed", "rq", "claimed", "table",
                                   "inserting", "queued", "stored", "refused"}]
      /\ worker \in [Workers -> [at : {"idle", "reading", "starting", "working", "failing"},
                                 task : TaskIds \cup {None}]]
      /\ jobs \in [TaskIds -> Nat]
  BY DEF PushInv, KeyInv, RQType, TypeOK
<1> USE DEF store, hands, vars, Active, Go, SetRow, SetKey, Do, Idle
<1> HIDE DEF G
<1>1. UNCHANGED vars => G
  BY <1>a DEF Quiet
<1>2. RedisChanges => G
  BY <1>a DEF RedisChanges, Quiet
<1>3. ModeChanges => G
  BY <1>a DEF ModeChanges, Quiet
<1>4. \A u \in Users : KeyExpires(u) => G
  BY <1>a DEF KeyExpires, Quiet
<1>5. \A r \in Requests : CheckKey(r) => G
  BY <1>a, <1>b DEF CheckKey, Quiet
<1>6. \A r \in Requests : CheckRows(r) => G
  BY <1>a, <1>b DEF CheckRows, Quiet
<1>7. \A r \in Requests : ClaimKey(r) => G
  BY <1>a, <1>b DEF ClaimKey, Quiet
<1>8. \A r \in Requests : ClaimRefused(r) => G
  BY <1>a, <1>b DEF ClaimRefused, Quiet
<1>9. \A r \in Requests : EnqueueToDatabase(r) => G
  BY <1>a, <1>b, TaskFacts DEF EnqueueToDatabase, Quiet
<1>10. \A r \in Requests : EnqueueToRedis(r) => G
  <2> TAKE r \in Requests
  <2> HAVE EnqueueToRedis(r)
  <2>1. Push(RQTask(r)) /\ request[r] = "claimed" /\ request'[r] = "queued"
    BY <1>b, TaskFacts DEF EnqueueToRedis, Push
  <2> QED
    BY <2>1, FirstPush DEF G
<1>11. \A r \in Requests : EnqueueFails(r) => G
  <2> TAKE r \in Requests
  <2> HAVE EnqueueFails(r)
  <2>1. /\ request[r] = "claimed" /\ request' = [request EXCEPT ![r] = "table"]
        /\ worker' = worker /\ row' = row
        /\ jobs' = jobs \/ jobs' = [jobs EXCEPT ![RQTask(r)] = @ + 1]
    BY Zenon DEF EnqueueFails
  <2>2. CASE jobs' = jobs
    BY <1>a, <1>b, <2>1, <2>2 DEF Quiet
  <2>3. CASE jobs' = [jobs EXCEPT ![RQTask(r)] = @ + 1]
    <3>1. Push(RQTask(r)) /\ request'[r] = "table"
      BY <1>b, <2>1, <2>3, TaskFacts DEF Push
    <3> QED
      BY <2>1, <3>1, FirstPush DEF G
  <2> QED
    BY <2>1, <2>2, <2>3
<1>12. \A r \in Requests : FallbackCheck(r) => G
  BY <1>a, <1>b DEF FallbackCheck, Quiet
<1>13. \A r \in Requests : FallbackInsert(r) => G
  BY <1>a, <1>b, TaskFacts DEF FallbackInsert, Quiet
<1>14. \A t \in TaskIds : CancelGeneration(t) => G
  BY <1>a, <1>b DEF CancelGeneration, Quiet
<1>15. \A w \in Workers : TakeJob(w) => G
  <2> TAKE w \in Workers
  <2> HAVE TakeJob(w)
  <2>1. PICK t \in TaskIds : /\ jobs[t] > 0
                            /\ jobs' = [jobs EXCEPT ![t] = @ - 1]
                            /\ worker' = [worker EXCEPT ![w] = [at |-> "reading", task |-> t]]
    BY DEF TakeJob
  <2>2. row' = row /\ request' = request
    BY DEF TakeJob
  <2>3. /\ jobs'[t] = jobs[t] - 1 /\ \A s \in TaskIds : s # t => jobs'[s] = jobs[s]
        /\ worker'[w].task = t /\ \A v \in Workers : v # w => worker'[v] = worker[v]
    BY <1>b, <2>1
  <2>4. \A s \in TaskIds : NoTrace(s) => s # t /\ NoTrace(s)'
    BY <2>1, <2>3 DEF NoTrace
  <2>5. Untraced'
    BY <2>2, <2>4, TaskFacts DEF PushInv, Untraced
  <2>6. PushedOnce'
    <3> SUFFICES ASSUME NEW s \in TaskIds, row'[s] = "absent"
                 PROVE  /\ jobs'[s] = 0 \/ (jobs'[s] = 1 /\ ~Working(s)')
                        /\ \A v, u \in Workers :
                              worker'[v].task = s /\ worker'[u].task = s => v = u
      BY DEF PushedOnce
    <3>1. CASE s = t
      <4>1. jobs[t] = 1 /\ \A v \in Workers : worker[v].task # t
        BY <1>b, <2>1, <2>2, <3>1 DEF PushInv, PushedOnce, Working
      <4> QED
        BY <2>3, <3>1, <4>1
    <3>2. CASE s # t
      <4>1. \A v \in Workers : worker'[v].task = s => worker[v].task = s /\ v # w
        BY <2>3, <3>2
      <4> QED
        BY <2>2, <2>3, <3>2, <4>1 DEF PushInv, PushedOnce, Working
    <3> QED
      BY <3>1, <3>2
  <2> QED
    BY <2>5, <2>6 DEF G
<1>16. \A w \in Workers : ReadTask(w) => G
  <2> TAKE w \in Workers
  <2> HAVE ReadTask(w)
  <2>1. \A v \in Workers : worker'[v].task = worker[v].task
    BY <1>b DEF ReadTask
  <2> QED
    BY <1>a, <2>1 DEF ReadTask, Quiet
<1>17. \A w \in Workers : StartTask(w) => G
  <2> TAKE w \in Workers
  <2> HAVE StartTask(w)
  <2>1. \A v \in Workers : worker'[v].task = worker[v].task
    BY <1>b DEF StartTask
  <2>2. \A t \in TaskIds : row'[t] = "absent" => row[t] = "absent"
    BY <1>b DEF StartTask
  <2> QED
    BY <1>a, <2>1, <2>2 DEF StartTask, Quiet
<1>18. \A w \in Workers : FinishTask(w) => G
  <2> TAKE w \in Workers
  <2> HAVE FinishTask(w)
  <2>1. \A v \in Workers : worker'[v].task \in {worker[v].task, None}
    BY <1>b DEF FinishTask
  <2>2. \A t \in TaskIds : row'[t] = "absent" => row[t] = "absent"
    BY <1>b DEF FinishTask
  <2> QED
    BY <1>a, <2>1, <2>2 DEF FinishTask, Quiet
<1>19. \A p \in Processors : TakeRow(p) => G
  BY <1>a, <1>b DEF TakeRow, Quiet
<1>20. \A p \in Processors : CompleteRow(p) => G
  BY <1>a, <1>b DEF CompleteRow, Quiet
<1>21. FetchRows => G
  BY <1>a DEF FetchRows, Quiet
<1>22. PickRow => G
  BY <1>a DEF PickRow, Quiet
<1>23. MigrateRow => G
  <2> HAVE MigrateRow
  <2>1. /\ migration.task \in TaskIds /\ row[migration.task] # "absent"
        /\ request' = request /\ worker' = worker /\ row' = row
    BY DEF MigrateRow, PushInv, KeyInv, RQType, BusyHasTask, RowsOfStored
  <2>2. CASE redisUp
    <3>1. PICK t \in TaskIds : t = migration.task
      BY <2>1
    <3>2. Push(t)
      BY <2>1, <2>2, <3>1 DEF MigrateRow, Push
    <3> QED
      BY <2>1, <3>1, <3>2, MigrationPush DEF G
  <2>3. CASE ~redisUp
    BY <1>a, <2>1, <2>3 DEF MigrateRow, Quiet
  <2> QED
    BY <2>2, <2>3
<1>24. TrackRow => G
  BY <1>a DEF TrackRow, Quiet
<1> HIDE DEF vars
<1>25. G
  BY <1>1, <1>2, <1>3, <1>4, <1>5, <1>6, <1>7, <1>8, <1>9, <1>10, <1>11, <1>12,
     <1>13, <1>14, <1>15, <1>16, <1>17, <1>18, <1>19, <1>20, <1>21, <1>22,
     <1>23, <1>24, RQSteps, Zenon
<1> QED
  BY <1>25, KeyInvStep DEF G, PushInv

(* A job that no row stands behind is pushed once and taken by one worker, *)
(* whatever fails after its push (_enqueue_to_redis_secure), whatever the  *)
(* fallback inserts and however often rows are migrated.                   *)
THEOREM JobsArePushedOnce == Spec => []PushedOnce
<1>1. PushInv => PushedOnce
  BY DEF PushInv
<1> QED
  BY PushInit, PushStep, <1>1, PTL DEF Spec
=============================================================================
