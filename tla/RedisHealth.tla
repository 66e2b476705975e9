---------------------------- MODULE RedisHealth ----------------------------
(***************************************************************************)
(* The mode RQQueueManager works in (Redis jobs or database rows), and the *)
(* two RedisHealthMonitor objects behind it.  The monitor of the queue     *)
(* manager is run by its own loop AND by every web request that calls      *)
(* check_redis_health(), with no lock of its own; its callbacks switch the *)
(* mode under RQQueueManager._lock, which enqueue_task holds as well.  The *)
(* monitor of the connection manager only resets the reconnection counter. *)
(*                                                                         *)
(* A check is split where the code calls out: the probe (ping, INFO), the  *)
(* bookkeeping on its result, the callbacks.  The bookkeeping is one step: *)
(* it makes no call between its test and its assignments.                  *)
(***************************************************************************)
EXTENDS Integers

CONSTANTS
    QueueLoop,             \* thread of the queue manager's monitor
    ConnectionLoop,        \* thread of the connection manager's monitor
    Requests,              \* web requests that call check_redis_health()
    Enqueuers,             \* threads that call enqueue_task()
    FailureThreshold,      \* RQ_FAILURE_THRESHOLD
    MaxConnectionAttempts, \* _max_connection_attempts
    None

Checkers == {QueueLoop, ConnectionLoop} \cup Requests

ASSUME HealthAssumption ==
    /\ FailureThreshold \in Nat \ {0}
    /\ MaxConnectionAttempts \in Nat
    /\ QueueLoop # ConnectionLoop
    /\ {QueueLoop, ConnectionLoop} \cap Requests = {}
    /\ Checkers \cap Enqueuers = {}
    /\ None \notin Checkers \cup Enqueuers

VARIABLES
    redis,               \* "up", "full" (answers, memory over the limit), "down"
    isHealthy,           \* is_healthy of each monitor
    consecutiveFailures, \* consecutive_failures of each monitor
    step,                \* where each thread is in check_health()
    claim,               \* where each thread is in enqueue_task()
    lock,                \* holder of RQQueueManager._lock
    redisAvailable,      \* _redis_available
    fallbackMode,        \* _fallback_mode
    connectionAttempts,  \* _connection_attempts
    overtaken            \* history: the failure declared last fell into a recovery

monitors == <<isHealthy, consecutiveFailures, overtaken>>
mode     == <<redisAvailable, fallbackMode>>
vars     == <<redis, monitors, step, claim, lock, mode, connectionAttempts>>

Monitors     == {"queue", "connection"}
MonitorOf(t) == IF t = ConnectionLoop THEN "connection" ELSE "queue"

(* The steps of _handle_redis_recovery() with _lock held. *)
Holding == {"locked", "lost", "pinged", "gone"}

(* The threads whose recovery callback of the queue manager waits or works. *)
Recovering == {t \in Checkers : /\ MonitorOf(t) = "queue"
                                /\ step[t] \in {"rose"} \cup Holding}

(* Counters are only compared with their limit, so they stop one past it.  *)
Bumped(n, limit) == IF n < limit THEN n + 1 ELSE n

Move(t, to) == step' = [step EXCEPT ![t] = to]

(* _redis_available and _fallback_mode are only written together. *)
SetMode(rq) == redisAvailable' = rq /\ fallbackMode' = ~rq

Init == /\ redis = "up"
        /\ isHealthy = [m \in Monitors |-> TRUE]
        /\ consecutiveFailures = [m \in Monitors |-> 0]
        /\ step = [t \in Checkers |-> "idle"]
        /\ claim = [e \in Enqueuers |-> "none"]
        /\ lock = None
        /\ redisAvailable = TRUE
        /\ fallbackMode = FALSE
        /\ connectionAttempts = 0
        /\ overtaken = FALSE

(* The Redis server fails, fills up or comes back. *)
RedisChanges ==
    /\ redis' \in {"up", "full", "down"} \ {redis}
    /\ UNCHANGED <<monitors, step, claim, lock, mode, connectionAttempts>>

-----------------------------------------------------------------------------
(* check_health(): the probe and the reading of its answers. *)
Probe(t) ==
    /\ step[t] = "idle"
    /\ Move(t, IF redis = "up" THEN "passed" ELSE "failed")
    /\ UNCHANGED <<redis, monitors, claim, lock, mode, connectionAttempts>>

(* Mutant: the recovery is announced but is_healthy is not set. *)
HandleHealthyCheck_FlagLeft(t) ==
    LET m == MonitorOf(t) IN
    /\ step[t] = "passed"
    /\ consecutiveFailures' = [consecutiveFailures EXCEPT ![m] = 0]
    /\ Move(t, IF isHealthy[m] THEN "idle" ELSE "rose")
    /\ UNCHANGED <<redis, isHealthy, overtaken, claim, lock, mode, connectionAttempts>>

(* _handle_healthy_check() *)
HandleHealthyCheck(t) ==
    LET m == MonitorOf(t) IN
    /\ step[t] = "passed"
    /\ isHealthy' = [isHealthy EXCEPT ![m] = TRUE]
    /\ consecutiveFailures' = [consecutiveFailures EXCEPT ![m] = 0]
    /\ overtaken' = (overtaken /\ m # "queue")
    /\ Move(t, IF isHealthy[m] THEN "idle" ELSE "rose")
    /\ UNCHANGED <<redis, claim, lock, mode, connectionAttempts>>

(* _handle_failed_check() *)
HandleFailedCheck(t) ==
    LET m     == MonitorOf(t)
        count == Bumped(consecutiveFailures[m], FailureThreshold)
        trips == isHealthy[m] /\ count >= FailureThreshold
    IN  /\ step[t] = "failed"
        /\ consecutiveFailures' = [consecutiveFailures EXCEPT ![m] = count]
        /\ isHealthy' = [isHealthy EXCEPT ![m] = @ /\ ~trips]
        /\ overtaken' = IF m = "queue" /\ trips THEN Recovering # {} ELSE overtaken
        /\ Move(t, IF trips THEN "fell" ELSE "idle")
        /\ UNCHANGED <<redis, claim, lock, mode, connectionAttempts>>

(* Mutant: the failure callback does not take the lock. *)
FailureCallback_NoLock(t) ==
    /\ step[t] = "fell"
    /\ IF MonitorOf(t) = "queue" THEN SetMode(FALSE) ELSE UNCHANGED mode
    /\ Move(t, "idle")
    /\ UNCHANGED <<redis, monitors, claim, lock, connectionAttempts>>

(* Mutant: the failure callback gives up when the lock is taken. *)
FailureCallback_TryLock(t) ==
    /\ step[t] = "fell"
    /\ IF MonitorOf(t) = "queue" /\ lock = None THEN SetMode(FALSE)
                                                ELSE UNCHANGED mode
    /\ Move(t, "idle")
    /\ UNCHANGED <<redis, monitors, claim, lock, connectionAttempts>>

(* _trigger_failure_callbacks(): the queue manager falls back to the       *)
(* database under its lock, the connection manager only logs.              *)
FailureCallback(t) ==
    /\ step[t] = "fell"
    /\ IF MonitorOf(t) = "queue" THEN lock = None /\ SetMode(FALSE)
                                 ELSE UNCHANGED mode
    /\ Move(t, "idle")
    /\ UNCHANGED <<redis, monitors, claim, lock, connectionAttempts>>

(* _trigger_recovery_callbacks() of the connection manager. *)
ResetAttempts(t) ==
    /\ step[t] = "rose"
    /\ MonitorOf(t) = "connection"
    /\ connectionAttempts' = 0
    /\ Move(t, "idle")
    /\ UNCHANGED <<redis, monitors, claim, lock, mode>>

-----------------------------------------------------------------------------
(* _handle_redis_recovery() of the queue manager holds _lock from here to  *)
(* Restore or GiveUp, through the pings and the sleep of get_connection(). *)
TakeLock(t) ==
    /\ step[t] = "rose"
    /\ MonitorOf(t) = "queue"
    /\ lock = None
    /\ lock' = t
    /\ Move(t, "locked")
    /\ UNCHANGED <<redis, monitors, claim, mode, connectionAttempts>>

(* Mutant: the limit on reconnection attempts is not looked at. *)
Ping_NoLimit(t) ==
    /\ step[t] = "locked"
    /\ IF redis # "down"
       THEN Move(t, "pinged") /\ UNCHANGED connectionAttempts
       ELSE /\ connectionAttempts' = connectionAttempts + 1
            /\ Move(t, "lost")
    /\ UNCHANGED <<redis, monitors, claim, lock, mode>>

(* get_connection() pings; when that fails _reconnect() counts an attempt. *)
Ping(t) ==
    /\ step[t] = "locked"
    /\ IF redis # "down"
       THEN Move(t, "pinged") /\ UNCHANGED connectionAttempts
       ELSE LET attempt == Bumped(connectionAttempts, MaxConnectionAttempts + 1) IN
            /\ connectionAttempts' = attempt
            /\ Move(t, IF attempt > MaxConnectionAttempts THEN "gone" ELSE "lost")
    /\ UNCHANGED <<redis, monitors, claim, lock, mode>>

(* _reconnect(), after its delay: a new pool and one more ping. *)
Reconnect(t) ==
    /\ step[t] = "lost"
    /\ IF redis # "down"
       THEN Move(t, "pinged") /\ connectionAttempts' = 0
       ELSE Move(t, "gone") /\ UNCHANGED connectionAttempts
    /\ UNCHANGED <<redis, monitors, claim, lock, mode>>

Restore(t) ==
    /\ step[t] = "pinged"
    /\ SetMode(TRUE)
    /\ lock' = None
    /\ Move(t, "idle")
    /\ UNCHANGED <<redis, monitors, claim, connectionAttempts>>

(* get_connection() returned None: the callback returns and changes nothing. *)
GiveUp(t) ==
    /\ step[t] = "gone"
    /\ lock' = None
    /\ Move(t, "idle")
    /\ UNCHANGED <<redis, monitors, claim, mode, connectionAttempts>>

-----------------------------------------------------------------------------
(* enqueue_task() up to _enforce_single_task_per_user(): with Redis the    *)
(* user's key is claimed (a Redis error reads as "has a task" and the call *)
(* raises, releasing the lock); without it the user's rows are looked up.  *)
EnqueueClaims(e) ==
    /\ claim[e] = "none"
    /\ lock = None
    /\ redisAvailable => redis # "down"
    /\ lock' = e
    /\ claim' = [claim EXCEPT ![e] = IF redisAvailable THEN "key" ELSE "rows"]
    /\ UNCHANGED <<redis, monitors, step, mode, connectionAttempts>>

(* The rest of enqueue_task(): a job if the mode says RQ, a row otherwise. *)
EnqueueStores(e) ==
    /\ claim[e] # "none"
    /\ claim' = [claim EXCEPT ![e] = "none"]
    /\ lock' = None
    /\ UNCHANGED <<redis, monitors, step, mode, connectionAttempts>>

(* The store an enqueue_task() that is about to store would use. *)
Store == IF redisAvailable /\ ~fallbackMode THEN "job" ELSE "row"

Callbacks(t) == FailureCallback(t) \/ ResetAttempts(t) \/ TakeLock(t)
Recovery(t)  == Ping(t) \/ Reconnect(t) \/ Restore(t) \/ GiveUp(t)
Handle(t)    == HandleHealthyCheck(t) \/ HandleFailedCheck(t)
Check(t)     == Probe(t) \/ Handle(t) \/ Callbacks(t) \/ Recovery(t)
Enqueue(e)   == EnqueueClaims(e) \/ EnqueueStores(e)

Next == \/ RedisChanges
        \/ \E t \in Checkers : Check(t)
        \/ \E e \in Enqueuers : Enqueue(e)

(* The two loops check for ever; a check that was begun goes on; a thread  *)
(* that waits for the lock gets it if it is free again and again; a thread *)
(* that holds it moves on.  Nothing is assumed of Redis or of requests.    *)
Fairness ==
    /\ WF_vars(Probe(QueueLoop)) /\ WF_vars(Probe(ConnectionLoop))
    /\ \A t \in Checkers : /\ WF_vars(Handle(t) \/ Recovery(t))
                           /\ SF_vars(Callbacks(t))
    /\ \A e \in Enqueuers : WF_vars(EnqueueStores(e))

Spec == Init /\ [][Next]_vars /\ Fairness

-----------------------------------------------------------------------------
TypeOK ==
    /\ redis \in {"up", "full", "down"}
    /\ isHealthy \in [Monitors -> BOOLEAN]
    /\ consecutiveFailures \in [Monitors -> 0 .. FailureThreshold]
    /\ step \in [Checkers -> {"idle", "passed", "failed", "fell", "rose"} \cup Holding]
    /\ claim \in [Enqueuers -> {"none", "key", "rows"}]
    /\ lock \in Checkers \cup Enqueuers \cup {None}
    /\ redisAvailable \in BOOLEAN /\ fallbackMode \in BOOLEAN
    /\ connectionAttempts \in 0 .. MaxConnectionAttempts + 1
    /\ overtaken \in BOOLEAN

(* enqueue_task() stores a task where it claimed the user's slot: no task  *)
(* goes to the database on the strength of a Redis key, which nothing then *)
(* clears, and no job is queued on the strength of a look at the rows,     *)
(* which the next request would not see.  The flags are read twice, once   *)
(* for the claim and once for the store, while Redis comes and goes.       *)
ClaimMatchesStore ==
    \A e \in Enqueuers :
        claim[e] # "none" => (claim[e] = "key" <=> Store = "job")

(* A failure the monitor has declared is acted upon: while is_healthy is   *)
(* False the manager is in database mode, or a failure callback is still   *)
(* to come.  Requests check as well as the loop, before every submission,  *)
(* and one thing undoes it: a recovery callback that was under way when    *)
(* the failure was declared and runs after the failure callback.           *)
DeclaredFailureStands ==
    ~isHealthy["queue"] =>
        \/ fallbackMode
        \/ overtaken
        \/ \E t \in Checkers : MonitorOf(t) = "queue" /\ step[t] = "fell"

(* When Redis fails for good the manager ends in database mode, whatever   *)
(* recoveries came before, unless the failure was declared during one.     *)
DownMeansFallback == <>[](redis # "up") => <>[](fallbackMode \/ overtaken)

(* When Redis is back for good the manager ends in RQ mode. *)
UpMeansRQ == <>[](redis = "up") => <>[]~fallbackMode
=============================================================================
