------------------------- MODULE RedisHealthProofs -------------------------
(***************************************************************************)
(* Proofs about RedisHealth, for any number of requests and enqueuing      *)
(* threads, any failure threshold and any number of reconnection attempts. *)
(***************************************************************************)
EXTENDS RedisHealth, TLAPS

(* The lock is held by exactly the thread that is inside a locked section. *)
LockHeld ==
    /\ \A t \in Checkers : step[t] \in Holding <=> lock = t
    /\ \A e \in Enqueuers : claim[e] # "none" <=> lock = e

ModesOpposed == fallbackMode = ~redisAvailable

LockInv == TypeOK /\ LockHeld /\ ModesOpposed /\ ClaimMatchesStore

(* A recovery callback that is under way while the failure is declared has *)
(* been overtaken by it.                                                   *)
RecoveriesOvertaken == ~isHealthy["queue"] /\ Recovering # {} => overtaken

(* The connection manager's callback resets a counter and takes no lock. *)
OnlyQueueLocks == step[ConnectionLoop] \notin Holding

FailureInv == TypeOK /\ OnlyQueueLocks /\ RecoveriesOvertaken /\ DeclaredFailureStands

-----------------------------------------------------------------------------
(* Every step is one of the handlers, by one thread. *)
LEMMA HealthSteps ==
    ASSUME [Next]_vars,
           NEW G,
           UNCHANGED vars => G,
           RedisChanges => G,
           \A t \in Checkers : Probe(t) => G,
           \A t \in Checkers : HandleHealthyCheck(t) => G,
           \A t \in Checkers : HandleFailedCheck(t) => G,
           \A t \in Checkers : FailureCallback(t) => G,
           \A t \in Checkers : ResetAttempts(t) => G,
           \A t \in Checkers : TakeLock(t) => G,
           \A t \in Checkers : Ping(t) => G,
           \A t \in Checkers : Reconnect(t) => G,
           \A t \in Checkers : Restore(t) => G,
           \A t \in Checkers : GiveUp(t) => G,
           \A e \in Enqueuers : EnqueueClaims(e) => G,
           \A e \in Enqueuers : EnqueueStores(e) => G
    PROVE  G
BY Zenon DEF Next, Check, Handle, Callbacks, Recovery, Enqueue

(* Counting a failure or an attempt stays within its limit. *)
LEMMA BumpedInRange ==
    \A limit \in Nat : \A n \in 0 .. limit : Bumped(n, limit) \in 0 .. limit
BY DEF Bumped

LEMMA MonitorOfType == \A t : MonitorOf(t) \in Monitors
BY DEF MonitorOf, Monitors

(* Each thread is in a state check_health() and enqueue_task() can reach,  *)
(* and the two counters stay within the limits they are compared with.     *)
LEMMA HealthTypeStep == TypeOK /\ [Next]_vars => TypeOK'
<1> SUFFICES ASSUME TypeOK, [Next]_vars PROVE TypeOK'
  OBVIOUS
<1> USE HealthAssumption, MonitorOfType
<1> USE DEF TypeOK, monitors, mode, vars, Move, SetMode, Holding
<1>1. UNCHANGED vars => TypeOK'
  OBVIOUS
<1>2. RedisChanges => TypeOK'
  BY DEF RedisChanges
<1>3. \A t \in Checkers : Probe(t) => TypeOK'
  BY DEF Probe
<1>4. \A t \in Checkers : HandleHealthyCheck(t) => TypeOK'
  BY DEF HandleHealthyCheck
<1>5. \A t \in Checkers : HandleFailedCheck(t) => TypeOK'
  <2> TAKE t \in Checkers
  <2> HAVE HandleFailedCheck(t)
  <2>1. Bumped(consecutiveFailures[MonitorOf(t)], FailureThreshold) \in 0 .. FailureThreshold
    BY BumpedInRange
  <2>2. consecutiveFailures' \in [Monitors -> 0 .. FailureThreshold]
    BY <2>1 DEF HandleFailedCheck
  <2>3. isHealthy' \in [Monitors -> BOOLEAN] /\ step' \in [Checkers -> {"idle", "passed", "failed", "fell", "rose"} \cup Holding]
    BY DEF HandleFailedCheck
  <2> QED
    BY <2>2, <2>3 DEF HandleFailedCheck
<1>6. \A t \in Checkers : FailureCallback(t) => TypeOK'
  BY DEF FailureCallback
<1>7. \A t \in Checkers : ResetAttempts(t) => TypeOK'
  BY DEF ResetAttempts
<1>8. \A t \in Checkers : TakeLock(t) => TypeOK'
  BY DEF TakeLock
<1>9. \A t \in Checkers : Ping(t) => TypeOK'
  <2> TAKE t \in Checkers
  <2> HAVE Ping(t)
  <2>1. Bumped(connectionAttempts, MaxConnectionAttempts + 1) \in 0 .. MaxConnectionAttempts + 1
    BY BumpedInRange
  <2> QED
    BY <2>1 DEF Ping
<1>10. \A t \in Checkers : Reconnect(t) => TypeOK'
  BY DEF Reconnect
<1>11. \A t \in Checkers : Restore(t) => TypeOK'
  BY DEF Restore
<1>12. \A t \in Checkers : GiveUp(t) => TypeOK'
  BY DEF GiveUp
<1>13. \A e \in Enqueuers : EnqueueClaims(e) => TypeOK'
  BY DEF EnqueueClaims
<1>14. \A e \in Enqueuers : EnqueueStores(e) => TypeOK'
  BY DEF EnqueueStores
<1> HIDE DEF TypeOK, vars
<1> QED
  BY <1>1, <1>2, <1>3, <1>4, <1>5, <1>6, <1>7, <1>8, <1>9, <1>10, <1>11,
     <1>12, <1>13, <1>14, HealthSteps, Zenon

LEMMA HealthTypeInit == Init => TypeOK
<1> SUFFICES ASSUME Init PROVE TypeOK
  OBVIOUS
<1>1. consecutiveFailures \in [Monitors -> 0 .. FailureThreshold]
  BY HealthAssumption DEF Init
<1>2. /\ isHealthy \in [Monitors -> BOOLEAN]
      /\ step \in [Checkers -> {"idle", "passed", "failed", "fell", "rose"} \cup Holding]
      /\ claim \in [Enqueuers -> {"none", "key", "rows"}]
  BY DEF Init
<1>3. connectionAttempts \in 0 .. MaxConnectionAttempts + 1
  BY HealthAssumption DEF Init
<1> QED
  BY <1>1, <1>2, <1>3 DEF Init, TypeOK

(* The state of the monitors and of the queue manager stays well formed,   *)
(* in particular the failure and reconnection counters within their limits.*)
THEOREM HealthTypeCorrect == Spec => []TypeOK
BY HealthTypeInit, HealthTypeStep, PTL DEF Spec

-----------------------------------------------------------------------------
LEMMA LockInvInit == Init => LockInv
<1> SUFFICES ASSUME Init PROVE LockInv
  OBVIOUS
<1>1. TypeOK
  BY HealthTypeInit
<1>2. LockHeld
  BY HealthAssumption DEF Init, LockHeld, Holding
<1>3. ModesOpposed /\ ClaimMatchesStore
  BY DEF Init, ModesOpposed, ClaimMatchesStore
<1> QED
  BY <1>1, <1>2, <1>3 DEF LockInv

(* The mode changes only while its writer holds the lock, so it stands     *)
(* still between the claim and the store of an enqueue.                    *)
LEMMA LockInvStep == LockInv /\ [Next]_vars => LockInv'
<1> SUFFICES ASSUME LockInv, [Next]_vars PROVE LockInv'
  OBVIOUS
<1> DEFINE G == (LockHeld /\ ModesOpposed /\ ClaimMatchesStore)'
<1>0. TypeOK'
  BY HealthTypeStep DEF LockInv
<1> USE HealthAssumption
<1> USE DEF LockInv, TypeOK, LockHeld, ModesOpposed, ClaimMatchesStore, Store,
            Holding, monitors, mode, vars, Move, SetMode
<1>1. UNCHANGED vars => G
  OBVIOUS
<1>2. RedisChanges => G
  BY DEF RedisChanges
<1>3. \A t \in Checkers : Probe(t) => G
  BY DEF Probe
<1>4. \A t \in Checkers : HandleHealthyCheck(t) => G
  BY DEF HandleHealthyCheck
<1>5. \A t \in Checkers : HandleFailedCheck(t) => G
  BY DEF HandleFailedCheck
<1>6. \A t \in Checkers : FailureCallback(t) => G
  BY DEF FailureCallback
<1>7. \A t \in Checkers : ResetAttempts(t) => G
  BY DEF ResetAttempts
<1>8. \A t \in Checkers : TakeLock(t) => G
  BY DEF TakeLock
<1>9. \A t \in Checkers : Ping(t) => G
  BY DEF Ping
<1>10. \A t \in Checkers : Reconnect(t) => G
  BY DEF Reconnect
<1>11. \A t \in Checkers : Restore(t) => G
  BY DEF Restore
<1>12. \A t \in Checkers : GiveUp(t) => G
  BY DEF GiveUp
<1>13. \A e \in Enqueuers : EnqueueClaims(e) => G
  <2> TAKE e \in Enqueuers
  <2> HAVE EnqueueClaims(e)
  <2>1. /\ \A t \in Checkers : step[t] \notin Holding
        /\ \A f \in Enqueuers : claim[f] = "none"
    BY DEF EnqueueClaims
  <2>2. /\ lock' = e /\ step' = step
        /\ claim' = [claim EXCEPT ![e] = IF redisAvailable THEN "key" ELSE "rows"]
        /\ redisAvailable' = redisAvailable /\ fallbackMode' = fallbackMode
    BY DEF EnqueueClaims
  <2>3. LockHeld'
    BY <2>1, <2>2
  <2>4. ClaimMatchesStore'
    BY <2>1, <2>2
  <2> QED
    BY <2>2, <2>3, <2>4
<1>14. \A e \in Enqueuers : EnqueueStores(e) => G
  BY DEF EnqueueStores
<1> HIDE DEF G, vars
<1>15. G
  BY <1>1, <1>2, <1>3, <1>4, <1>5, <1>6, <1>7, <1>8, <1>9, <1>10, <1>11,
     <1>12, <1>13, <1>14, HealthSteps, Zenon
<1> QED
  BY <1>0, <1>15 DEF G

(* An enqueue stores its task where it claimed the user's slot, whatever   *)
(* Redis, the monitors and the web requests do meanwhile.                  *)
THEOREM ClaimsMatchStores == Spec => []ClaimMatchesStore
<1>1. LockInv => ClaimMatchesStore
  BY DEF LockInv
<1> QED
  BY LockInvInit, LockInvStep, <1>1, PTL DEF Spec

-----------------------------------------------------------------------------
(* A failure is declared with its callback to come, and what turns RQ mode *)
(* on later was under way by then or follows a recovery.                   *)
LEMMA FailureInvStep == FailureInv /\ [Next]_vars => FailureInv'
<1> SUFFICES ASSUME FailureInv, [Next]_vars PROVE FailureInv'
  OBVIOUS
<1> DEFINE G == (OnlyQueueLocks /\ RecoveriesOvertaken /\ DeclaredFailureStands)'
<1>0. TypeOK'
  BY HealthTypeStep DEF FailureInv
<1> USE HealthAssumption
<1> USE DEF FailureInv, TypeOK, OnlyQueueLocks, RecoveriesOvertaken, DeclaredFailureStands, Recovering,
            Holding, monitors, mode, vars, Move, SetMode, MonitorOf, Monitors
<1>1. UNCHANGED vars => G
  OBVIOUS
<1>2. RedisChanges => G
  BY DEF RedisChanges
<1>3. \A t \in Checkers : Probe(t) => G
  BY DEF Probe
<1>4. \A t \in Checkers : HandleHealthyCheck(t) => G
  BY DEF HandleHealthyCheck
<1>5. \A t \in Checkers : HandleFailedCheck(t) => G
  BY DEF HandleFailedCheck
<1>6. \A t \in Checkers : FailureCallback(t) => G
  <2> TAKE t \in Checkers
  <2> HAVE FailureCallback(t)
  <2>1. CASE MonitorOf(t) = "queue"
    <3>1. fallbackMode' /\ isHealthy' = isHealthy /\ overtaken' = overtaken
      BY <2>1 DEF FailureCallback
    <3>2. step' = [step EXCEPT ![t] = "idle"]
      BY DEF FailureCallback
    <3> QED
      BY <3>1, <3>2
  <2>2. CASE MonitorOf(t) # "queue"
    <3>1. fallbackMode' = fallbackMode /\ isHealthy' = isHealthy /\ overtaken' = overtaken
      BY <2>2 DEF FailureCallback
    <3>2. step' = [step EXCEPT ![t] = "idle"]
      BY DEF FailureCallback
    <3>3. DeclaredFailureStands'
      BY <2>2, <3>1, <3>2
    <3> QED
      BY <3>1, <3>2, <3>3
  <2> QED
    BY <2>1, <2>2
<1>7. \A t \in Checkers : ResetAttempts(t) => G
  BY DEF ResetAttempts
<1>8. \A t \in Checkers : TakeLock(t) => G
  BY DEF TakeLock
<1>9. \A t \in Checkers : Ping(t) => G
  <2> TAKE t \in Checkers
  <2> HAVE Ping(t)
  <2>1. step[t] = "locked" /\ \E to \in {"pinged", "gone", "lost"} : step' = [step EXCEPT ![t] = to]
    BY DEF Ping
  <2>2. /\ isHealthy' = isHealthy /\ overtaken' = overtaken
        /\ fallbackMode' = fallbackMode
    BY DEF Ping
  <2> QED
    BY <2>1, <2>2
<1>10. \A t \in Checkers : Reconnect(t) => G
  <2> TAKE t \in Checkers
  <2> HAVE Reconnect(t)
  <2>1. step[t] = "lost" /\ \E to \in {"pinged", "gone"} : step' = [step EXCEPT ![t] = to]
    BY DEF Reconnect
  <2>2. /\ isHealthy' = isHealthy /\ overtaken' = overtaken
        /\ fallbackMode' = fallbackMode
    BY DEF Reconnect
  <2> QED
    BY <2>1, <2>2
<1>11. \A t \in Checkers : Restore(t) => G
  BY DEF Restore
<1>12. \A t \in Checkers : GiveUp(t) => G
  BY DEF GiveUp
<1>13. \A e \in Enqueuers : EnqueueClaims(e) => G
  BY DEF EnqueueClaims
<1>14. \A e \in Enqueuers : EnqueueStores(e) => G
  BY DEF EnqueueStores
<1> HIDE DEF G, vars
<1>15. G
  BY <1>1, <1>2, <1>3, <1>4, <1>5, <1>6, <1>7, <1>8, <1>9, <1>10, <1>11,
     <1>12, <1>13, <1>14, HealthSteps, Zenon
<1> QED
  BY <1>0, <1>15 DEF G

(* However many requests check beside the loop, a failure that was declared*)
(* keeps the manager in database mode until a recovery, unless a recovery  *)
(* callback was already under way when it was declared.                    *)
THEOREM FailuresStand == Spec => []DeclaredFailureStands
<1>1. Init => FailureInv
  BY HealthTypeInit DEF Init, FailureInv, OnlyQueueLocks, RecoveriesOvertaken, DeclaredFailureStands, Holding, Monitors, Checkers
<1>2. FailureInv => DeclaredFailureStands
  BY DEF FailureInv
<1> QED
  BY <1>1, <1>2, FailureInvStep, PTL DEF Spec
=============================================================================
