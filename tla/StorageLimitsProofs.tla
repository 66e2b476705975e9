------------------------ MODULE StorageLimitsProofs ------------------------
(***************************************************************************)
(* For any number of generations, images and administrators no more        *)
(* overrides are active than requests are handled at a time                *)
(* (ActiveOverridesBounded).                                               *)
(***************************************************************************)
EXTENDS StorageLimits, TLAPS

\* A request that found no override counts as the override it may insert.
RequestsCount == overrides + validated <= Requests

-----------------------------------------------------------------------------
LEMMA StorageTypeInit == Init => TypeOK
<1> SUFFICES ASSUME Init PROVE TypeOK
  OBVIOUS
<1>1. check \in [Generations -> CheckSteps]
  BY DEF Init, CheckSteps
<1>2. cleanup \in [Cleaners -> [at: CleanupSteps, kind: {"full", "images"}, before: Nat]]
  BY DEF Init, Idle, CleanupSteps
<1>3. /\ overrides \in Nat /\ validated \in 0 .. Requests
      /\ used \in Nat
  BY ConstantsAssumption DEF Init
<1> QED
  BY <1>1, <1>2, <1>3 DEF Init, TypeOK

LEMMA StorageTypeStep == TypeOK /\ [Next]_vars => TypeOK'
<1> SUFFICES ASSUME TypeOK, [Next]_vars PROVE TypeOK'
  OBVIOUS
<1> USE ConstantsAssumption DEF TypeOK, storageVars, faultVars, overrideVars
<1>1. ASSUME NEW g \in Generations, CheckStorage(g) PROVE TypeOK'
  BY <1>1 DEF CheckStorage, Goto, CheckSteps
<1>2. ASSUME NEW g \in Generations, Admit(g) PROVE check' \in [Generations -> CheckSteps]
  BY <1>2 DEF Admit, Goto, CheckSteps
<1>3. ASSUME NEW g \in Generations, SkipCheck(g) PROVE TypeOK'
  BY <1>3, <1>2 DEF SkipCheck
<1>4. ASSUME NEW g \in Generations, ConsultOverride(g) PROVE TypeOK'
  BY <1>4, <1>2 DEF ConsultOverride, Goto, CheckSteps
<1>5. ASSUME NEW g \in Generations, Refuse(g) PROVE TypeOK'
  BY <1>5 DEF Refuse, Goto, CheckSteps
<1>6. ASSUME NEW g \in Generations, ReadBlock(g) PROVE TypeOK'
  BY <1>6, <1>2 DEF ReadBlock, Goto, CheckSteps
<1>7. ASSUME NEW g \in Generations, LiftBlock(g) PROVE TypeOK'
  BY <1>7, <1>2 DEF LiftBlock
<1>8. CASE StoreImage
  BY <1>8 DEF StoreImage
<1>9. ASSUME NEW g \in Generations, EndGeneration(g) PROVE TypeOK'
  BY <1>9 DEF EndGeneration, Goto, CheckSteps
<1>10. Scans \subseteq Nat
  BY DEF Scans
<1>11. ASSUME NEW c \in Cleaners, StartCleanup(c) PROVE TypeOK'
  BY <1>11, <1>10 DEF StartCleanup, CleanupSteps
<1>0. ASSUME NEW c \in Cleaners, NEW step \in CleanupSteps, CleanupGoes(c, step)
      PROVE  cleanup' \in [Cleaners -> [at: CleanupSteps, kind: {"full", "images"}, before: Nat]]
  BY <1>0 DEF CleanupGoes, Idle, CleanupSteps
<1>12. ASSUME NEW c \in Cleaners, DeleteFiles(c) PROVE TypeOK'
  BY <1>0, <1>12 DEF DeleteFiles, CleanupSteps
<1>13. ASSUME NEW c \in Cleaners, CompareSizes(c) PROVE TypeOK'
  BY <1>0, <1>13 DEF CompareSizes, CleanupSteps
<1>14. ASSUME NEW c \in Cleaners, ReadAfterCleanup(c) PROVE TypeOK'
  BY <1>0, <1>14 DEF ReadAfterCleanup, CleanupSteps
<1>15. ASSUME NEW c \in Cleaners, Unblock(c) PROVE TypeOK'
  BY <1>0, <1>15 DEF Unblock, CleanupSteps
<1>16. CASE ValidateActivation \/ InsertOverride \/ EndOverride
  BY <1>16 DEF ValidateActivation, InsertOverride, EndOverride
<1>17. CASE RedisChanges \/ DiskChanges
  BY <1>17 DEF RedisChanges, DiskChanges
<1>18. CASE UNCHANGED vars
  BY <1>18 DEF vars
<1> QED
  BY <1>1, <1>3, <1>4, <1>5, <1>6, <1>7, <1>8, <1>9, <1>11, <1>12, <1>13,
     <1>14, <1>15, <1>16, <1>17, <1>18 DEF Next, GenerationStep, CleanupStep

(* The counters and the step of every request stay where they belong, for  *)
(* any number of generations, clean-ups and files.                         *)
THEOREM StorageTypeCorrect == Spec => []TypeOK
  BY StorageTypeInit, StorageTypeStep, PTL DEF Spec

-----------------------------------------------------------------------------
LEMMA RequestsCountStep == TypeOK /\ RequestsCount /\ [Next]_vars => RequestsCount'
<1> SUFFICES ASSUME TypeOK, RequestsCount, [Next]_vars PROVE RequestsCount'
  OBVIOUS
<1>1. overrides \in Nat /\ validated \in Nat /\ Requests \in Nat
  BY ConstantsAssumption DEF TypeOK
<1>2. CASE ValidateActivation
  BY <1>1, <1>2 DEF ValidateActivation, RequestsCount
<1>3. CASE InsertOverride
  <2>1. /\ validated' = validated - 1
        /\ overrides' = overrides \/ overrides' = overrides + 1
    BY <1>3 DEF InsertOverride
  <2> QED
    BY <1>1, <2>1 DEF RequestsCount
<1>4. CASE EndOverride
  BY <1>1, <1>4 DEF EndOverride, RequestsCount
<1>5. ASSUME UNCHANGED overrideVars PROVE RequestsCount'
  BY <1>5 DEF overrideVars, RequestsCount
<1>6. ASSUME NEW g \in Generations,
             CheckStorage(g) \/ SkipCheck(g) \/ GenerationStep(g)
      PROVE  UNCHANGED overrideVars
  BY <1>6 DEF CheckStorage, SkipCheck, GenerationStep, ConsultOverride,
              Refuse, ReadBlock, LiftBlock, EndGeneration
<1>7. ASSUME NEW c \in Cleaners, StartCleanup(c) \/ CleanupStep(c)
      PROVE  UNCHANGED overrideVars
  BY <1>7 DEF StartCleanup, CleanupStep, DeleteFiles, CompareSizes,
              ReadAfterCleanup, Unblock
<1>8. CASE StoreImage \/ RedisChanges \/ DiskChanges \/ UNCHANGED vars
  BY <1>5, <1>8 DEF StoreImage, RedisChanges, DiskChanges, vars
<1> QED
  BY <1>2, <1>3, <1>4, <1>5, <1>6, <1>7, <1>8 DEF Next

(* However activations, deactivations and expiries interleave, there are   *)
(* never more active overrides than requests handled at a time.            *)
THEOREM ActiveOverridesBounded == Spec => []OverridesBounded
<1>1. Init => RequestsCount
  BY ConstantsAssumption DEF Init, RequestsCount
<1>2. TypeOK /\ RequestsCount => OverridesBounded
  BY ConstantsAssumption DEF TypeOK, RequestsCount, OverridesBounded
<1> QED
  BY <1>1, <1>2, StorageTypeInit, StorageTypeStep, RequestsCountStep, PTL DEF Spec
=============================================================================
