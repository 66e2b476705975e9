--------------------------- MODULE StorageLimits ---------------------------
(***************************************************************************)
(* The limit on storage/images: the generations of the web service scan    *)
(* the directory before they start (StorageLimitEnforcer), main.py stores  *)
(* images and asks nobody; a key in Redis blocks the first, administrators *)
(* delete files (StorageCleanupIntegration) and suspend the limit for some *)
(* hours (StorageOverrideSystem).  Every request builds its own objects,   *)
(* so the locks in them exclude nobody and the caches of the monitors live *)
(* as long as one request: what the requests share is the directory, the   *)
(* key and the table of overrides.                                         *)
(***************************************************************************)
EXTENDS Naturals

CONSTANTS
  Generations,      \* generations of the web service, which ask before they start
  Overriding,       \* those whose enforcer was built with a db_manager
  Cleaners,         \* administrators' clean-up requests
  Requests,         \* bound: override requests handled at a time
  Limit,            \* CAPTION_MAX_STORAGE_GB, in images
  MaxUsed,          \* bound: images in the directory
  Faults            \* "redis": Redis may be away; "disk": files unreadable

ASSUME ConstantsAssumption ==
  /\ Overriding \subseteq Generations
  /\ Limit \in Nat \ {0} /\ MaxUsed \in Nat /\ Requests \in Nat
  /\ Faults \subseteq {"redis", "disk"}

VARIABLES
  used,             \* images in storage/images
  blocked,          \* the key vedfolnir:storage:blocking_state says is_blocked
  redisUp, diskOk,  \* the environment
  check,            \* where each generation is
  cleanup,          \* each clean-up: its step, the kind, the metrics it read
  overrides,        \* how many rows of storage_overrides are active and unexpired
  validated         \* how many requests to activate one found none

storageVars  == <<used, blocked>>
faultVars    == <<redisUp, diskOk>>
overrideVars == <<overrides, validated>>
vars == <<storageVars, faultVars, check, cleanup, overrideVars>>

CheckSteps  == {"idle", "over", "refuse", "under", "lift", "working"}
CleanupSteps == {"idle", "delete", "compare", "read", "unblock"}
Idle == [at |-> "idle", kind |-> "full", before |-> 0]

TypeOK ==
  /\ used \in Nat
  /\ blocked \in BOOLEAN /\ redisUp \in BOOLEAN /\ diskOk \in BOOLEAN
  /\ check \in [Generations -> CheckSteps]
  /\ cleanup \in [Cleaners -> [at: CleanupSteps, kind: {"full", "images"}, before: Nat]]
  /\ overrides \in Nat /\ validated \in 0 .. Requests

Init ==
  /\ used = 0
  /\ blocked = FALSE /\ redisUp = TRUE /\ diskOk = TRUE
  /\ check = [g \in Generations |-> "idle"]
  /\ cleanup = [c \in Cleaners |-> Idle]
  /\ overrides = 0 /\ validated = 0

-----------------------------------------------------------------------------
(* The monitor                                                             *)

\* What calculate_total_storage_bytes may return: files whose size cannot be
\* read count as nothing, and a scan that fails as a whole is taken for a
\* full directory.
Scans == IF diskOk THEN {used} ELSE (0 .. used) \cup {Limit}

Exceeded(size) == size >= Limit

-----------------------------------------------------------------------------
(* A generation                                                            *)

Goto(g, step) == check' = [check EXCEPT ![g] = step]

Admit(g) == Goto(g, "working")

\* check_storage_before_generation up to its first condition: the scan.  The
\* expired overrides it marks as ended are read by nobody.
CheckStorage(g) ==
  /\ check[g] = "idle" /\ redisUp
  /\ \E size \in Scans : Goto(g, IF Exceeded(size) THEN "over" ELSE "under")
  /\ UNCHANGED <<storageVars, faultVars, cleanup, overrideVars>>

\* Without Redis no enforcer can be built, and the generation goes on.
SkipCheck(g) ==
  /\ check[g] = "idle" /\ ~redisUp
  /\ Admit(g)
  /\ UNCHANGED <<storageVars, faultVars, cleanup, overrideVars>>

\* A row of storage_overrides that is active and unexpired, for those who
\* have a database to ask.
IsOverrideActive(g) == g \in Overriding /\ overrides > 0

\* The directory is full: an active override admits the generation, also
\* when it ends before its row is read a second time, for the exception this
\* causes does not stop the caller.
ConsultOverride(g) ==
  /\ check[g] = "over"
  /\ IF IsOverrideActive(g) THEN Admit(g) ELSE Goto(g, "refuse")
  /\ UNCHANGED <<storageVars, faultVars, cleanup, overrideVars>>

\* _enforce_storage_limit; the generation is refused even if the key could
\* not be written.
Refuse(g) ==
  /\ check[g] = "refuse"
  /\ blocked' = IF redisUp THEN TRUE ELSE blocked
  /\ Goto(g, "idle")
  /\ UNCHANGED <<used, faultVars, cleanup, overrideVars>>

\* Mutant: a block is read and left to the administrators.
ReadBlock_Ignored(g) ==
  /\ check[g] = "under"
  /\ Admit(g)
  /\ UNCHANGED <<storageVars, faultVars, cleanup, overrideVars>>

\* The directory is not full: a block that stands is lifted.  An error of
\* Redis here becomes StorageCheckError, which does not stop the caller.
ReadBlock(g) ==
  /\ check[g] = "under"
  /\ IF redisUp /\ blocked THEN Goto(g, "lift") ELSE Admit(g)
  /\ UNCHANGED <<storageVars, faultVars, cleanup, overrideVars>>

LiftBlock(g) ==
  /\ check[g] = "lift"
  /\ blocked' = (blocked /\ ~redisUp)
  /\ Admit(g)
  /\ UNCHANGED <<used, faultVars, cleanup, overrideVars>>

\* What it goes on to do stores no image here: the adapter passes a post's
\* author as a string, get_or_create_post refuses it, and the post is given up
\* before its images are downloaded.
EndGeneration(g) ==
  /\ check[g] = "working"
  /\ Goto(g, "idle")
  /\ UNCHANGED <<storageVars, faultVars, cleanup, overrideVars>>

\* main.py downloads an image and stores it, limit, block and Redis or not
\* (a file that is there is not stored again, a failed download stores none).
StoreImage ==
  /\ used < MaxUsed
  /\ used' = used + 1
  /\ UNCHANGED <<blocked, faultVars, check, cleanup, overrideVars>>

-----------------------------------------------------------------------------
(* An administrator's clean-up                                             *)

CleanupIs(c, step) == cleanup[c].at = step
CleanupGoes(c, step) ==
  cleanup' = [cleanup EXCEPT ![c] = IF step = "compare" THEN [@ EXCEPT !.at = step]
                                    ELSE [Idle EXCEPT !.at = step]]

\* The metrics before; those of a clean-up of images are looked at again.
StartCleanup(c) ==
  /\ CleanupIs(c, "idle")
  /\ \E size \in Scans, kind \in {"full", "images"} :
       cleanup' = [cleanup EXCEPT ![c] =
                     [at |-> "delete", kind |-> kind,
                      before |-> IF kind = "full" THEN 0 ELSE size]]
  /\ UNCHANGED <<storageVars, faultVars, check, overrideVars>>

\* Old files are deleted.  The clean-up of images scans again when it deleted
\* any, to report what it freed; the full clean-up scans in any case, and
\* asks for the block if the directory is not full.
DeleteFiles(c) ==
  /\ CleanupIs(c, "delete")
  /\ \E n \in 0 .. used :
       /\ used' = used - n
       /\ CleanupGoes(c, CASE cleanup[c].kind = "full" -> "read"
                           [] n > 0 -> "compare"
                           [] OTHER -> "idle")
  /\ UNCHANGED <<blocked, faultVars, check, overrideVars>>

\* Only a clean-up that sees fewer bytes than before looks at the limit.
CompareSizes(c) ==
  /\ CleanupIs(c, "compare")
  /\ \E size \in Scans :
       CleanupGoes(c, IF cleanup[c].before > size THEN "read" ELSE "idle")
  /\ UNCHANGED <<storageVars, faultVars, check, overrideVars>>

\* recalculate_storage_after_cleanup, check_and_lift_storage_limits; an error
\* of Redis counts as a block.
ReadAfterCleanup(c) ==
  /\ CleanupIs(c, "read")
  /\ \E size \in Scans :
       CleanupGoes(c, IF ~Exceeded(size) /\ (blocked \/ ~redisUp)
                        THEN "unblock" ELSE "idle")
  /\ UNCHANGED <<storageVars, faultVars, check, overrideVars>>

\* unblock_caption_generation.
Unblock(c) ==
  /\ CleanupIs(c, "unblock")
  /\ blocked' = (blocked /\ ~redisUp)
  /\ CleanupGoes(c, "idle")
  /\ UNCHANGED <<used, faultVars, check, overrideVars>>

-----------------------------------------------------------------------------
(* Overrides                                                               *)

\* Mutant: the active override is not looked for.
ValidateActivation_Blind ==
  /\ validated < Requests
  /\ validated' = validated + 1
  /\ UNCHANGED <<storageVars, faultVars, check, cleanup, overrides>>

\* activate_override reads the active override in one session ...
ValidateActivation ==
  /\ validated < Requests /\ overrides = 0
  /\ validated' = validated + 1
  /\ UNCHANGED <<storageVars, faultVars, check, cleanup, overrides>>

\* ... and inserts the row in another, or fails to.
InsertOverride ==
  /\ validated > 0
  /\ validated' = validated - 1
  /\ overrides' \in {overrides, overrides + 1}
  /\ UNCHANGED <<storageVars, faultVars, check, cleanup>>

\* Mutant: an override that another request has ended is ended again.
EndOverride_Again ==
  /\ overrides' = overrides - 1
  /\ UNCHANGED <<storageVars, faultVars, check, cleanup, validated>>

\* deactivate_override ends the first active row; or its time is over.
EndOverride ==
  /\ overrides > 0
  /\ overrides' = overrides - 1
  /\ UNCHANGED <<storageVars, faultVars, check, cleanup, validated>>

-----------------------------------------------------------------------------
RedisChanges ==
  /\ "redis" \in Faults
  /\ redisUp' = ~redisUp
  /\ UNCHANGED <<storageVars, diskOk, check, cleanup, overrideVars>>

DiskChanges ==
  /\ "disk" \in Faults
  /\ diskOk' = ~diskOk
  /\ UNCHANGED <<storageVars, redisUp, check, cleanup, overrideVars>>

\* The steps of a check or a clean-up that has begun.
GenerationStep(g) ==
  \/ ConsultOverride(g) \/ Refuse(g) \/ ReadBlock(g) \/ LiftBlock(g)
  \/ EndGeneration(g)
CleanupStep(c) ==
  \/ DeleteFiles(c) \/ CompareSizes(c) \/ ReadAfterCleanup(c) \/ Unblock(c)

Next ==
  \/ \E g \in Generations :
       CheckStorage(g) \/ SkipCheck(g) \/ GenerationStep(g)
  \/ StoreImage
  \/ \E c \in Cleaners : StartCleanup(c) \/ CleanupStep(c)
  \/ ValidateActivation \/ InsertOverride \/ EndOverride
  \/ RedisChanges \/ DiskChanges

\* A request runs to its end; nobody has to make one.
Fairness ==
  /\ \A g \in Generations : WF_vars(GenerationStep(g))
  /\ \A c \in Cleaners : WF_vars(CleanupStep(c))

Spec == Init /\ [][Next]_vars /\ Fairness

-----------------------------------------------------------------------------
(* Properties                                                              *)

\* "An override is already active" is read before the row is inserted and by
\* no lock the requests share: there are several active overrides, but never
\* more than there are requests at a time, however often they are repeated.
OverridesBounded == overrides <= Requests

\* A block set on an old scan may stand over a directory that is not full,
\* and nothing lifts it by itself.  But if the directory stays below its
\* limit, Redis and the disk answer, and someone keeps asking for captions,
\* it is lifted and stays lifted.
BlockLifted ==
  /\ <>[](used < Limit /\ redisUp /\ diskOk)
  /\ \E g \in Generations : []<><<CheckStorage(g)>>_vars
  => <>[]~blocked
=============================================================================
