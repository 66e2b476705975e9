------------------------ MODULE OperationLocksProofs ------------------------
(***************************************************************************)
(* For every number of threads, keys and nested blocks: a block keeps the  *)
(* key it was given until it ends, its lock expires or is removed by force *)
(* (BlocksAreProtected), and so two threads work under one key only when   *)
(* one of them has outlived its lock (Exclusive).                          *)
(***************************************************************************)
EXTENDS OperationLocks, TLAPS

Blocks(t) == 1 .. Len(frames[t])

\* No two blocks generated the same id, nor will the next one.
IdsAreFresh ==
  /\ \A t \in Threads : \A i \in Blocks(t) : frames[t][i].id < nextId
  /\ \A t, u \in Threads : \A i \in Blocks(t), j \in Blocks(u) :
       frames[t][i].id = frames[u][j].id => t = u /\ i = j

\* The lock of a block was made by that block or by one around it.
LocksComeFromOutside ==
  \A t \in Threads : \A i \in Blocks(t) :
    \E j \in 1 .. i : frames[t][j].id = frames[t][i].got

\* A lock in the table was made by a block that has not ended.
LocksHaveBlocks ==
  \A k \in Keys : active[k] # Free =>
    \E i \in Blocks(active[k].owner) : frames[active[k].owner][i].id = active[k].id

IInv ==
  /\ TypeOK
  /\ IdsAreFresh
  /\ LocksComeFromOutside
  /\ LocksHaveBlocks
  /\ BlocksAreProtected

-----------------------------------------------------------------------------
\* What entering a block does to the blocks: one more on top of the thread's.
LEMMA Entered ==
  ASSUME TypeOK, NEW t \in Threads, NEW k \in Keys, NEW got \in Ids,
         Enter(t, k, got)
  PROVE  /\ nextId \in Ids /\ nextId' = nextId + 1
         /\ frames' \in [Threads -> Seq(Frame)]
         /\ Blocks(t)' = 1 .. Len(frames[t]) + 1
         /\ frames'[t][Len(frames[t]) + 1] = [key |-> k, id |-> nextId, got |-> got]
         /\ \A i \in Blocks(t) : frames'[t][i] = frames[t][i]
         /\ \A u \in Threads \ {t} : frames'[u] = frames[u]
         /\ UNCHANGED <<expired, revoked, cleaner>>
<1> DEFINE f == [key |-> k, id |-> nextId, got |-> got]
<1>1. nextId \in Ids /\ nextId' = nextId + 1
  BY ConstantsAssumption DEF Enter, TypeOK, Ids
<1>2. f \in Frame
  BY <1>1 DEF Frame
<1>3. frames[t] \in Seq(Frame) /\ frames' = [frames EXCEPT ![t] = Append(@, f)]
  BY DEF TypeOK, Enter
<1> HIDE DEF f
<1>4. frames'[t] = Append(frames[t], f)
  BY <1>3 DEF TypeOK
<1>5. frames' \in [Threads -> Seq(Frame)]
  BY <1>2, <1>3 DEF TypeOK
<1>6. \A u \in Threads \ {t} : frames'[u] = frames[u]
  BY <1>3 DEF TypeOK
<1>7. /\ Len(frames'[t]) = Len(frames[t]) + 1
      /\ frames'[t][Len(frames[t]) + 1] = f
      /\ \A i \in 1 .. Len(frames[t]) : frames'[t][i] = frames[t][i]
  BY <1>2, <1>3, <1>4
<1> QED
  BY <1>1, <1>5, <1>6, <1>7 DEF Blocks, f, Enter

\* What leaving a block does: the innermost is gone.
LEMMA Left ==
  ASSUME TypeOK, NEW t \in Threads, frames[t] # <<>>, Leave(t)
  PROVE  /\ Len(frames[t]) \in Nat \ {0}
         /\ frames' \in [Threads -> Seq(Frame)]
         /\ Blocks(t)' = 1 .. Len(frames[t]) - 1
         /\ \A i \in Blocks(t)' : frames'[t][i] = frames[t][i]
         /\ \A u \in Threads \ {t} : frames'[u] = frames[u]
<1>1. frames[t] \in Seq(Frame) /\ Len(frames[t]) \in Nat \ {0}
  BY DEF TypeOK
<1>2. frames'[t] = SubSeq(frames[t], 1, Len(frames[t]) - 1)
  BY DEF TypeOK, Leave
<1>3. /\ frames'[t] \in Seq(Frame)
      /\ Len(frames'[t]) = Len(frames[t]) - 1
      /\ \A i \in 1 .. Len(frames[t]) - 1 : frames'[t][i] = frames[t][i]
  BY <1>1, <1>2
<1>4. \A u \in Threads \ {t} : frames'[u] = frames[u]
  BY DEF TypeOK, Leave
<1>5. frames' \in [Threads -> Seq(Frame)]
  BY <1>1, <1>3 DEF TypeOK, Leave
<1> QED
  BY <1>1, <1>3, <1>4, <1>5 DEF Blocks

LEMMA FrameType ==
  ASSUME TypeOK, NEW t \in Threads, NEW i \in Blocks(t)
  PROVE  frames[t][i] \in Frame /\ i \in Nat
<1>1. frames[t] \in Seq(Frame)
  BY DEF TypeOK
<1> QED
  BY <1>1 DEF Blocks

-----------------------------------------------------------------------------
LEMMA InvInit == Init => IInv
<1> SUFFICES ASSUME Init PROVE IInv
  OBVIOUS
<1>1. TypeOK
  BY ConstantsAssumption DEF Init, TypeOK, Ids
<1>2. \A t \in Threads : Blocks(t) = {}
  BY DEF Init, Blocks
<1> QED
  BY <1>1, <1>2 DEF Init, IInv, IdsAreFresh, LocksComeFromOutside,
                    LocksHaveBlocks, BlocksAreProtected, Blocks

\* A block is entered with a new lock, or with the one the thread holds.
LEMMA AcquirePreserves ==
  ASSUME IInv, NEW t \in Threads, NEW k \in Keys, AcquireLock(t, k)
  PROVE  IInv'
<1> DEFINE held == active[k] # Free /\ active[k].id \notin expired
           got  == IF held THEN active[k].id ELSE nextId
           n    == Len(frames[t])
<1> USE DEF IInv
<1>1. active \in [Keys -> Lock \cup {Free}] /\ n \in Nat
  BY DEF TypeOK
<1>2. nextId \in Ids
  BY ConstantsAssumption DEF AcquireLock, Enter, TypeOK, Ids
<1>3. got \in Ids
  BY <1>1, <1>2 DEF Lock
<1>4. Enter(t, k, got)
  BY DEF AcquireLock
<1>5. /\ nextId' = nextId + 1
      /\ frames' \in [Threads -> Seq(Frame)]
      /\ Blocks(t)' = 1 .. n + 1
      /\ frames'[t][n + 1] = [key |-> k, id |-> nextId, got |-> got]
      /\ \A i \in Blocks(t) : frames'[t][i] = frames[t][i]
      /\ \A u \in Threads \ {t} : frames'[u] = frames[u]
      /\ UNCHANGED <<expired, revoked, cleaner>>
  <2> HIDE DEF got
  <2> QED  BY <1>3, <1>4, Entered
<1>6. active' = IF held THEN active
                ELSE [active EXCEPT ![k] = [id |-> nextId, owner |-> t]]
  BY DEF AcquireLock
<1>7. held => active[k].owner = t
  BY DEF AcquireLock
<1>8. \A u \in Threads : \A i \in Blocks(u)' :
         \/ i \in Blocks(u) /\ frames'[u][i] = frames[u][i]
         \/ u = t /\ i = n + 1
  <2>1. \A i \in Blocks(t)' : i \in Blocks(t) \/ i = n + 1
    BY <1>1, <1>5 DEF Blocks
  <2>2. \A u \in Threads \ {t} : Blocks(u)' = Blocks(u)
    BY <1>5 DEF Blocks
  <2> QED
    BY <1>5, <2>1, <2>2
<1>9. \A u \in Threads : \A i \in Blocks(u) :
         i \in Blocks(u)' /\ frames'[u][i] = frames[u][i]
  BY <1>1, <1>5 DEF Blocks
<1>10. n + 1 \in Blocks(t)' /\ Blocks(t) = 1 .. n
  BY <1>1, <1>5 DEF Blocks
<1>11. \A u \in Threads : Blocks(u) \subseteq Nat /\ Blocks(u)' \subseteq Nat
  BY DEF Blocks
<1> HIDE DEF n
<1>a. TypeOK'
  <2>1. active' \in [Keys -> Lock \cup {Free}]
    BY <1>1, <1>2, <1>6 DEF Lock
  <2> QED
    BY <1>2, <1>5, <2>1, ConstantsAssumption DEF TypeOK, Ids
<1>b. IdsAreFresh'
  <2>1. \A u \in Threads : \A i \in Blocks(u) : frames[u][i].id \in Nat
    BY FrameType DEF Frame, Ids
  <2>2. nextId \in Nat
    BY <1>2 DEF Ids
  <2>3. \A u \in Threads : \A i \in Blocks(u)' : frames'[u][i].id < nextId'
    BY <1>5, <1>8, <2>1, <2>2 DEF IdsAreFresh
  <2>4. ASSUME NEW u \in Threads, NEW v \in Threads, NEW i \in Blocks(u)',
               NEW j \in Blocks(v)', frames'[u][i].id = frames'[v][j].id
        PROVE  u = v /\ i = j
    <3>1. CASE i \in Blocks(u) /\ frames'[u][i] = frames[u][i]
               /\ j \in Blocks(v) /\ frames'[v][j] = frames[v][j]
      BY <2>4, <3>1 DEF IdsAreFresh
    <3>2. CASE i \in Blocks(u) /\ frames'[u][i] = frames[u][i] /\ v = t /\ j = n + 1
      BY <1>5, <2>1, <2>2, <2>4, <3>2 DEF IdsAreFresh
    <3>3. CASE j \in Blocks(v) /\ frames'[v][j] = frames[v][j] /\ u = t /\ i = n + 1
      BY <1>5, <2>1, <2>2, <2>4, <3>3 DEF IdsAreFresh
    <3> QED
      BY <1>8, <3>1, <3>2, <3>3
  <2> QED
    BY <2>3, <2>4 DEF IdsAreFresh
<1>c. LocksComeFromOutside'
  <2> SUFFICES ASSUME NEW u \in Threads, NEW i \in Blocks(u)'
               PROVE  \E j \in 1 .. i : frames'[u][j].id = frames'[u][i].got
    BY DEF LocksComeFromOutside
  <2>1. CASE i \in Blocks(u) /\ frames'[u][i] = frames[u][i]
    <3>1. PICK j \in 1 .. i : frames[u][j].id = frames[u][i].got
      BY <2>1 DEF LocksComeFromOutside
    <3>2. j \in Blocks(u)
      BY <2>1, <3>1 DEF Blocks, TypeOK
    <3> QED
      BY <1>9, <2>1, <3>1, <3>2
  <2>2. CASE u = t /\ i = n + 1
    <3>1. CASE held
      <4>1. PICK j \in Blocks(t) : frames[t][j].id = active[k].id
        BY <1>7, <3>1 DEF LocksHaveBlocks
      <4>2. j \in 1 .. i /\ frames'[t][j] = frames[t][j]
        BY <1>1, <1>9, <1>10, <2>2, <4>1
      <4> QED
        BY <1>5, <2>2, <3>1, <4>1, <4>2
    <3>2. CASE ~held
      <4>1. i \in 1 .. i
        BY <1>1, <2>2
      <4> QED
        BY <1>5, <2>2, <3>2, <4>1
    <3> QED
      BY <3>1, <3>2
  <2> QED
    BY <1>8, <2>1, <2>2
<1>d. LocksHaveBlocks'
  <2> SUFFICES ASSUME NEW q \in Keys, active'[q] # Free
               PROVE  \E i \in Blocks(active[q].owner)' :
                         frames'[active'[q].owner][i].id = active'[q].id
    BY DEF LocksHaveBlocks
  <2>1. CASE active'[q] = active[q]
    <3>1. active[q].owner \in Threads
      BY <1>1, <2>1 DEF Lock
    <3>2. PICK i \in Blocks(active[q].owner) :
                 frames[active[q].owner][i].id = active[q].id
      BY <2>1 DEF LocksHaveBlocks
    <3> QED
      BY <1>9, <2>1, <3>1, <3>2
  <2>2. CASE q = k /\ active'[k] = [id |-> nextId, owner |-> t]
    BY <1>5, <1>10, <2>2
  <2> QED
    BY <1>1, <1>6, <2>1, <2>2
<1>e. BlocksAreProtected'
  <2> SUFFICES ASSUME NEW u \in Threads, NEW i \in Blocks(u)',
                      frames'[u][i].got \notin expired' \cup revoked'
               PROVE  active'[frames'[u][i].key] = [id |-> frames'[u][i].got, owner |-> u]
    BY DEF BlocksAreProtected, Blocks, Live
  <2>1. CASE i \in Blocks(u) /\ frames'[u][i] = frames[u][i]
    <3> DEFINE f == frames[u][i]
    <3>1. f.key \in Keys /\ f.got \in Ids
      BY <2>1, FrameType DEF Frame
    <3>2. Live(f.got)
      BY <1>5, <2>1 DEF Live
    <3>3. active[f.key] = [id |-> f.got, owner |-> u]
      BY <2>1, <3>2 DEF BlocksAreProtected, Blocks
    <3>4. active[f.key] # Free
      BY <3>1, <3>3 DEF Free, Ids
    <3>5. f.key = k => held
      BY <3>2, <3>3, <3>4 DEF Live
    <3> QED
      BY <1>1, <1>6, <2>1, <3>1, <3>3, <3>5
  <2>2. CASE u = t /\ i = n + 1
    <3>1. CASE held
      <4>1. active[k] \in Lock /\ active[k].owner = t
        BY <1>1, <1>7, <3>1
      <4>2. active[k] = [id |-> active[k].id, owner |-> t]
        BY <4>1 DEF Lock
      <4> QED
        BY <1>5, <1>6, <2>2, <3>1, <4>2
    <3>2. CASE ~held
      BY <1>1, <1>5, <1>6, <2>2, <3>2
    <3> QED
      BY <3>1, <3>2
  <2> QED
    BY <1>8, <2>1, <2>2
<1> QED
  BY <1>a, <1>b, <1>c, <1>d, <1>e

\* The end of a block removes the lock that block made and no other: a lock
\* that a remaining block was given has another id.
LEMMA ReleasePreserves ==
  ASSUME IInv, NEW t \in Threads, ReleaseLock(t)
  PROVE  IInv'
<1> DEFINE n == Len(frames[t])
<1> USE DEF IInv
<1>1. active \in [Keys -> Lock \cup {Free}]
  BY DEF TypeOK
<1>2. /\ n \in Nat \ {0}
      /\ frames' \in [Threads -> Seq(Frame)]
      /\ Blocks(t)' = 1 .. n - 1
      /\ \A i \in Blocks(t)' : frames'[t][i] = frames[t][i]
      /\ \A u \in Threads \ {t} : frames'[u] = frames[u]
  BY Left DEF ReleaseLock
<1>3. /\ active' = [k \in Keys |-> IF active[k].id = frames[t][n].id
                                   THEN Free ELSE active[k]]
      /\ UNCHANGED <<nextId, expired, revoked, cleaner>>
  BY DEF ReleaseLock, Top
<1>4. n \in Blocks(t) /\ n \notin Blocks(t)'
  BY <1>2 DEF Blocks
<1>5. \A u \in Threads : \A i \in Blocks(u)' :
         i \in Blocks(u) /\ frames'[u][i] = frames[u][i]
  BY <1>2 DEF Blocks
<1>6. \A u \in Threads : \A i \in Blocks(u) :
         i \in Blocks(u)' \/ (u = t /\ i = n)
  BY <1>2 DEF Blocks
<1> HIDE DEF n
<1>a. TypeOK'
  BY <1>1, <1>2, <1>3 DEF TypeOK
<1>b. IdsAreFresh'
  BY <1>3, <1>5 DEF IdsAreFresh
<1>c. LocksComeFromOutside'
  <2> SUFFICES ASSUME NEW u \in Threads, NEW i \in Blocks(u)'
               PROVE  \E j \in 1 .. i : frames'[u][j].id = frames'[u][i].got
    BY DEF LocksComeFromOutside
  <2>1. PICK j \in 1 .. i : frames[u][j].id = frames[u][i].got
    BY <1>5 DEF LocksComeFromOutside
  <2>2. j \in Blocks(u)'
    BY <2>1 DEF Blocks
  <2> QED
    BY <1>5, <2>1, <2>2
<1>d. LocksHaveBlocks'
  <2> SUFFICES ASSUME NEW q \in Keys, active'[q] # Free
               PROVE  \E i \in Blocks(active[q].owner)' :
                         frames'[active'[q].owner][i].id = active'[q].id
    BY DEF LocksHaveBlocks
  <2>1. active'[q] = active[q] /\ active[q].id # frames[t][n].id
    BY <1>3
  <2>2. active[q].owner \in Threads
    BY <1>1, <2>1 DEF Lock
  <2>3. PICK i \in Blocks(active[q].owner) :
               frames[active[q].owner][i].id = active[q].id
    BY <2>1 DEF LocksHaveBlocks
  <2>4. i \in Blocks(active[q].owner)'
    BY <1>6, <2>1, <2>2, <2>3
  <2> QED
    BY <1>5, <2>1, <2>2, <2>3, <2>4
<1>e. BlocksAreProtected'
  <2> SUFFICES ASSUME NEW u \in Threads, NEW i \in Blocks(u)',
                      frames'[u][i].got \notin expired' \cup revoked'
               PROVE  active'[frames'[u][i].key] = [id |-> frames'[u][i].got, owner |-> u]
    BY DEF BlocksAreProtected, Blocks, Live
  <2> DEFINE f == frames[u][i]
  <2>1. i \in Blocks(u) /\ frames'[u][i] = f
    BY <1>5
  <2>2. f.key \in Keys
    BY <2>1, FrameType DEF Frame
  <2>3. active[f.key] = [id |-> f.got, owner |-> u]
    BY <1>3, <2>1 DEF BlocksAreProtected, Blocks, Live
  <2>4. PICK j \in 1 .. i : frames[u][j].id = f.got
    BY <2>1 DEF LocksComeFromOutside
  <2>5. j \in Blocks(u)'
    BY <2>4 DEF Blocks
  <2>6. f.got # frames[t][n].id
    BY <1>4, <1>5, <2>4, <2>5 DEF IdsAreFresh
  <2> QED
    BY <1>3, <2>1, <2>2, <2>3, <2>6
<1> QED
  BY <1>a, <1>b, <1>c, <1>d, <1>e

\* Everything else only removes locks that are no longer live.
LEMMA RemovalPreserves ==
  ASSUME IInv, UNCHANGED <<frames, nextId>>,
         expired \subseteq expired', expired' \subseteq Ids,
         revoked \subseteq revoked', revoked' \subseteq Ids,
         active' \in [Keys -> Lock \cup {Free}],
         cleaner' \in {"runs", "stops", "ended"},
         \A k \in Keys : \/ active'[k] = active[k]
                         \/ active'[k] = Free /\ active[k].id \in expired' \cup revoked'
  PROVE  IInv'
<1> USE DEF IInv
<1>1. TypeOK'
  BY DEF TypeOK
<1>2. IdsAreFresh' /\ LocksComeFromOutside'
  BY DEF IdsAreFresh, LocksComeFromOutside, Blocks
<1>3. LocksHaveBlocks'
  BY DEF LocksHaveBlocks, Blocks
<1>4. BlocksAreProtected'
  <2> SUFFICES ASSUME NEW t \in Threads, NEW i \in Blocks(t),
                      frames[t][i].got \notin expired' \cup revoked'
               PROVE  active'[frames[t][i].key] = [id |-> frames[t][i].got, owner |-> t]
    BY DEF BlocksAreProtected, Blocks, Live
  <2>1. frames[t][i].key \in Keys
    BY FrameType DEF Frame
  <2>2. active[frames[t][i].key] = [id |-> frames[t][i].got, owner |-> t]
    BY DEF BlocksAreProtected, Blocks, Live
  <2> QED
    BY <2>1, <2>2 DEF Live
<1> QED
  BY <1>1, <1>2, <1>3, <1>4

-----------------------------------------------------------------------------
LEMMA InvNext == IInv /\ [Next]_vars => IInv'
<1> SUFFICES ASSUME IInv, [Next]_vars PROVE IInv'
  OBVIOUS
<1>0. /\ active \in [Keys -> Lock \cup {Free}]
      /\ expired \subseteq Ids /\ revoked \subseteq Ids
      /\ \A k \in Keys : active[k] # Free => active[k].id \in Ids
      /\ cleaner \in {"runs", "stops", "ended"}
  BY DEF IInv, TypeOK, Lock
<1>1. ASSUME NEW t \in Threads, NEW k \in Keys, AcquireLock(t, k) PROVE IInv'
  BY <1>1, AcquirePreserves
<1>2. ASSUME NEW t \in Threads, ReleaseLock(t) PROVE IInv'
  BY <1>2, ReleasePreserves
<1>3. ASSUME NEW i \in Ids, Expire(i) PROVE IInv'
  BY <1>0, <1>3, RemovalPreserves DEF Expire
<1>4. ASSUME NEW k \in Keys, IsResourceLocked(k) PROVE IInv'
  BY <1>0, <1>4, RemovalPreserves DEF IsResourceLocked
<1>5. ASSUME NEW k \in Keys, ForceReleaseLock(k) PROVE IInv'
  BY <1>0, <1>5, RemovalPreserves DEF ForceReleaseLock
<1>6. CASE CleanupExpiredLocks
  BY <1>0, <1>6, RemovalPreserves DEF CleanupExpiredLocks
<1>7. CASE Shutdown
  BY <1>0, <1>7, RemovalPreserves DEF Shutdown, Locked
<1>8. CASE StopCleanup \/ CleanupEnds
  BY <1>0, <1>8, RemovalPreserves DEF StopCleanup, CleanupEnds
<1>9. CASE UNCHANGED vars
  BY <1>0, <1>9, RemovalPreserves DEF vars
<1> QED
  BY <1>1, <1>2, <1>3, <1>4, <1>5, <1>6, <1>7, <1>8, <1>9 DEF Next

LEMMA Invariance == Spec => []IInv
  BY InvInit, InvNext, PTL DEF Spec

\* The table of locks and the blocks of the threads (acquire_lock) keep their
\* types, however deep the nesting.
THEOREM LocksTypeCorrect == Spec => []TypeOK
<1>1. IInv => TypeOK
  BY DEF IInv
<1> QED
  BY <1>1, Invariance, PTL

\* A block keeps the key it was given until it ends, unless its lock expires
\* or is removed by force (acquire_lock, _release_lock_internal).
THEOREM Protection == Spec => []BlocksAreProtected
<1>1. IInv => BlocksAreProtected
  BY DEF IInv
<1> QED
  BY <1>1, Invariance, PTL

\* Two threads are in blocks of one key only if one of them has outlived its
\* lock ("prevents conflicts").
THEOREM MutualExclusion == Spec => []Exclusive
<1>1. IInv => Exclusive
  <2> SUFFICES ASSUME BlocksAreProtected,
                      NEW t \in Threads, NEW u \in Threads,
                      NEW i \in 1 .. Len(frames[t]), NEW j \in 1 .. Len(frames[u]),
                      t # u, frames[t][i].key = frames[u][j].key,
                      Live(frames[t][i].got), Live(frames[u][j].got)
               PROVE  FALSE
    BY DEF Exclusive, IInv
  <2>1. /\ active[frames[t][i].key] = [id |-> frames[t][i].got, owner |-> t]
        /\ active[frames[u][j].key] = [id |-> frames[u][j].got, owner |-> u]
    BY DEF BlocksAreProtected
  <2> QED
    BY <2>1
<1> QED
  BY <1>1, Invariance, PTL

-----------------------------------------------------------------------------
(***************************************************************************)
(* The locks implement the leases.  What the mapping needs beyond IInv: a  *)
(* lock of the table was made for its key by an open block of its owner,   *)
(* and a lock that was removed by force does not come back.                *)
(***************************************************************************)
MadeByBlocks ==
  \A k \in Keys : active[k] # Free =>
    /\ active[k].id \notin revoked
    /\ \E i \in Blocks(active[k].owner) :
         frames[active[k].owner][i]
           = [key |-> k, id |-> active[k].id, got |-> active[k].id]

\* Only locks that were made have expired or been removed.
PastIds == \A i \in expired \cup revoked : i < nextId

LeaseInv == MadeByBlocks /\ PastIds

LEMMA LocksAreOld ==
  ASSUME IInv, LeaseInv
  PROVE  /\ \A k \in Keys : active[k] # Free =>
              active[k] \in Lock /\ active[k].id \in Ids /\ active[k].id < nextId
         /\ \A k, q \in Keys :
              active[k] # Free /\ active[q] # Free /\ active[k].id = active[q].id
              => k = q
<1>1. \A k \in Keys : active[k] # Free => active[k] \in Lock /\ active[k].id \in Ids
                                          /\ active[k].owner \in Threads
  BY DEF IInv, TypeOK, Lock
<1>2. ASSUME NEW k \in Keys, active[k] # Free
      PROVE  active[k].id < nextId
  <2> DEFINE t == active[k].owner
  <2>1. t \in Threads /\ \A i \in Blocks(t) : frames[t][i].id < nextId
    BY <1>1, <1>2 DEF IInv, IdsAreFresh
  <2>2. PICK i \in Blocks(t) :
               frames[t][i] = [key |-> k, id |-> active[k].id, got |-> active[k].id]
    BY <1>2 DEF LeaseInv, MadeByBlocks
  <2> QED
    BY <2>1, <2>2
<1>3. ASSUME NEW k \in Keys, NEW q \in Keys, active[k] # Free, active[q] # Free,
             active[k].id = active[q].id
      PROVE  k = q
  <2> DEFINE t == active[k].owner
             u == active[q].owner
  <2>1. PICK i \in Blocks(t) :
               frames[t][i] = [key |-> k, id |-> active[k].id, got |-> active[k].id]
    BY <1>1, <1>3 DEF LeaseInv, MadeByBlocks
  <2>2. PICK j \in Blocks(u) :
               frames[u][j] = [key |-> q, id |-> active[q].id, got |-> active[q].id]
    BY <1>1, <1>3 DEF LeaseInv, MadeByBlocks
  <2>3. frames[t][i].id = frames[u][j].id
    BY <1>3, <2>1, <2>2
  <2>4. t = u /\ i = j
    BY <1>1, <1>3, <2>3 DEF IInv, IdsAreFresh
  <2> QED
    BY <2>1, <2>2, <2>4
<1> QED
  BY <1>1, <1>2, <1>3

\* What is under a lock, and that no block is under two.
LEMMA UnderFacts ==
  ASSUME IInv
  PROVE  /\ \A i \in Ids : \A b \in Under(i) : b \in Ids /\ b < nextId
         /\ \A i \in Ids : Under(i) # {} => i < nextId
         /\ \A i, j \in Ids : Under(i) \cap Under(j) # {} => i = j
<1>1. \A t \in Threads : \A i \in Blocks(t) :
         /\ frames[t][i].id < nextId /\ frames[t][i].got < nextId
         /\ frames[t][i].id \in Ids
  <2> SUFFICES ASSUME NEW t \in Threads, NEW i \in Blocks(t)
               PROVE  /\ frames[t][i].id < nextId /\ frames[t][i].got < nextId
                      /\ frames[t][i].id \in Ids
    OBVIOUS
  <2>1. PICK j \in 1 .. i : frames[t][j].id = frames[t][i].got
    BY DEF IInv, LocksComeFromOutside
  <2>2. j \in Blocks(t)
    BY <2>1 DEF Blocks
  <2>3. frames[t][i].id < nextId /\ frames[t][j].id < nextId
    BY <2>2 DEF IInv, IdsAreFresh
  <2>4. frames[t][i].id \in Ids
    BY FrameType DEF IInv, Frame
  <2> QED
    BY <2>1, <2>3, <2>4
<1>2. \A i \in Ids : \A b \in Under(i) : b \in Ids /\ b < nextId /\ i < nextId
  BY <1>1 DEF Under, Blocks
<1>3. ASSUME NEW i \in Ids, NEW j \in Ids, NEW b \in Under(i) \cap Under(j)
      PROVE  i = j
  <2>0. b \in Under(i) /\ b \in Under(j)
    BY <1>3
  <2>1. PICK t \in Threads : \E m \in Blocks(t) :
               frames[t][m].id = b /\ frames[t][m].got = i
    BY <2>0 DEF Under, Blocks
  <2>2. PICK u \in Threads : \E n \in Blocks(u) :
               frames[u][n].id = b /\ frames[u][n].got = j
    BY <2>0 DEF Under, Blocks
  <2> QED
    BY <2>1, <2>2 DEF IInv, IdsAreFresh
<1> QED
  BY <1>2, <1>3

\* A block that is entered comes under the lock it was given.
LEMMA EnterUnder ==
  ASSUME TypeOK, NEW t \in Threads, NEW k \in Keys, NEW got \in Ids,
         Enter(t, k, got)
  PROVE  \A i \in Ids : Under(i)' = IF i = got THEN Under(i) \cup {nextId} ELSE Under(i)
<1> DEFINE n == Len(frames[t])
<1>1. /\ nextId \in Ids
      /\ Blocks(t)' = 1 .. n + 1
      /\ frames'[t][n + 1] = [key |-> k, id |-> nextId, got |-> got]
      /\ \A i \in Blocks(t) : frames'[t][i] = frames[t][i]
      /\ \A u \in Threads \ {t} : frames'[u] = frames[u]
  BY Entered
<1>2. n \in Nat
  BY DEF TypeOK
<1>3. \A u \in Threads : \A m \in Blocks(u)' :
         \/ m \in Blocks(u) /\ frames'[u][m] = frames[u][m]
         \/ u = t /\ m = n + 1
  <2>1. \A m \in Blocks(t)' : m \in Blocks(t) \/ m = n + 1
    BY <1>1, <1>2 DEF Blocks
  <2>2. \A u \in Threads \ {t} : Blocks(u)' = Blocks(u)
    BY <1>1 DEF Blocks
  <2> QED
    BY <1>1, <2>1, <2>2
<1>4. \A u \in Threads : \A m \in Blocks(u) :
         m \in Blocks(u)' /\ frames'[u][m] = frames[u][m]
  BY <1>1, <1>2 DEF Blocks
<1>5. n + 1 \in Blocks(t)'
  BY <1>1, <1>2
<1> HIDE DEF n
<1>6. ASSUME NEW i \in Ids, NEW b
      PROVE  b \in Under(i)' <=> b \in Under(i) \/ (i = got /\ b = nextId)
  <2>1. ASSUME b \in Under(i)' PROVE b \in Under(i) \/ (i = got /\ b = nextId)
    <3>1. PICK u \in Threads : \E m \in Blocks(u)' :
                 frames'[u][m].id = b /\ frames'[u][m].got = i
      BY <2>1 DEF Under, Blocks
    <3>2. PICK m \in Blocks(u)' : frames'[u][m].id = b /\ frames'[u][m].got = i
      BY <3>1
    <3>3. CASE m \in Blocks(u) /\ frames'[u][m] = frames[u][m]
      BY <3>2, <3>3 DEF Under, Blocks
    <3>4. CASE u = t /\ m = n + 1
      BY <1>1, <3>2, <3>4
    <3> QED
      BY <1>3, <3>2, <3>3, <3>4
  <2>2. ASSUME b \in Under(i) PROVE b \in Under(i)'
    <3>1. PICK u \in Threads : \E m \in Blocks(u) :
                 frames[u][m].id = b /\ frames[u][m].got = i
      BY <2>2 DEF Under, Blocks
    <3> QED
      BY <1>4, <3>1 DEF Under, Blocks
  <2>3. ASSUME i = got, b = nextId PROVE b \in Under(i)'
    BY <1>1, <1>5, <2>3 DEF Under, Blocks
  <2> QED
    BY <2>1, <2>2, <2>3
<1> QED
  BY <1>1, <1>6

\* A block that ends is no longer under its lock.
LEMMA LeaveUnder ==
  ASSUME IInv, NEW t \in Threads, frames[t] # <<>>, Leave(t)
  PROVE  /\ Top(t) \in Frame /\ Top(t).id \in Under(Top(t).got)
         /\ \A i \in Ids : Under(i)' = IF i = Top(t).got THEN Under(i) \ {Top(t).id}
                                                         ELSE Under(i)
<1> DEFINE n == Len(frames[t])
<1>1. /\ n \in Nat \ {0}
      /\ Blocks(t)' = 1 .. n - 1
      /\ \A i \in Blocks(t)' : frames'[t][i] = frames[t][i]
      /\ \A u \in Threads \ {t} : frames'[u] = frames[u]
  BY Left DEF IInv
<1>2. n \in Blocks(t) /\ n \notin Blocks(t)'
  BY <1>1 DEF Blocks
<1>3. \A u \in Threads : \A i \in Blocks(u)' :
         i \in Blocks(u) /\ frames'[u][i] = frames[u][i]
  BY <1>1 DEF Blocks
<1>4. \A u \in Threads : \A i \in Blocks(u) :
         i \in Blocks(u)' \/ (u = t /\ i = n)
  BY <1>1 DEF Blocks
<1>5. Top(t) = frames[t][n]
  BY DEF Top
<1> HIDE DEF n
<1>6. Top(t) \in Frame
  BY <1>2, <1>5, FrameType DEF IInv
<1>7. Top(t).id \in Under(Top(t).got)
  BY <1>2, <1>5, <1>6 DEF Under, Frame, Blocks
<1>8. ASSUME NEW i \in Ids, NEW b
      PROVE  b \in Under(i)' <=> b \in Under(i) /\ ~(i = Top(t).got /\ b = Top(t).id)
  <2>1. ASSUME b \in Under(i)'
        PROVE  b \in Under(i) /\ ~(i = Top(t).got /\ b = Top(t).id)
    <3>0. PICK u \in Threads : \E m \in Blocks(u)' :
                 frames'[u][m].id = b /\ frames'[u][m].got = i
      BY <2>1 DEF Under, Blocks
    <3>1. PICK m \in Blocks(u)' : frames'[u][m].id = b /\ frames'[u][m].got = i
      BY <3>0
    <3>2. m \in Blocks(u) /\ frames[u][m].id = b /\ frames[u][m].got = i
      BY <1>3, <3>1
    <3>3. b \in Under(i)
      BY <3>2 DEF Under, Blocks
    <3>4. ~(u = t /\ m = n)
      BY <1>2, <3>1
    <3> QED
      BY <1>2, <1>5, <3>2, <3>3, <3>4 DEF IInv, IdsAreFresh
  <2>2. ASSUME b \in Under(i), ~(i = Top(t).got /\ b = Top(t).id)
        PROVE  b \in Under(i)'
    <3>0. PICK u \in Threads : \E m \in Blocks(u) :
                 frames[u][m].id = b /\ frames[u][m].got = i
      BY <2>2 DEF Under, Blocks
    <3>1. PICK m \in Blocks(u) : frames[u][m].id = b /\ frames[u][m].got = i
      BY <3>0
    <3>2. m \in Blocks(u)' /\ frames'[u][m] = frames[u][m]
      BY <1>3, <1>4, <1>5, <2>2, <3>1
    <3> QED
      BY <3>1, <3>2 DEF Under, Blocks
  <2> QED
    BY <2>1, <2>2
<1> QED
  BY <1>6, <1>7, <1>8

-----------------------------------------------------------------------------
LEMMA LeaseInvInit == Init => LeaseInv
BY DEF Init, LeaseInv, MadeByBlocks, PastIds

LEMMA AcquireKeepsLeaseInv ==
  ASSUME IInv, LeaseInv, NEW t \in Threads, NEW k \in Keys, AcquireLock(t, k)
  PROVE  LeaseInv'
<1> DEFINE held == active[k] # Free /\ active[k].id \notin expired
           got  == IF held THEN active[k].id ELSE nextId
           n    == Len(frames[t])
<1>1. /\ active \in [Keys -> Lock \cup {Free}] /\ n \in Nat
      /\ expired \subseteq Ids /\ revoked \subseteq Ids
  BY DEF IInv, TypeOK
<1>2. nextId \in Ids
  BY ConstantsAssumption DEF AcquireLock, Enter, IInv, TypeOK, Ids
<1>3. got \in Ids /\ Enter(t, k, got)
  BY <1>1, <1>2 DEF AcquireLock, Lock
<1>4. /\ nextId' = nextId + 1
      /\ Blocks(t)' = 1 .. n + 1
      /\ frames'[t][n + 1] = [key |-> k, id |-> nextId, got |-> got]
      /\ \A i \in Blocks(t) : frames'[t][i] = frames[t][i]
      /\ \A u \in Threads \ {t} : frames'[u] = frames[u]
      /\ UNCHANGED <<expired, revoked, cleaner>>
  <2> HIDE DEF got
  <2> QED  BY <1>3, Entered DEF IInv
<1>5. active' = IF held THEN active
                ELSE [active EXCEPT ![k] = [id |-> nextId, owner |-> t]]
  BY DEF AcquireLock
<1>6. \A u \in Threads : \A i \in Blocks(u) :
         i \in Blocks(u)' /\ frames'[u][i] = frames[u][i]
  BY <1>1, <1>4 DEF Blocks
<1>7. n + 1 \in Blocks(t)'
  BY <1>1, <1>4
<1> HIDE DEF n
<1>8. PastIds'
  BY <1>1, <1>2, <1>4 DEF LeaseInv, PastIds, Ids
<1>9. MadeByBlocks'
  <2> SUFFICES ASSUME NEW q \in Keys, active'[q] # Free
               PROVE  /\ active'[q].id \notin revoked'
                      /\ \E i \in Blocks(active[q].owner)' :
                           frames'[active'[q].owner][i]
                             = [key |-> q, id |-> active'[q].id, got |-> active'[q].id]
    BY DEF MadeByBlocks
  <2>1. CASE active'[q] = active[q]
    <3>1. active[q].owner \in Threads
      BY <1>1, <2>1 DEF Lock
    <3>2. PICK i \in Blocks(active[q].owner) :
                 frames[active[q].owner][i]
                   = [key |-> q, id |-> active[q].id, got |-> active[q].id]
      BY <2>1 DEF LeaseInv, MadeByBlocks
    <3>3. active[q].id \notin revoked
      BY <2>1 DEF LeaseInv, MadeByBlocks
    <3> QED
      BY <1>4, <1>6, <2>1, <3>1, <3>2, <3>3
  <2>2. CASE ~held /\ q = k
    <3>1. active'[q] = [id |-> nextId, owner |-> t] /\ got = nextId
      BY <1>1, <1>5, <2>2
    <3>2. nextId \notin revoked
      BY <1>1, <1>2 DEF LeaseInv, PastIds, Ids
    <3> QED
      BY <1>4, <1>7, <2>2, <3>1, <3>2
  <2> QED
    BY <1>1, <1>5, <2>1, <2>2
<1> QED
  BY <1>8, <1>9 DEF LeaseInv

LEMMA ReleaseKeepsLeaseInv ==
  ASSUME IInv, LeaseInv, NEW t \in Threads, ReleaseLock(t)
  PROVE  LeaseInv'
<1> DEFINE n == Len(frames[t])
<1>1. active \in [Keys -> Lock \cup {Free}]
  BY DEF IInv, TypeOK
<1>2. /\ n \in Nat \ {0}
      /\ Blocks(t)' = 1 .. n - 1
      /\ \A i \in Blocks(t)' : frames'[t][i] = frames[t][i]
      /\ \A u \in Threads \ {t} : frames'[u] = frames[u]
  BY Left DEF ReleaseLock, IInv
<1>3. /\ active' = [k \in Keys |-> IF active[k].id = frames[t][n].id
                                   THEN Free ELSE active[k]]
      /\ UNCHANGED <<nextId, expired, revoked, cleaner>>
  BY DEF ReleaseLock, Top
<1>4. \A u \in Threads : \A i \in Blocks(u) :
         \/ i \in Blocks(u)' /\ frames'[u][i] = frames[u][i]
         \/ u = t /\ i = n
  BY <1>2 DEF Blocks
<1> HIDE DEF n
<1>5. PastIds'
  BY <1>3 DEF LeaseInv, PastIds
<1>6. MadeByBlocks'
  <2> SUFFICES ASSUME NEW q \in Keys, active'[q] # Free
               PROVE  /\ active'[q].id \notin revoked'
                      /\ \E i \in Blocks(active[q].owner)' :
                           frames'[active'[q].owner][i]
                             = [key |-> q, id |-> active'[q].id, got |-> active'[q].id]
    BY DEF MadeByBlocks
  <2>1. active'[q] = active[q] /\ active[q].id # frames[t][n].id
    BY <1>3
  <2>2. active[q].owner \in Threads
    BY <1>1, <2>1 DEF Lock
  <2>3. PICK i \in Blocks(active[q].owner) :
               frames[active[q].owner][i]
                 = [key |-> q, id |-> active[q].id, got |-> active[q].id]
    BY <2>1 DEF LeaseInv, MadeByBlocks
  <2>4. active[q].id \notin revoked
    BY <2>1 DEF LeaseInv, MadeByBlocks
  <2>5. ~(active[q].owner = t /\ i = n)
    BY <2>1, <2>3
  <2> QED
    BY <1>3, <1>4, <2>1, <2>2, <2>3, <2>4, <2>5
<1> QED
  BY <1>5, <1>6 DEF LeaseInv

\* Every other step only takes locks out of the table.
Removal ==
  /\ UNCHANGED <<frames, nextId>>
  /\ expired \subseteq expired' /\ expired' \subseteq Ids
  /\ revoked \subseteq revoked' /\ revoked' \subseteq Ids
  /\ active' \in [Keys -> Lock \cup {Free}]
  /\ \A k \in Keys : \/ active'[k] = active[k]
                     \/ active'[k] = Free /\ active[k].id \in expired' \cup revoked'
  /\ \A k \in Keys : active'[k] # Free => active'[k].id \notin revoked'
  /\ \A i \in expired' \cup revoked' : i < nextId

LEMMA RemovalKeepsLeaseInv ==
  ASSUME LeaseInv, Removal
  PROVE  LeaseInv'
<1>1. PastIds'
  BY DEF Removal, PastIds
<1>2. MadeByBlocks'
  <2> SUFFICES ASSUME NEW q \in Keys, active'[q] # Free
               PROVE  /\ active'[q].id \notin revoked'
                      /\ \E i \in Blocks(active[q].owner)' :
                           frames'[active'[q].owner][i]
                             = [key |-> q, id |-> active'[q].id, got |-> active'[q].id]
    BY DEF MadeByBlocks
  <2>1. active'[q] = active[q] /\ active'[q].id \notin revoked' /\ frames' = frames
    BY DEF Removal
  <2> QED
    BY <2>1 DEF LeaseInv, MadeByBlocks, Blocks
<1> QED
  BY <1>1, <1>2 DEF LeaseInv

LEMMA OthersRemove ==
  ASSUME IInv, LeaseInv,
         \/ \E i \in Ids : Expire(i)
         \/ \E k \in Keys : IsResourceLocked(k) \/ ForceReleaseLock(k)
         \/ CleanupExpiredLocks
         \/ StopCleanup \/ CleanupEnds \/ Shutdown
         \/ UNCHANGED vars
  PROVE  Removal
<1>0. /\ active \in [Keys -> Lock \cup {Free}]
      /\ expired \subseteq Ids /\ revoked \subseteq Ids
      /\ \A k \in Keys : active[k] # Free =>
           active[k].id \in Ids /\ active[k].id < nextId /\ active[k].id \notin revoked
      /\ \A k, q \in Keys :
           active[k] # Free /\ active[q] # Free /\ active[k].id = active[q].id => k = q
      /\ \A i \in expired \cup revoked : i < nextId
  BY LocksAreOld DEF IInv, TypeOK, LeaseInv, PastIds, MadeByBlocks
<1>1. ASSUME NEW i \in Ids, Expire(i) PROVE Removal
  BY <1>0, <1>1 DEF Expire, Removal
<1>2. ASSUME NEW k \in Keys, IsResourceLocked(k) PROVE Removal
  BY <1>0, <1>2 DEF IsResourceLocked, Removal
<1>3. ASSUME NEW k \in Keys, ForceReleaseLock(k) PROVE Removal
  BY <1>0, <1>3 DEF ForceReleaseLock, Removal
<1>4. CASE CleanupExpiredLocks
  BY <1>0, <1>4 DEF CleanupExpiredLocks, Removal
<1>5. CASE Shutdown
  BY <1>0, <1>5 DEF Shutdown, Locked, Removal
<1>6. CASE UNCHANGED vars
  BY <1>0, <1>6 DEF vars, Removal
<1>7. CASE StopCleanup \/ CleanupEnds
  BY <1>0, <1>7 DEF StopCleanup, CleanupEnds, Removal
<1> QED
  BY <1>1, <1>2, <1>3, <1>4, <1>5, <1>6, <1>7

LEMMA LeaseInvNext == IInv /\ LeaseInv /\ [Next]_vars => LeaseInv'
BY AcquireKeepsLeaseInv, ReleaseKeepsLeaseInv, OthersRemove, RemovalKeepsLeaseInv
   DEF Next

-----------------------------------------------------------------------------
\* The mapping of the module's instance, named.
LeaseHolder  == [k \in Keys |-> IF Held(k) THEN active[k].owner ELSE NoOne]
LeaseBlocks  == [k \in Keys |-> IF Held(k) THEN Under(active[k].id) ELSE {}]
LeaseOrphans == UNION {Under(i) : i \in expired \cup revoked}
LeaseMap     == <<LeaseHolder, LeaseBlocks, LeaseOrphans>>

LEMMA MapFacts ==
  ASSUME IInv, LeaseInv
  PROVE  /\ \A k \in Keys : Held(k) =>
              /\ active[k] \in Lock /\ active[k].id \in Ids /\ active[k].id < nextId
              /\ active[k].owner \in Threads /\ active[k].owner # NoOne
              /\ active[k].id \notin expired \cup revoked
         /\ \A k, q \in Keys : Held(k) /\ Held(q) /\ active[k].id = active[q].id => k = q
         /\ \A i \in expired \cup revoked : i \in Ids /\ i < nextId
         /\ nextId \in Nat
<1>1. expired \subseteq Ids /\ revoked \subseteq Ids /\ nextId \in Nat
  BY ConstantsAssumption DEF IInv, TypeOK, Ids
<1>2. \A k \in Keys : Held(k) => active[k] \in Lock /\ active[k].owner \in Threads
                                  /\ active[k].id \in Ids
  BY DEF Held, IInv, TypeOK, Lock
<1> QED
  BY <1>1, <1>2, LocksAreOld, ConstantsAssumption DEF Held, Live, LeaseInv, PastIds

LEMMA BlocksNext ==
  ASSUME NEW q \in Keys, NEW i \in Ids, Held(q)', active'[q].id = i
  PROVE  LeaseBlocks'[q] = Under(i)'
BY DEF LeaseBlocks, Under

\* A new lock is a lease of one block; entering again adds a block to it.
LEMMA AcquireTakes ==
  ASSUME IInv, LeaseInv, NEW t \in Threads, NEW k \in Keys, AcquireLock(t, k)
  PROVE  [Granted!Next]_LeaseMap
<1> DEFINE held == active[k] # Free /\ active[k].id \notin expired
           got  == IF held THEN active[k].id ELSE nextId
<1>1. active \in [Keys -> Lock \cup {Free}]
  BY DEF IInv, TypeOK
<1>2. nextId \in Ids
  BY ConstantsAssumption DEF AcquireLock, Enter, IInv, TypeOK, Ids
<1>3. got \in Ids /\ Enter(t, k, got)
  BY <1>1, <1>2 DEF AcquireLock, Lock
<1>4. UNCHANGED <<expired, revoked>>
  BY <1>3 DEF Enter
<1>5. \A i \in Ids : Under(i)' = IF i = got THEN Under(i) \cup {nextId} ELSE Under(i)
  <2> HIDE DEF got
  <2> QED  BY <1>3, EnterUnder DEF IInv
<1>6. active' = IF held THEN active
                ELSE [active EXCEPT ![k] = [id |-> nextId, owner |-> t]]
  BY DEF AcquireLock
<1>7. held <=> Held(k)
  BY DEF Held, Live, LeaseInv, MadeByBlocks
<1>8. Held(k) => active[k].owner = t
  BY <1>7 DEF AcquireLock
<1>9. \A i \in expired \cup revoked : i \in Ids /\ i # nextId
  BY MapFacts
<1>10. nextId \in Nat /\ nextId \notin expired \cup revoked
  BY <1>9, MapFacts
<1>11. active'[k].id = got /\ active'[k].owner = t /\ Held(k)'
  <2>1. CASE held
    BY <1>4, <1>6, <1>7, <1>8, <2>1 DEF Held, Live
  <2>2. CASE ~held
    <3>1. active'[k] = [id |-> nextId, owner |-> t] /\ got = nextId
      BY <1>1, <1>6, <2>2
    <3>2. active'[k] # Free
      BY <3>1, ConstantsAssumption DEF Free
    <3> QED
      BY <1>4, <1>10, <3>1, <3>2 DEF Held, Live
  <2> QED
    BY <2>1, <2>2
<1>12. \A q \in Keys \ {k} : active'[q] = active[q] /\ (Held(q)' <=> Held(q))
  BY <1>1, <1>4, <1>6 DEF Held, Live
<1>13. \A q \in Keys \ {k} : Held(q) => active[q].id # got
  BY <1>7, MapFacts
<1>14. LeaseHolder[k] \in {NoOne, t}
  BY <1>8 DEF LeaseHolder
<1>15. LeaseHolder' = [LeaseHolder EXCEPT ![k] = t]
  BY <1>11, <1>12 DEF LeaseHolder
<1>16. LeaseBlocks' = [LeaseBlocks EXCEPT ![k] = @ \cup {nextId}]
  <2>1. LeaseBlocks'[k] = LeaseBlocks[k] \cup {nextId}
    <3>1. LeaseBlocks'[k] = Under(got) \cup {nextId}
      <4>1. PICK i \in Ids : i = got
        BY <1>3
      <4>2. LeaseBlocks'[k] = Under(i)'
        BY <1>11, <4>1, BlocksNext
      <4> QED
        BY <1>5, <4>1, <4>2
    <3>2. CASE held
      BY <1>7, <3>1, <3>2 DEF LeaseBlocks
    <3>3. CASE ~held
      <4>1. Under(nextId) = {}
        BY <1>2, <1>10, UnderFacts
      <4> QED
        BY <1>7, <3>1, <3>3, <4>1 DEF LeaseBlocks
    <3> QED
      BY <3>2, <3>3
  <2>2. ASSUME NEW q \in Keys \ {k} PROVE LeaseBlocks'[q] = LeaseBlocks[q]
    <3>1. CASE Held(q)
      <4>1. PICK i \in Ids : active[q].id = i
        BY <3>1, MapFacts
      <4>2. LeaseBlocks'[q] = Under(i)'
        BY <1>12, <3>1, <4>1, BlocksNext
      <4>3. LeaseBlocks[q] = Under(i)
        BY <3>1, <4>1 DEF LeaseBlocks
      <4> QED
        BY <1>5, <1>13, <3>1, <4>1, <4>2, <4>3
    <3>2. CASE ~Held(q)
      BY <1>12, <3>2 DEF LeaseBlocks
    <3> QED
      BY <3>1, <3>2
  <2> QED
    BY <2>1, <2>2 DEF LeaseBlocks
<1>17. UNCHANGED LeaseOrphans
  <2>1. got \notin expired \cup revoked
    BY <1>7, <1>10, MapFacts
  <2>2. \A i \in expired \cup revoked : Under(i)' = Under(i)
    BY <1>5, <1>9, <2>1
  <2> QED
    BY <1>4, <2>2 DEF LeaseOrphans
<1>18. nextId \notin LeaseOrphans /\ \A q \in Keys : nextId \notin LeaseBlocks[q]
  <2>1. \A i \in Ids : nextId \notin Under(i)
    BY <1>10, UnderFacts
  <2> QED
    BY <1>9, <2>1, MapFacts DEF LeaseOrphans, LeaseBlocks
<1>19. PICK b \in Ids : b = nextId
  BY <1>2
<1>20. Granted!Take(t, k, b)
  BY <1>14, <1>15, <1>16, <1>17, <1>18, <1>19
     DEF Granted!Take, LeaseHolder, LeaseBlocks, LeaseOrphans
<1> QED
  BY <1>20 DEF Granted!Next

\* What the innermost block of a thread has to do with the table: if its lock
\* is good the thread has the key; a lock with its id is the one it was given,
\* and then no other block is under it.
LEMMA TopFacts ==
  ASSUME IInv, LeaseInv, NEW t \in Threads, frames[t] # <<>>
  PROVE  /\ Top(t) \in Frame
         /\ Live(Top(t).got) => /\ active[Top(t).key] = [id |-> Top(t).got, owner |-> t]
                                /\ Held(Top(t).key)
         /\ \A q \in Keys : active[q] # Free /\ active[q].id = Top(t).id
                            => Top(t).got = Top(t).id
         /\ Top(t).got = Top(t).id => Under(Top(t).got) = {Top(t).id}
         /\ Top(t).got # Top(t).id /\ Live(Top(t).got) => Top(t).got \in Under(Top(t).got)
<1> DEFINE n == Len(frames[t])
           f == Top(t)
<1>1. f = frames[t][n] /\ n \in Blocks(t) /\ n \in Nat \ {0}
  BY DEF Top, Blocks, IInv, TypeOK
<1> HIDE DEF n
<1>2. f \in Frame /\ f.key \in Keys /\ f.id \in Ids /\ f.got \in Ids
  <2>1. frames[t][n] \in Frame
    BY <1>1, FrameType DEF IInv
  <2> QED
    BY <1>1, <2>1 DEF Frame
<1>3. ASSUME Live(f.got)
      PROVE  active[f.key] = [id |-> f.got, owner |-> t] /\ Held(f.key)
  <2>1. active[f.key] = [id |-> f.got, owner |-> t]
    BY <1>1, <1>3 DEF IInv, BlocksAreProtected, Blocks
  <2>2. active[f.key] # Free /\ active[f.key].id = f.got
    BY <1>2, <2>1 DEF Free, Ids
  <2> QED
    BY <1>3, <2>1, <2>2 DEF Held
<1>4. ASSUME NEW q \in Keys, active[q] # Free, active[q].id = f.id
      PROVE  f.got = f.id
  <2>1. PICK u \in Threads : u = active[q].owner
    BY <1>4 DEF IInv, TypeOK, Lock
  <2>2. PICK i \in Blocks(u) :
               frames[u][i] = [key |-> q, id |-> active[q].id, got |-> active[q].id]
    BY <1>4, <2>1 DEF LeaseInv, MadeByBlocks
  <2>3. frames[u][i].id = frames[t][n].id
    BY <1>1, <1>4, <2>2
  <2>4. u = t /\ i = n
    BY <1>1, <2>1, <2>3 DEF IInv, IdsAreFresh
  <2> QED
    BY <1>1, <2>2, <2>4
<1>5. ASSUME f.got = f.id PROVE Under(f.got) = {f.id}
  <2>1. f.id \in Under(f.got)
    BY <1>1, <1>2 DEF Under, Blocks
  <2>2. ASSUME NEW b \in Under(f.got) PROVE b = f.id
    <3>1. PICK u \in Threads : \E m \in Blocks(u) :
                 frames[u][m].id = b /\ frames[u][m].got = f.got
      BY <2>2 DEF Under, Blocks
    <3>2. PICK m \in Blocks(u) : frames[u][m].id = b /\ frames[u][m].got = f.got
      BY <3>1
    <3>3. PICK j \in 1 .. m : frames[u][j].id = f.got
      BY <3>2 DEF IInv, LocksComeFromOutside
    <3>4. j \in Blocks(u)
      BY <3>3 DEF Blocks
    <3>5. u = t /\ j = n
      BY <1>1, <1>5, <3>3, <3>4 DEF IInv, IdsAreFresh
    <3>6. m = n
      BY <1>1, <3>2, <3>3, <3>5 DEF Blocks, n
    <3> QED
      BY <1>1, <3>2, <3>5, <3>6
  <2> QED
    BY <2>1, <2>2
<1>6. ASSUME Live(f.got), f.got # f.id PROVE f.got \in Under(f.got)
  <2>1. active[f.key] = [id |-> f.got, owner |-> t] /\ active[f.key] # Free
    BY <1>3, <1>6 DEF Held
  <2>2. active[f.key].id = f.got /\ active[f.key].owner = t
    BY <2>1
  <2>3. PICK i \in Blocks(t) :
               frames[t][i] = [key |-> f.key, id |-> f.got, got |-> f.got]
    BY <1>2, <2>1, <2>2 DEF LeaseInv, MadeByBlocks
  <2> QED
    BY <1>2, <2>3 DEF Under, Blocks
<1> QED
  BY <1>2, <1>3, <1>4, <1>5, <1>6

\* The end of a block drops its lease, or abandons what it had outlived.
LEMMA ReleaseDrops ==
  ASSUME IInv, LeaseInv, NEW t \in Threads, ReleaseLock(t)
  PROVE  [Granted!Next]_LeaseMap
<1>1. PICK f \in Frame : f = Top(t)
  BY TopFacts DEF ReleaseLock
<1>2. f.key \in Keys /\ f.id \in Ids /\ f.got \in Ids
  BY DEF Frame
<1>3. /\ active' = [q \in Keys |-> IF active[q].id = f.id THEN Free ELSE active[q]]
      /\ UNCHANGED <<nextId, expired, revoked, cleaner>>
  BY <1>1 DEF ReleaseLock
<1>4. /\ f.id \in Under(f.got)
      /\ \A i \in Ids : Under(i)' = IF i = f.got THEN Under(i) \ {f.id} ELSE Under(i)
  BY <1>1, LeaveUnder DEF ReleaseLock
<1>5. /\ Live(f.got) => active[f.key] = [id |-> f.got, owner |-> t] /\ Held(f.key)
      /\ \A q \in Keys : active[q] # Free /\ active[q].id = f.id => f.got = f.id
      /\ f.got = f.id => Under(f.got) = {f.id}
      /\ f.got # f.id /\ Live(f.got) => f.got \in Under(f.got)
  BY <1>1, TopFacts DEF ReleaseLock
<1>6. PICK k \in Keys : k = f.key
  BY <1>2
<1>7. PICK b \in Ids : b = f.id
  BY <1>2
<1>8. \A i \in expired \cup revoked : i \in Ids
  BY MapFacts
<1>9. ASSUME NEW q \in Keys, Held(q), active[q].id # f.got
      PROVE  LeaseHolder'[q] = LeaseHolder[q] /\ LeaseBlocks'[q] = LeaseBlocks[q]
  <2>1. active'[q] = active[q] /\ Held(q)'
    BY <1>3, <1>5, <1>9 DEF Held, Live
  <2>2. PICK i \in Ids : active[q].id = i
    BY <1>9, MapFacts
  <2>3. LeaseBlocks'[q] = Under(i)' /\ LeaseBlocks[q] = Under(i)
    BY <1>9, <2>1, <2>2, BlocksNext DEF LeaseBlocks
  <2> QED
    BY <1>4, <1>9, <2>1, <2>2, <2>3 DEF LeaseHolder
<1>10. ASSUME NEW q \in Keys, ~Held(q)
       PROVE  LeaseHolder'[q] = LeaseHolder[q] /\ LeaseBlocks'[q] = LeaseBlocks[q]
  <2>1. ~Held(q)'
    BY <1>3, <1>10 DEF Held, Live
  <2> QED
    BY <1>10, <2>1 DEF LeaseHolder, LeaseBlocks
<1>11. CASE Live(f.got)
  <2>1. active[k] = [id |-> f.got, owner |-> t] /\ Held(k)
    BY <1>5, <1>6, <1>11
  <2>2. LeaseHolder[k] = t /\ LeaseBlocks[k] = Under(f.got)
    BY <2>1 DEF LeaseHolder, LeaseBlocks
  <2>3. \A q \in Keys \ {k} : Held(q) => active[q].id # f.got
    BY <2>1, MapFacts
  <2>4. \A q \in Keys \ {k} : LeaseHolder'[q] = LeaseHolder[q]
                             /\ LeaseBlocks'[q] = LeaseBlocks[q]
    BY <1>9, <1>10, <2>3
  <2>5. /\ LeaseHolder'[k] = IF LeaseBlocks[k] = {b} THEN NoOne ELSE t
        /\ LeaseBlocks'[k] = LeaseBlocks[k] \ {b}
    <3>1. CASE f.got = f.id
      <4>1. ~Held(k)'
        BY <1>3, <2>1, <3>1 DEF Held
      <4>2. LeaseBlocks[k] = {b}
        BY <1>5, <1>7, <2>2, <3>1
      <4> QED
        BY <4>1, <4>2 DEF LeaseHolder, LeaseBlocks
    <3>2. CASE f.got # f.id
      <4>1. active'[k] = active[k] /\ Held(k)' /\ active'[k].id = f.got
        BY <1>3, <2>1, <3>2 DEF Held, Live
      <4>2. LeaseBlocks'[k] = Under(f.got)'
        BY <1>2, <4>1, BlocksNext
      <4>3. LeaseBlocks[k] # {b}
        BY <1>5, <1>7, <1>11, <2>2, <3>2
      <4>4. LeaseHolder'[k] = t
        BY <2>1, <4>1 DEF LeaseHolder
      <4> QED
        BY <1>2, <1>4, <1>7, <2>2, <4>2, <4>3, <4>4
    <3> QED
      BY <3>1, <3>2
  <2>6. /\ LeaseHolder' = [LeaseHolder EXCEPT ![k] = IF LeaseBlocks[k] = {b} THEN NoOne ELSE t]
        /\ LeaseBlocks' = [LeaseBlocks EXCEPT ![k] = @ \ {b}]
    BY <2>4, <2>5 DEF LeaseHolder, LeaseBlocks
  <2>7. UNCHANGED LeaseOrphans
    BY <1>3, <1>4, <1>8, <1>11 DEF LeaseOrphans, Live
  <2>8. b \in LeaseBlocks[k]
    BY <1>4, <1>7, <2>2
  <2>9. Granted!Drop(t, k, b)
    BY <2>2, <2>6, <2>7, <2>8 DEF Granted!Drop, LeaseHolder, LeaseBlocks, LeaseOrphans
  <2> QED
    BY <2>9 DEF Granted!Next
<1>12. CASE ~Live(f.got)
  <2>1. \A q \in Keys : Held(q) => active[q].id # f.got
    BY <1>12 DEF Held
  <2>2. LeaseHolder' = LeaseHolder /\ LeaseBlocks' = LeaseBlocks
    BY <1>9, <1>10, <2>1 DEF LeaseHolder, LeaseBlocks
  <2>3. b \in LeaseOrphans
    BY <1>4, <1>7, <1>12 DEF LeaseOrphans, Live
  <2>4. \A i \in expired \cup revoked : Under(i)' = Under(i) \ {b}
    BY <1>2, <1>4, <1>7, <1>8, UnderFacts
  <2>5. LeaseOrphans' = LeaseOrphans \ {b}
    BY <1>3, <2>4 DEF LeaseOrphans
  <2>6. Granted!Abandon(b)
    BY <2>2, <2>3, <2>5 DEF Granted!Abandon, LeaseHolder, LeaseBlocks, LeaseOrphans
  <2> QED
    BY <2>6 DEF Granted!Next
<1> QED
  BY <1>11, <1>12

\* Expiry, cleanup, forced release and shutdown let the good locks among those
\* they concern lapse, with their blocks; of the others nothing was left to end.
LEMMA RemovalLapses ==
  ASSUME IInv, LeaseInv, Removal
  PROVE  [Granted!Next]_LeaseMap
<1>1. PICK S \in SUBSET Keys :
             S = {k \in Keys : Held(k) /\ active[k].id \in expired' \cup revoked'}
  OBVIOUS
<1>2. ASSUME NEW i \in Ids PROVE Under(i)' = Under(i)
  BY DEF Under, Removal
<1>3. ASSUME NEW k \in Keys
      PROVE  /\ k \in S => Held(k) /\ ~Held(k)'
             /\ k \notin S => (Held(k)' <=> Held(k)) /\ (Held(k) => active'[k] = active[k])
  BY <1>1 DEF Held, Live, Removal
<1>4. ASSUME NEW k \in Keys
      PROVE  /\ LeaseHolder'[k] = IF k \in S THEN NoOne ELSE LeaseHolder[k]
             /\ LeaseBlocks'[k] = IF k \in S THEN {} ELSE LeaseBlocks[k]
  <2>1. CASE k \in S
    BY <1>3, <2>1 DEF LeaseHolder, LeaseBlocks
  <2>2. CASE k \notin S /\ Held(k)
    <3>1. PICK i \in Ids : active[k].id = i
      BY <2>2, MapFacts
    <3>2. Held(k)' /\ active'[k] = active[k]
      BY <1>3, <2>2
    <3>3. LeaseBlocks'[k] = Under(i)' /\ LeaseBlocks[k] = Under(i)
      BY <2>2, <3>1, <3>2, BlocksNext DEF LeaseBlocks
    <3> QED
      BY <1>2, <2>2, <3>2, <3>3 DEF LeaseHolder
  <2>3. CASE k \notin S /\ ~Held(k)
    BY <1>3, <2>3 DEF LeaseHolder, LeaseBlocks
  <2> QED
    BY <2>1, <2>2, <2>3
<1>5. LeaseOrphans' = LeaseOrphans \cup UNION {LeaseBlocks[k] : k \in S}
  <2>1. \A k \in S : LeaseBlocks[k] = Under(active[k].id)
    BY <1>1 DEF LeaseBlocks
  <2>2. LeaseOrphans' = UNION {Under(i) : i \in expired' \cup revoked'}
    <3>1. \A i \in expired' \cup revoked' : i \in Ids
      BY DEF Removal
    <3> QED
      BY <1>2, <3>1 DEF LeaseOrphans
  <2>3. ASSUME NEW b \in LeaseOrphans' PROVE b \in LeaseOrphans \cup UNION {LeaseBlocks[k] : k \in S}
    <3>1. PICK i \in expired' \cup revoked' : b \in Under(i)
      BY <2>2, <2>3
    <3>2. CASE i \in expired \cup revoked
      BY <3>1, <3>2 DEF LeaseOrphans
    <3>3. CASE Live(i)
      <4>1. PICK t \in Threads : \E m \in Blocks(t) : frames[t][m].got = i
        BY <3>1 DEF Under, Blocks
      <4>2. PICK m \in Blocks(t) : frames[t][m].got = i
        BY <4>1
      <4>3. frames[t][m].key \in Keys /\ i \in Ids
        BY <4>2, FrameType DEF IInv, Frame
      <4>4. PICK k \in Keys : k = frames[t][m].key
        BY <4>3
      <4>5. active[k] = [id |-> i, owner |-> t]
        BY <3>3, <4>2, <4>4 DEF IInv, BlocksAreProtected, Blocks
      <4>6. active[k] # Free /\ active[k].id = i
        BY <4>3, <4>5 DEF Free, Ids
      <4>7. k \in S
        BY <1>1, <3>1, <3>3, <4>6 DEF Held
      <4> QED
        BY <2>1, <3>1, <4>6, <4>7
    <3> QED
      BY <3>2, <3>3 DEF Live
  <2>4. LeaseOrphans \subseteq LeaseOrphans'
    BY <2>2 DEF LeaseOrphans, Removal
  <2>5. \A k \in S : LeaseBlocks[k] \subseteq LeaseOrphans'
    BY <1>1, <2>1, <2>2
  <2> QED
    BY <2>3, <2>4, <2>5
<1>6. CASE S = {}
  <2>1. LeaseHolder' = LeaseHolder /\ LeaseBlocks' = LeaseBlocks
    BY <1>4, <1>6 DEF LeaseHolder, LeaseBlocks
  <2>2. LeaseOrphans' = LeaseOrphans
    BY <1>5, <1>6
  <2> QED
    BY <2>1, <2>2 DEF LeaseMap
<1>7. CASE S # {}
  <2>1. /\ LeaseHolder' = [k \in Keys |-> IF k \in S THEN NoOne ELSE LeaseHolder[k]]
        /\ LeaseBlocks' = [k \in Keys |-> IF k \in S THEN {} ELSE LeaseBlocks[k]]
    BY <1>4 DEF LeaseHolder, LeaseBlocks
  <2>2. \A k \in S : LeaseHolder[k] # NoOne
    BY <1>3, MapFacts DEF LeaseHolder
  <2>3. Granted!Lapse(S)
    BY <1>5, <1>7, <2>1, <2>2 DEF Granted!Lapse, LeaseHolder, LeaseBlocks, LeaseOrphans
  <2> QED
    BY <2>3 DEF Granted!Next
<1> QED
  BY <1>6, <1>7

\* acquire_lock and _release_lock_internal grant re-entrant leases, for every
\* number of threads, keys, nested blocks and ids: a key is freed by the last
\* block under its lock and by no other, and a block that has outlived its lock
\* ends without touching the lease of another thread.
THEOREM LocksAreLeases == Spec => ImplementsLeases
<1>1. Init => Granted!Init
  <2> SUFFICES ASSUME Init PROVE Granted!Init
    OBVIOUS
  <2>1. \A k \in Keys : ~Held(k)
    BY DEF Init, Held
  <2>2. expired \cup revoked = {}
    BY DEF Init
  <2> QED
    BY <2>1, <2>2 DEF Granted!Init
<1>2. IInv /\ LeaseInv /\ [Next]_vars => [Granted!Next]_LeaseMap
  BY AcquireTakes, ReleaseDrops, OthersRemove, RemovalLapses DEF Next
<1> QED
  BY <1>1, <1>2, Invariance, LeaseInvInit, LeaseInvNext, PTL
     DEF Spec, ImplementsLeases, Granted!Spec, LeaseMap, LeaseHolder, LeaseBlocks,
         LeaseOrphans

=============================================================================
