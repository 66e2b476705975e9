--------------------------- MODULE OperationLocks ---------------------------
(***************************************************************************)
(* ConcurrentOperationManager: locks in memory, each with an expiry, that  *)
(* operations take as a context manager.  A thread may enter again what it *)
(* holds; a lock past its expiry may be removed while its holder works.    *)
(* Every method runs under the manager's _lock_registry, so it is one step.*)
(***************************************************************************)
EXTENDS Naturals, Sequences, FiniteSets

CONSTANTS
  Threads,
  Keys,             \* scope, resource and operation type
  NoOne,            \* the owner of a free key
  MaxOperations,    \* _max_concurrent_operations
  MaxIds,           \* bound: lock ids ever generated
  MaxDepth          \* bound: nested "with acquire_lock" blocks of a thread

ASSUME ConstantsAssumption ==
  /\ NoOne \notin Threads
  /\ MaxOperations \in Nat \ {0} /\ MaxIds \in Nat /\ MaxDepth \in Nat

VARIABLES
  active,           \* _active_locks: the lock of each key
  frames,           \* the "with" blocks each thread is in, the innermost last
  nextId,           \* the uuid the next acquire_lock generates
  expired,          \* ids of the locks whose expires_at has passed
  revoked,          \* history: ids of the locks removed by force
  cleaner           \* the cleanup thread: "runs", "stops" (_stop_cleanup is set), "ended"

vars == <<active, frames, nextId, expired, revoked, cleaner>>

Ids  == 1 .. MaxIds
Free == [id |-> 0, owner |-> NoOne]
Lock == [id: Ids, owner: Threads]
\* A block knows the id it generated and the lock it was given, which is
\* another block's if the thread held the key already.
Frame == [key: Keys, id: Ids, got: Ids]

TypeOK ==
  /\ active \in [Keys -> Lock \cup {Free}]
  /\ frames \in [Threads -> Seq(Frame)]
  /\ nextId \in 1 .. MaxIds + 1
  /\ expired \subseteq Ids /\ revoked \subseteq Ids
  /\ cleaner \in {"runs", "stops", "ended"}

Init ==
  /\ active = [k \in Keys |-> Free]
  /\ frames = [t \in Threads |-> <<>>]
  /\ nextId = 1
  /\ expired = {} /\ revoked = {}
  /\ cleaner = "runs"

-----------------------------------------------------------------------------
Locked    == {k \in Keys : active[k] # Free}
Live(id)  == id \notin expired \cup revoked
Top(t)    == frames[t][Len(frames[t])]

\* "with acquire_lock(...)": the block is entered with a lock.
Enter(t, k, got) ==
  /\ Len(frames[t]) < MaxDepth /\ nextId <= MaxIds
  /\ frames' = [frames EXCEPT ![t] =
                  Append(@, [key |-> k, id |-> nextId, got |-> got])]
  /\ nextId' = nextId + 1
  /\ UNCHANGED <<expired, revoked, cleaner>>

\* Mutant: the thread is not written into the lock.
AcquireLock_NoOwner(t, k) ==
  /\ Cardinality(Locked) < MaxOperations
  /\ active[k] = Free \/ active[k].id \in expired
  /\ Enter(t, k, nextId)
  /\ active' = [active EXCEPT ![k] = [id |-> nextId, owner |-> NoOne]]

\* Mutant: whoever asks for a locked key is taken for its holder.
AcquireLock_IgnoresOwner(t, k) ==
  /\ Cardinality(Locked) < MaxOperations
  /\ IF active[k] # Free /\ active[k].id \notin expired
       THEN /\ Enter(t, k, active[k].id)
            /\ UNCHANGED active
       ELSE /\ Enter(t, k, nextId)
            /\ active' = [active EXCEPT ![k] = [id |-> nextId, owner |-> t]]

\* A thread that finds the key taken, or the table full, gets an exception
\* and holds nothing.
AcquireLock(t, k) ==
  /\ Cardinality(Locked) < MaxOperations
  /\ IF active[k] # Free /\ active[k].id \notin expired
       THEN /\ active[k].owner = t
            /\ Enter(t, k, active[k].id)
            /\ UNCHANGED active
       ELSE /\ Enter(t, k, nextId)
            /\ active' = [active EXCEPT ![k] = [id |-> nextId, owner |-> t]]

Leave(t) == frames' = [frames EXCEPT ![t] = SubSeq(@, 1, Len(@) - 1)]

\* Mutant: the lock is found by its key.
ReleaseLock_ByKey(t) ==
  /\ frames[t] # <<>>
  /\ active' = [active EXCEPT ![Top(t).key] = Free]
  /\ Leave(t)
  /\ UNCHANGED <<nextId, expired, revoked, cleaner>>

\* Mutant: the lock is found by the id the block was given.
ReleaseLock_Given(t) ==
  /\ frames[t] # <<>>
  /\ active' = [k \in Keys |-> IF active[k].id = Top(t).got THEN Free ELSE active[k]]
  /\ Leave(t)
  /\ UNCHANGED <<nextId, expired, revoked, cleaner>>

\* The end of the block removes the lock with the id the block generated.
ReleaseLock(t) ==
  /\ frames[t] # <<>>
  /\ active' = [k \in Keys |-> IF active[k].id = Top(t).id THEN Free ELSE active[k]]
  /\ Leave(t)
  /\ UNCHANGED <<nextId, expired, revoked, cleaner>>

\* The clock passes the expires_at of a lock.
Expire(i) ==
  /\ i \in Ids \ expired /\ i < nextId
  /\ expired' = expired \cup {i}
  /\ UNCHANGED <<active, frames, nextId, revoked, cleaner>>

\* Mutant: the comparison is the wrong way round.
CleanupExpiredLocks_Live ==
  /\ cleaner # "ended"
  /\ \E k \in Locked : active[k].id \notin expired
  /\ active' = [k \in Keys |-> IF active[k].id \notin expired THEN Free ELSE active[k]]
  /\ UNCHANGED <<frames, nextId, expired, revoked, cleaner>>

\* A round of the cleanup thread; one that had begun when _stop_cleanup was set
\* is finished.
CleanupExpiredLocks ==
  /\ cleaner # "ended"
  /\ \E k \in Locked : active[k].id \in expired
  /\ active' = [k \in Keys |-> IF active[k].id \in expired THEN Free ELSE active[k]]
  /\ cleaner' = IF cleaner = "stops" THEN "ended" ELSE cleaner
  /\ UNCHANGED <<frames, nextId, expired, revoked>>

\* The question removes an expired lock on its way.
IsResourceLocked(k) ==
  /\ active[k].id \in expired
  /\ active' = [active EXCEPT ![k] = Free]
  /\ UNCHANGED <<frames, nextId, expired, revoked, cleaner>>

ForceReleaseLock(k) ==
  /\ active[k] # Free
  /\ active' = [active EXCEPT ![k] = Free]
  /\ revoked' = revoked \cup {active[k].id}
  /\ UNCHANGED <<frames, nextId, expired, cleaner>>

\* shutdown() sets _stop_cleanup, waits for the thread ...
StopCleanup ==
  /\ cleaner = "runs"
  /\ cleaner' = "stops"
  /\ UNCHANGED <<active, frames, nextId, expired, revoked>>

\* ... which finds the event set and ends ...
CleanupEnds ==
  /\ cleaner = "stops"
  /\ cleaner' = "ended"
  /\ UNCHANGED <<active, frames, nextId, expired, revoked>>

\* ... and, after the thread's end or five seconds, clears the table, for those
\* who took a lock meanwhile as well.  Locks can be taken afterwards.
Shutdown ==
  /\ cleaner # "runs"
  /\ Locked # {}
  /\ active' = [k \in Keys |-> Free]
  /\ revoked' = revoked \cup {active[k].id : k \in Locked}
  /\ UNCHANGED <<frames, nextId, expired, cleaner>>

Next ==
  \/ \E t \in Threads, k \in Keys : AcquireLock(t, k)
  \/ \E t \in Threads : ReleaseLock(t)
  \/ \E i \in Ids : Expire(i)
  \/ \E k \in Keys : IsResourceLocked(k) \/ ForceReleaseLock(k)
  \/ CleanupExpiredLocks
  \/ StopCleanup \/ CleanupEnds \/ Shutdown

Spec == Init /\ [][Next]_vars

\* The clock goes on, and the cleanup thread wakes up every minute until it is
\* stopped; a block need not end.
FairSpec ==
  /\ Spec
  /\ WF_vars(cleaner = "runs" /\ CleanupExpiredLocks)
  /\ \A i \in Ids : WF_vars(Expire(i))

-----------------------------------------------------------------------------
\* A thread inside a "with acquire_lock" block still holds the key it was given,
\* unless that lock has expired or was removed by force: the end of an inner
\* block does not free what the outer one holds, and the end of a block whose
\* lock has expired does not free the key under the thread that has it now.
BlocksAreProtected ==
  \A t \in Threads : \A i \in 1 .. Len(frames[t]) :
    LET f == frames[t][i] IN
    Live(f.got) => active[f.key] = [id |-> f.got, owner |-> t]

\* "prevents conflicts" (ConcurrentOperationManager): two threads are in blocks
\* of one key only if one of them has outlived its lock.
Exclusive ==
  \A t, u \in Threads : \A i \in 1 .. Len(frames[t]), j \in 1 .. Len(frames[u]) :
    t # u /\ frames[t][i].key = frames[u][j].key
    => ~Live(frames[t][i].got) \/ ~Live(frames[u][j].got)

\* A holder that never ends does not keep the key: its lock expires and leaves
\* the table.  After a shutdown nobody empties the table any more, and the lock
\* at least expires, so that the next acquire_lock takes its place.
KeysComeFree ==
  \A i \in Ids :
    (\E k \in Keys : active[k].id = i) ~>
      \/ \A k \in Keys : active[k].id # i
      \/ cleaner # "runs" /\ i \in expired

-----------------------------------------------------------------------------
(***************************************************************************)
(* The locks as leases.                                                    *)
(***************************************************************************)
\* The lock of the key is in the table and still good.
Held(k) == active[k] # Free /\ Live(active[k].id)

\* The open blocks that were given the lock with the id.
Under(id) ==
  UNION {{frames[t][i].id : i \in {j \in 1 .. Len(frames[t]) : frames[t][j].got = id}}
           : t \in Threads}

Granted == INSTANCE Leases WITH
  holder  <- [k \in Keys |-> IF Held(k) THEN active[k].owner ELSE NoOne],
  blocks  <- [k \in Keys |-> IF Held(k) THEN Under(active[k].id) ELSE {}],
  orphans <- UNION {Under(i) : i \in expired \cup revoked}

\* acquire_lock grants re-entrant leases: whatever the order in which blocks
\* end, locks expire and are replaced or removed, a key is free as soon as the
\* last block under its lock has ended, never before, and a block that has
\* outlived its lock ends without touching the lease of another.
ImplementsLeases == Granted!Spec

=============================================================================
