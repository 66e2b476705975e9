------------------------------- MODULE Leases -------------------------------
(***************************************************************************)
(* What ConcurrentOperationManager promises the threads that use it: a     *)
(* lease per key, which its holder may enter again and again, which ends   *)
(* with the last of its blocks and not before, and which may lapse under   *)
(* the blocks that are still open.                                         *)
(***************************************************************************)
CONSTANTS Threads, Keys, NoOne, Ids

VARIABLES
  holder,    \* the thread that has the lease of each key
  blocks,    \* the open blocks that the lease protects
  orphans    \* the open blocks whose lease has lapsed

Init ==
  /\ holder = [k \in Keys |-> NoOne]
  /\ blocks = [k \in Keys |-> {}]
  /\ orphans = {}

\* A thread takes a free lease, or enters once more the one it has.
Take(t, k, b) ==
  /\ holder[k] \in {NoOne, t}
  /\ b \notin orphans /\ \A q \in Keys : b \notin blocks[q]
  /\ holder' = [holder EXCEPT ![k] = t]
  /\ blocks' = [blocks EXCEPT ![k] = @ \cup {b}]
  /\ UNCHANGED orphans

\* The end of a block frees the key if it was the last.
Drop(t, k, b) ==
  /\ holder[k] = t /\ b \in blocks[k]
  /\ holder' = [holder EXCEPT ![k] = IF blocks[k] = {b} THEN NoOne ELSE t]
  /\ blocks' = [blocks EXCEPT ![k] = @ \ {b}]
  /\ UNCHANGED orphans

\* Time, an administrator or the shutdown ends leases, and their blocks go on
\* without protection.
Lapse(S) ==
  /\ S # {} /\ \A k \in S : holder[k] # NoOne
  /\ holder' = [k \in Keys |-> IF k \in S THEN NoOne ELSE holder[k]]
  /\ blocks' = [k \in Keys |-> IF k \in S THEN {} ELSE blocks[k]]
  /\ orphans' = orphans \cup UNION {blocks[k] : k \in S}

\* The end of such a block changes nothing for anyone else.
Abandon(b) ==
  /\ b \in orphans
  /\ orphans' = orphans \ {b}
  /\ UNCHANGED <<holder, blocks>>

Next ==
  \/ \E t \in Threads, k \in Keys, b \in Ids : Take(t, k, b) \/ Drop(t, k, b)
  \/ \E S \in SUBSET Keys : Lapse(S)
  \/ \E b \in Ids : Abandon(b)

Spec == Init /\ [][Next]_<<holder, blocks, orphans>>

=============================================================================
