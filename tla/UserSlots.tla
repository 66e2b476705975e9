----------------------------- MODULE UserSlots -----------------------------
(***************************************************************************)
(* What the task queue promises its users: each has one slot, free until   *)
(* they ask for captions, waiting until a worker takes the task, working   *)
(* until it ends, and only MaxConcurrent slots are worked on at a time.    *)
(* Every step is atomic; TaskQueue reads and commits apart.                *)
(***************************************************************************)
EXTENDS Naturals, FiniteSets

CONSTANTS Users, MaxConcurrent

VARIABLE slot

States == {"free", "waiting", "working"}
In(s)  == {u \in Users : slot[u] = s}

Init == slot = [u \in Users |-> "free"]

\* enqueue_task, or the requeue of what failed.
Ask(u) ==
  /\ slot[u] = "free"
  /\ slot' = [slot EXCEPT ![u] = "waiting"]

\* get_next_task.
Begin(u) ==
  /\ slot[u] = "waiting"
  /\ Cardinality(In("working")) < MaxConcurrent
  /\ slot' = [slot EXCEPT ![u] = "working"]

\* complete_task and the cancellations; an administrator may end several.
End(S) ==
  /\ S # {}
  /\ \A u \in S : slot[u] # "free"
  /\ slot' = [u \in Users |-> IF u \in S THEN "free" ELSE slot[u]]

Next ==
  \/ \E u \in Users : Ask(u) \/ Begin(u)
  \/ \E S \in SUBSET Users : End(S)

Spec == Init /\ [][Next]_slot
=============================================================================
