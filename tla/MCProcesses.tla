---------------------------- MODULE MCProcesses ----------------------------
(* TaskQueue in a deployment of two processes, one TaskQueueManager each.  *)
EXTENDS MCTaskQueue

CONSTANT First   \* the actors of the first process

TwoProcesses ==
  LET first == CHOOSE m \in Managers : TRUE
      other == CHOOSE m \in Managers \ {first} : TRUE
  IN [a \in Actors |-> IF a \in First THEN first ELSE other]

Alike == Permutations(Users) \cup Permutations(Processors \ First)
=============================================================================
