---------------------------- MODULE MCTaskQueue ----------------------------
(* Small deployments of TaskQueue for TLC.                                 *)
EXTENDS TaskQueue, TLC

\* Every actor goes through one TaskQueueManager, as the unit tests do.
SharedManager == [a \in Actors |-> CHOOSE m \in Managers : TRUE]

\* Every actor has its own, as the web application does: the managers are
\* named after the actors.
OwnManager == [a \in Actors |-> a]

WebMethods == {"enqueue_task", "cancel_task", "get_next_task", "complete_task"}
AdminMethods == WebMethods \cup {"cancel_task_as_admin", "pause_user_jobs",
                  "clear_stuck_tasks", "cleanup_completed_tasks",
                  "delete_platform"}
OwnMethods == WebMethods \cup {"pause_user_jobs", "resume_user_jobs",
                "set_task_priority", "should_auto_retry_task", "clear_stuck_tasks",
                "requeue_failed_task"}

Symmetry == Permutations(Requests) \cup Permutations(Processors)
=============================================================================
