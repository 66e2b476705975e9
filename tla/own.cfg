SPECIFICATION Spec
CONSTANTS
  Users = {u1, u2}
  Admins = {u1}
  Nobody = nobody
  Requests = {r1}
  Processors = {p1}
  Scripts = {s1}
  Managers = {r1, p1, s1}
  ManagerOf <- OwnManager
  NoOne = noOne
  NoTask = noTask
  MaxTasks = 2
  MaxConcurrent = 1
  QueueLimit = 2
  MaxRetries = 1
  Submitted = {"NORMAL"}
  Methods <- OwnMethods
  Faults = {}
INVARIANT RunningHasWorker
CHECK_DEADLOCK FALSE
