SPECIFICATION Spec
CONSTANTS
  Users = {u1}
  Admins = {u1}
  Nobody = nobody
  Requests = {r1, r2}
  Processors = {p1}
  Scripts = {}
  Managers = {r1, r2, p1}
  ManagerOf <- OwnManager
  NoOne = noOne
  NoTask = noTask
  MaxTasks = 2
  MaxConcurrent = 1
  QueueLimit = 2
  MaxRetries = 1
  Submitted = {"NORMAL"}
  Methods <- WebMethods
  Faults = {}
INVARIANT OneActivePerUser
CHECK_DEADLOCK FALSE
