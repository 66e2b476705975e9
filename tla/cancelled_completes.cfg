SPECIFICATION Spec
CONSTANTS
  Users = {u1}
  Admins = {u1}
  Nobody = nobody
  Requests = {r1}
  Processors = {p1}
  Scripts = {}
  Managers = {m}
  ManagerOf <- SharedManager
  NoOne = noOne
  NoTask = noTask
  MaxTasks = 2
  MaxConcurrent = 1
  QueueLimit = 2
  MaxRetries = 1
  Submitted = {"NORMAL"}
  Methods <- WebMethods
  Faults = {}
PROPERTY CancelledStaysCancelled
CHECK_DEADLOCK FALSE
