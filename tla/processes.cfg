SPECIFICATION Spec
CONSTANTS
  Users = {u1, u2}
  Admins = {}
  Nobody = nobody
  Requests = {r1, r2}
  Processors = {p1, p2, p3}
  Scripts = {}
  Managers = {m1, m2}
  ManagerOf <- TwoProcesses
  First = {r1, p1}
  NoOne = noOne
  NoTask = noTask
  MaxTasks = 3
  MaxConcurrent = 1
  QueueLimit = 1
  MaxRetries = 1
  Submitted = {"NORMAL"}
  Methods <- WebMethods
  Faults = {"crash"}
SYMMETRY Alike
INVARIANTS RunningPerManager QueuedPerManager ActivePerManager WorkersPerManager
CHECK_DEADLOCK FALSE
