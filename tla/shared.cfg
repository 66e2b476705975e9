SPECIFICATION Spec
CONSTANTS
  Users = {u1, u2}
  Admins = {u1}
  Nobody = nobody
  Requests = {r1, r2}
  Processors = {p1, p2}
  Scripts = {}
  Managers = {m}
  ManagerOf <- SharedManager
  NoOne = noOne
  NoTask = noTask
  MaxTasks = 2
  MaxConcurrent = 1
  QueueLimit = 1
  MaxRetries = 1
  Submitted = {"NORMAL"}
  Methods <- AdminMethods
  Faults = {"crash", "db_error"}
SYMMETRY Symmetry
INVARIANTS TypeOK OneActivePerUser RunningBound NoDoubleProcessing QueueBound
PROPERTIES DeletesOnlyFinished ImplementsSlots
CHECK_DEADLOCK FALSE
