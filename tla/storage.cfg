SPECIFICATION Spec
CONSTANTS
  Generations = {g1, g2}
  Overriding = {g2}
  Cleaners = {c1, c2}
  Requests = 2
  Limit = 1
  MaxUsed = 2
  Faults = {"redis", "disk"}
INVARIANTS TypeOK OverridesBounded
PROPERTIES BlockLifted
