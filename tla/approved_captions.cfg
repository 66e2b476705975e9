SPECIFICATION Spec
CONSTANTS
  Images = {i1}
  MaxRows = 1
  Generators = {g1}
  Requests = {r1}
  Posters = {p1}
  Cleaners = {}
  Generated = {machine}
  Typed = {edited}
  Blank = blank
  None = none
  NoRow = noRow
  Reprocess = FALSE
INVARIANT ApprovedCaptions
