SPECIFICATION Spec
CONSTANTS
  Images = {i1}
  MaxRows = 2
  Generators = {g1, g2}
  Requests = {r1}
  Posters = {p1}
  Cleaners = {c1}
  Generated = {text}
  Typed = {text}
  Blank = blank
  None = none
  NoRow = noRow
  Reprocess = FALSE
SYMMETRY Symmetry
INVARIANTS TypeOK OneRowPerImage HumanDecided PostedIsPublished
