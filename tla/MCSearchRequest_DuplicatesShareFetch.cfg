CONSTANTS
  Requests = {r1, r2, r3, r4}
  Keys = {k1}
  Malformed = {}
  Permits = 3
  NoBody = NoBody
SPECIFICATION Spec
SYMMETRY Symmetry
INVARIANT DuplicatesShareFetch
CHECK_DEADLOCK FALSE
