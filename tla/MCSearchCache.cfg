CONSTANTS
  Keys = {k1, k2, k3}
  Sizes = {1, 2, 3}
  MaxBytes = 3
  MaxEntries = 2
  MaxEntryBytes = 2
  Ttls = {1, 2}
  MaxPuts = 4
  MaxTime = 4
  None = None
SPECIFICATION Spec
SYMMETRY Symmetry
INVARIANTS WithinBudget NewestKept
PROPERTY ImplementsContract
CHECK_DEADLOCK FALSE
