CONSTANTS
  Requests = {r1, r2, r3}
  Keys = {k1, k2, k3}
  Malformed = {k3}
  Permits = 2
  NoBody = NoBody
SPECIFICATION FairSpec
INVARIANTS PermitsAccounted WaiterHasWaker
PROPERTIES ImplementsService EveryRequestAnswered
CHECK_DEADLOCK FALSE
