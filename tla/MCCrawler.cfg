CONSTANTS
  u1 = u1
  u2 = u2
  u3 = u3
  u4 = u4
  Urls = {u1, u2, u3, u4}
  Capacity = 4
  Domain <- MCDomain
  Hostless = {u4}
  Links <- MCLinks
  Seeds <- MCSeeds
  Payloads <- MCPayloads
  QueueMax = 2
  LinksPerPage = 1
  MinConcurrency = 1
  MaxConcurrency = 2
  StartConcurrency = 2
  MaxStale = 1
  MaxRestarts = 1
  MaxSaves = 1
SPECIFICATION Spec
INVARIANTS TypeOK NoDuplicateWork Polite QueueBounded AccountedWhileUp
CHECK_DEADLOCK FALSE
