CONSTANTS
  Requests = {r1}
  Canonical <- MCCanonical
  Lists <- MCLists
SPECIFICATION FairSpec
INVARIANTS HitsNeverLost NothingOnlyAfterAllProbed
PROPERTIES FailureHitsOwnKey EveryFanoutEnds
CHECK_DEADLOCK FALSE
