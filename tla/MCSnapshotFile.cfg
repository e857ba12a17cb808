CONSTANTS
  MaxSnapshots = 4
SPECIFICATION FileSpec
INVARIANTS LatestSurvivesKill
PROPERTIES DurableSurvives
