CONSTANTS
  Engines = {searxng0}
  Cap = 20
  ConnectWindow = 40
  Width = 64
  MaxStreak = 66
SPECIFICATION BreakerSpec
INVARIANTS SelfHeals TimeoutsBackOffBriefly
