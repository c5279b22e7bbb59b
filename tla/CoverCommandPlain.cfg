SPECIFICATION Spec
CONSTANTS
  c1 = c1
  Covers <- OneCover
  Positions = {0, 60, 100}
  Caps <- AllOpenClose
  StopTilt = FALSE
  OpenCloseThreshold = 50
  Tolerance = 3
  MaxRetries = 1
  PositionMatching = TRUE
  DryRun = FALSE
  MoveThreshold = 0
  MoveCap = 1
  MaxGenerations = 1
  MaxDetours = 0
  MaxShutdowns = 1
  Origins = {"tracking", "safety", "user"}
  Env = {"disable", "window", "override", "mode", "events"}
INVARIANTS
  StaleNeverResent
  SafetyFlagTruthful
