SPECIFICATION FairSpec
CONSTANTS
  c1 = c1
  Covers <- OneCover
  Positions = {0, 60, 100}
  Caps <- AllPosition
  StopTilt = FALSE
  OpenCloseThreshold = 50
  Tolerance = 3
  MaxRetries = 2
  PositionMatching = TRUE
  DryRun = FALSE
  MoveThreshold = 1
  MoveCap = 1
  MaxGenerations = 1
  MaxDetours = 1
  MaxShutdowns = 2
  Origins = {"tracking"}
  Env = {"events","disable"}
PROPERTIES
  SettlesOrGivesUp
  DisableDrains
