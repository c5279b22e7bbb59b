SPECIFICATION Spec
CONSTANTS
  c1 = c1
  Covers <- OneCover
  Positions = {0, 60, 100}
  Caps <- AllPosition
  StopTilt = FALSE
  OpenCloseThreshold = 50
  Tolerance = 3
  MaxRetries = 1
  PositionMatching = TRUE
  DryRun = FALSE
  MoveThreshold = 1
  MoveCap = 1
  MaxGenerations = 2
  MaxDetours = 1
  MaxShutdowns = 1
  Origins = {"tracking", "clear"}
  Env = {"disable", "events", "override", "stop", "outage"}
INVARIANTS
  WaitingCanExpire
  KillSwitchFinal
