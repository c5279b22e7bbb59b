SPECIFICATION Spec
CONSTANTS
  Top = 3
  Tolerance = 2
  Threshold = 1
  Grace = 1
  StartGrace = 1
  Timeout = 2
  Duration = 0
  Detector = "delta"
  Window = 0
  AllowReset = FALSE
  IgnoreMoving = FALSE
  Presets = {1}
  Env = {"command", "hand", "ui", "stop", "input", "proxy", "outage", "early", "toggle", "external", "reset"}
  MaxEvents = 2
  MaxQueue = 2
INVARIANTS OverrideTimed OwnTravelUnmarked MoveNoticed
PROPERTY NotProlonged
CHECK_DEADLOCK FALSE
