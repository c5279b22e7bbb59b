SPECIFICATION Spec
CONSTANTS
  N = 2
  Slots = {"storm", "ledge"}
  Safety = {"storm"}
  Floors = {"ledge"}
  Latched = {"storm"}
  a = a
  b = b
  Tasks = {a, b}
  Resync = TRUE
  Env = {"sensor", "release", "tracked", "window", "move", "expire", "button", "auto", "cover", "restart"}
  MaxEvents = 3
INVARIANTS ReleaseNoticed EventStaysFlagged ReloadQuiet OfflineReleasePending
SYMMETRY TaskSymmetry
CHECK_DEADLOCK FALSE
