SPECIFICATION FairSpec
CONSTANTS
  None = None
  e1 = e1
  e2 = e2
  c1 = c1
  c2 = c2
  Top = 2
  Arrive = 0
  Entries = {e1, e2}
  Covers = {c1, c2}
  Owner <- OwnerOf
  Proxied = {c1}
  Starts = {0}
  Calls = {1, 2}
  MaxCalls = 5
  MaxThrows = 2
  MaxLoads = 2
INVARIANTS ShownIsCurrent
PROPERTIES IndicatorEnds ShutdownReaches StaleCallsSilent
CHECK_DEADLOCK FALSE
