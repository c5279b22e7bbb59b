CONSTANTS
  None = None
  Grid = 12
  Step = 2
  Rise <- MCRise
  SunsetAt <- MCSunset
  Facing <- MCFacing
  High <- MCHigh
  Configs <- MCConfigs
  Jobs = {j1, j2}
  Setup = 11
  Horizon = 24
SYMMETRY MCSymmetry
SPECIFICATION ForecastSpec
INVARIANTS NextEventReal OnlyMidnightMixes
PROPERTIES StripFollowsLive EventsFrameSolar
