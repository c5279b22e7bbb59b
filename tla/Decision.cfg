SPECIFICATION Spec
CONSTANTS
  ThetaMin = 0
  ThetaMax = 135
  PastAxis = 5
  Sky <- MCSky
  Covers <- MCCovers
  Slots <- MCSlots
  Configs <- MCConfigs
  Hands <- MCHands
  Env <- MCEnv
  Says <- MCSays
INVARIANTS SafetyReaches FloorReaches SunBlocked CloudAnswered
PROPERTY OverrideKept
