SPECIFICATION FairSpec
CONSTANTS
  MotionTimeout = 3
  WeatherTimeout = 2
  QuietCap = 3
  MaxShutdowns = 2
INVARIANTS
  MotionWatched
PROPERTIES
  MotionHoldsOff
  WeatherHoldsOff
  WeatherReleases
