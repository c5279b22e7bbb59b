SPECIFICATION Spec
CONSTANTS
  Day = 7
  Start = 2
  End = 4
  Sunrise = 3
  Sunset = 5
  Grace = 2
  Spacing = 1
  Gate = TRUE
  Track = TRUE
  Night = TRUE
  Evening = FALSE
  Env = {"gate", "clock", "hand", "auto", "edit", "restart"}
INVARIANTS SilenceEnds NightReached DayTargetsCleared
