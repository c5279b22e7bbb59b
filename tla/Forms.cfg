SPECIFICATION FormsSpec
CONSTANTS
  None = None
  Given = Given
  Circle = 4
  Elevations = {0, 1}
  Temperatures = {1, 2}
  Percent = 4
  Tenth = 254
  Metric = {100000, 250000}
  Imperial = {985}
  MaxEdits = 3
INVARIANTS EntriesKept GatesAgree
PROPERTY RulesKept
CHECK_DEADLOCK FALSE
