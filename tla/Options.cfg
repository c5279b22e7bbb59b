SPECIFICATION Spec
CONSTANTS
  a = a
  b = b
  Sensors <- AllSensors
  Absent = Absent
  Others = {0, 1}
  MaxSaves = 3
  MaxRestarts = 1
SYMMETRY Swaps
INVARIANTS OptionsInUse RollbackSafe
PROPERTY SunAloneInPlace
