SPECIFICATION Spec
CONSTANTS
  MaxCycles = 1
  MaxFailures = 0
  AlarmLengths = {24}
  MaxStray = 0
  AcPowerRatio = 1
INVARIANT EnergyInWattHours
