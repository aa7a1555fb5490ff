SPECIFICATION Spec
CONSTANTS
  MaxCycles = 2
  MaxFailures = 1
  AlarmLengths <- MCAlarmLengths
  MaxStray = 1
  AcPowerRatio = 1
INVARIANTS
  FieldsDecoded
  PointsShowTheirRegisters
  ScalesAgree
  WalkFindsModels
