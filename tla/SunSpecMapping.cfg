SPECIFICATION Spec
CONSTANTS
  RawStatus <- MCStatus
  RawPower <- MCPower
  RawSoc <- MCSoc
  RawBatteryPower <- MCBatteryPower
  RawRelay <- MCRelay
  RawCapacity <- MCCapacity
  RawBmsSoc <- MCBmsSoc
  RawFlags <- MCFlags
  RawGridType <- MCGridType
INVARIANTS TypeOK StatePointsAgree SocAgreesWithEnergy AvailableWithinRating
