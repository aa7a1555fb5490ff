---------------------------- MODULE SunSpecMapping ----------------------------
(***************************************************************************)
(* The values that the mapper computes: how raw Sol-Ark registers are      *)
(* decoded (processBlock, correctSignedValue) and how the decoded fields   *)
(* become SunSpec points (update_sunspec_from_solark), for the points with *)
(* more to them than a change of scale.  Registers are decoded block by    *)
(* block: in one pass of loop() a cycle may renew some of the fields and   *)
(* leave others as they were.                                              *)
(***************************************************************************)
EXTENDS Integers

CONSTANTS
  RawStatus,        \* register 59
  RawPower,         \* register 175, inverter output
  RawSoc,           \* register 184
  RawBatteryPower,  \* register 190
  RawRelay,         \* register 194
  RawCapacity,      \* register 204
  RawBmsSoc,        \* register 316
  RawFlags,         \* registers 322 and 323, warning and fault
  RawGridType       \* register 286

Word   == {i \in Nat : i < 65536}
Byte   == {i \in Nat : i < 256}
Signed == {i \in Int : -32768 <= i /\ i < 32768}

ASSUME RawAssumption ==
  \A S \in {RawStatus, RawPower, RawSoc, RawBatteryPower, RawRelay, RawCapacity,
            RawBmsSoc, RawFlags, RawGridType} : S \subseteq Word

\* solark_modbus_map_v130.csv: a state of charge is a percentage.
ASSUME SocAssumption == RawSoc \subseteq 0 .. 100

VARIABLES
  solark,    \* the decoded fields
  holding    \* the points of the SunSpec map
vars == << solark, holding >>

NOT_IMPLEMENTED == 65535

-----------------------------------------------------------------------------
(* Decoding                                                                *)

\* The constant subtracted is the one of the code.
correctSignedValue(v) == IF v > 32767 THEN v - 65535 ELSE v

\* A uint8_t field keeps the low byte of the register.
uint8(v) == v % 256

\* Mutant of ToWord: the point is wider than a register.
ToWordUnchecked(x) == {x}

\* Conversion of a float to uint16_t: the integer part when it fits; otherwise
\* undefined, and builds wrap around or saturate.
ToWord(x) == IF x \in Word THEN {x} ELSE {x % 65536, 0, 65535}

-----------------------------------------------------------------------------
(* The points as functions of the decoded fields s                         *)

ACType(s) ==
  CASE s.grid_type = 0 -> 2
    [] s.grid_type = 1 -> 1
    [] s.grid_type = 2 -> 3
    [] OTHER -> 0

OperatingState(s) == IF s.inverter_status = 2 THEN 1 ELSE 0

\* Points of INV_STATUS.
OFF       == 0
STARTING  == 2
RUNNING   == 3
THROTTLED == 4
FAULT     == 6
STANDBY   == 7

\* Mutant of InverterState: any power but zero, also a negative one, is running.
InverterStateSignBlind(s) ==
  CASE s.inverter_status = 1 -> STARTING
    [] s.inverter_status = 2 -> (IF s.inverter_output_power # 0 THEN RUNNING ELSE STANDBY)
    [] s.inverter_status = 3 -> THROTTLED
    [] s.inverter_status = 4 -> FAULT
    [] OTHER -> OFF

InverterState(s) ==
  CASE s.inverter_status = 1 -> STARTING
    [] s.inverter_status = 2 -> (IF s.inverter_output_power > 100 THEN RUNNING ELSE STANDBY)
    [] s.inverter_status = 3 -> THROTTLED
    [] s.inverter_status = 4 -> FAULT
    [] OTHER -> OFF

Connection(s) == IF s.grid_relay_status = 2 THEN 1 ELSE 0

\* Bits of INV_DER_MODE.
FOLLOWING == 1
FORMING   == 2

DerMode(s) == IF s.grid_relay_status = 2 THEN FOLLOWING ELSE FORMING

\* The text of the alarm field, by its two parts.
AlarmInfo(s) ==
  [grid |-> IF s.grid_relay_status > 0 THEN "Connected" ELSE "Disconnected",
   batt |-> CASE s.battery_power < 0 -> "Charging"
              [] s.battery_power > 0 -> "Discharging"
              [] OTHER -> "Idle"]

\* Watt-hours at 51.2 V.
Rating(s) == (s.battery_capacity * 512) \div 10

\* Mutant of SocInEnergy: the BMS reading is not looked at for the energy.
SocInEnergyNoBms(s) == s.battery_soc

\* Mutant of BmsSocUsable: the upper bound is forgotten.
BmsSocUsableUnbounded(s) == s.bms_real_time_soc > 0

BmsSocUsable(s) == s.bms_real_time_soc > 0 /\ s.bms_real_time_soc <= 100

\* The code makes the choice twice, for the energy and for the percentage.
SocInEnergy(s) == IF BmsSocUsable(s) THEN s.bms_real_time_soc ELSE s.battery_soc
SocShown(s)    == IF BmsSocUsable(s) THEN s.bms_real_time_soc ELSE s.battery_soc

\* rating * (soc / 100.0f) in single precision: where the product is a whole
\* number the rounded factor can put it just below.
Available(rating, soc) ==
  LET whole == (rating * soc) \div 100
  IN  IF (rating * soc) % 100 = 0 /\ soc \notin {0, 100} /\ rating > 0
      THEN {whole, whole - 1}
      ELSE {whole}

StorageStatus(s) ==
  IF s.bms_fault > 0 THEN 2 ELSE IF s.bms_warning > 0 THEN 1 ELSE 0

-----------------------------------------------------------------------------
\* The fields are zero until their block is decoded; the map is what
\* setup_sunspec_models leaves: 0xFFFF in the points of model 701 and zero
\* above them.
Init ==
  /\ solark = [inverter_status |-> 0, inverter_output_power |-> 0, battery_soc |-> 0,
               battery_power |-> 0, grid_relay_status |-> 0, battery_capacity |-> 0,
               bms_real_time_soc |-> 0, bms_warning |-> 0, bms_fault |-> 0, grid_type |-> 0]
  /\ holding = [INV_AC_TYPE |-> NOT_IMPLEMENTED, INV_OPERATING_STATE |-> NOT_IMPLEMENTED,
                INV_STATUS |-> NOT_IMPLEMENTED, INV_GRID_CONNECTION |-> NOT_IMPLEMENTED,
                INV_DER_MODE |-> NOT_IMPLEMENTED, INV_AC_POWER |-> NOT_IMPLEMENTED,
                INV_ALARM_INFO |-> [grid |-> "", batt |-> ""],
                STORAGE_ENERGY_RATING |-> 0, STORAGE_ENERGY_AVAILABLE |-> 0,
                STORAGE_SOC |-> 0, STORAGE_STATUS |-> 0]

\* Every pass recomputes every point from the fields s.
update_sunspec_from_solark(s) ==
  \E power \in ToWord(s.inverter_output_power), rating \in ToWord(Rating(s)) :
    \E available \in Available(rating, SocInEnergy(s)) :
      holding' = [INV_AC_TYPE |-> ACType(s), INV_OPERATING_STATE |-> OperatingState(s),
                  INV_STATUS |-> InverterState(s), INV_GRID_CONNECTION |-> Connection(s),
                  INV_DER_MODE |-> DerMode(s), INV_AC_POWER |-> power,
                  INV_ALARM_INFO |-> AlarmInfo(s),
                  STORAGE_ENERGY_RATING |-> rating, STORAGE_ENERGY_AVAILABLE |-> available,
                  STORAGE_SOC |-> SocShown(s) * 10, STORAGE_STATUS |-> StorageStatus(s)]

\* One pass of loop(): a poll cycle that left fields s behind, then the update.
Pass(s) == solark' = s /\ update_sunspec_from_solark(s)

InverterStatusBlock ==
  \E v \in RawStatus :
    Pass([solark EXCEPT !.inverter_status = uint8(v)])

PowerBattery170 ==
  \E p \in RawPower, c \in RawSoc :
    Pass([solark EXCEPT !.inverter_output_power = correctSignedValue(p), !.battery_soc = c])

BatteryStatus190 ==
  \E p \in RawBatteryPower, r \in RawRelay :
    Pass([solark EXCEPT !.battery_power = correctSignedValue(p),
                         !.grid_relay_status = uint8(r)])

BatteryCapacity204 ==
  \E c \in RawCapacity : Pass([solark EXCEPT !.battery_capacity = c])

BmsData312 ==
  \E c \in RawBmsSoc, w, f \in RawFlags :
    Pass([solark EXCEPT !.bms_real_time_soc = c, !.bms_warning = w, !.bms_fault = f])

GridType286 ==
  \E g \in RawGridType : Pass([solark EXCEPT !.grid_type = uint8(g)])

NothingDecoded == Pass(solark)

Next ==
  \/ InverterStatusBlock \/ PowerBattery170 \/ BatteryStatus190
  \/ BatteryCapacity204 \/ BmsData312 \/ GridType286 \/ NothingDecoded

Spec == Init /\ [][Next]_vars

-----------------------------------------------------------------------------
\* The map has been filled at least once.
Filled == holding.INV_STATUS # NOT_IMPLEMENTED

\* Every point of the map fits a register and every field its type.
TypeOK ==
  /\ \A p \in DOMAIN holding \ {"INV_ALARM_INFO"} : holding[p] \in Word
  /\ solark.inverter_output_power \in Signed
  /\ solark.grid_relay_status \in Byte

\* The points that describe the inverter's state come from separate branches and
\* never contradict each other: on means running or standby, a running inverter
\* shows a power above the threshold, read as a signed word, and the grid is
\* connected exactly when the inverter follows it.
StatePointsAgree ==
  Filled =>
    /\ holding.INV_OPERATING_STATE = 1 <=> holding.INV_STATUS \in {RUNNING, STANDBY}
    /\ holding.INV_STATUS = RUNNING => holding.INV_AC_POWER > 100 /\ holding.INV_AC_POWER <= 32767
    /\ holding.INV_GRID_CONNECTION = 1 <=> holding.INV_DER_MODE = FOLLOWING

\* The energy available and the state of charge are computed apart, from a BMS
\* reading or the inverter's: whichever blocks were decoded, they are the same
\* share of the rating, within the one unit the float product can lose.
SocAgreesWithEnergy ==
  Filled =>
    LET share == (holding.STORAGE_ENERGY_RATING * holding.STORAGE_SOC) \div 1000
    IN  holding.STORAGE_ENERGY_AVAILABLE \in {share, share - 1}

\* The battery never holds more than its rating.
AvailableWithinRating ==
  Filled => holding.STORAGE_ENERGY_AVAILABLE <= holding.STORAGE_ENERGY_RATING
=============================================================================
