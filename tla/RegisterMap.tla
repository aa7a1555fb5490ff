----------------------------- MODULE RegisterMap -----------------------------
(***************************************************************************)
(* Where every word of the SunSpec map comes from.  One poll cycle reads   *)
(* blocks of the inverter's registers into ModbusMaster's response buffer, *)
(* processBlock picks words out of the buffer, and the mapper scales them  *)
(* and lays them out as models 1, 701 and 713.  The values are abstracted  *)
(* to their origin: a word is the address of the register it was read      *)
(* from, and a number is that word times a power of ten.  The values that  *)
(* need more than a change of scale are in SunSpecMapping.                 *)
(***************************************************************************)
EXTENDS Integers, Sequences

CONSTANTS
  MaxCycles,      \* bound: poll cycles
  MaxFailures,    \* bound: failed reads in one cycle
  AlarmLengths,   \* lengths of the alarm texts considered
  MaxStray,       \* bound: words read past the end of a text
  AcPowerRatio    \* watts that one unit of the inverter's AC powers is: its register 54

ASSUME BoundsAssumption ==
  /\ MaxCycles \in Nat /\ MaxFailures \in Nat /\ MaxStray \in Nat
  /\ AlarmLengths \subseteq 1 .. 63

\* Inverters up to 12K and older 15K count in 1 W, newer 15K in 10 W.
ASSUME InverterAssumption == AcPowerRatio \in {1, 10}

VARIABLES
  response,    \* ModbusMaster's response buffer: origin of each word
  solark,      \* the decoded fields, by the register each one is named after
  holding,     \* holdingRegisters
  pc,          \* "setup", "poll": in the cycle, "update": the mapper's turn, "loop"
  index,       \* the loop variable of poll()
  cycles, failures
vars == << response, solark, holding, pc, index, cycles, failures >>

-----------------------------------------------------------------------------
(* The inverter's registers and how they are read.                         *)

SolArkRegisterMap ==
  [COMM_VERSION |-> 2, SN_BYTE_01 |-> 3, SN_BYTE_02 |-> 4, SN_BYTE_03 |-> 5, SN_BYTE_04 |-> 6,
   SN_BYTE_05 |-> 7, BATTERY_CHARGE_ENERGY |-> 70, BATTERY_DISCHARGE_ENERGY |-> 71,
   GRID_BUY_ENERGY |-> 76, GRID_SELL_ENERGY |-> 77, GRID_FREQUENCY |-> 79, LOAD_ENERGY |-> 84,
   PV_ENERGY |-> 108, GRID_VOLTAGE |-> 152, INVERTER_VOLTAGE |-> 156, GRID_CURRENT_L1 |-> 160,
   GRID_CURRENT_L2 |-> 161, GRID_CT_CURRENT_L1 |-> 162, GRID_CT_CURRENT_L2 |-> 163,
   INVERTER_CURRENT_L1 |-> 164, INVERTER_CURRENT_L2 |-> 165, SMART_LOAD_POWER |-> 166,
   GRID_POWER |-> 169, INVERTER_STATUS |-> 59, DCDC_XFRMR_TEMP |-> 90, IGBT_HEATSINK_TEMP |-> 91,
   INVERTER_OUTPUT_POWER |-> 175, LOAD_POWER_L1 |-> 176, LOAD_POWER_L2 |-> 177,
   LOAD_POWER_TOTAL |-> 178, LOAD_CURRENT_L1 |-> 179, LOAD_CURRENT_L2 |-> 180,
   BATTERY_TEMPERATURE |-> 182, BATTERY_VOLTAGE |-> 183, BATTERY_SOC |-> 184, PV1_POWER |-> 186,
   PV2_POWER |-> 187, BATTERY_POWER |-> 190, BATTERY_CURRENT |-> 191, LOAD_FREQUENCY |-> 192,
   INVERTER_FREQUENCY |-> 193, GRID_RELAY_STATUS |-> 194, GENERATOR_RELAY_STATUS |-> 195,
   BATTERY_CAPACITY |-> 204, CORRECTED_BATTERY_CAPACITY |-> 107, BATTERY_EMPTY_VOLTAGE |-> 205,
   BATTERY_SHUTDOWN_VOLTAGE |-> 220, BATTERY_RESTART_VOLTAGE |-> 221, BATTERY_LOW_VOLTAGE |-> 222,
   BATTERY_SHUTDOWN_PERCENT |-> 217, BATTERY_RESTART_PERCENT |-> 218, BATTERY_LOW_PERCENT |-> 219,
   BMS_CHARGING_VOLTAGE |-> 312, BMS_DISCHARGE_VOLTAGE |-> 313, BMS_CHARGING_CURRENT_LIMIT |-> 314,
   BMS_DISCHARGE_CURRENT_LIMIT |-> 315, BMS_REAL_TIME_SOC |-> 316, BMS_REAL_TIME_VOLTAGE |-> 317,
   BMS_REAL_TIME_CURRENT |-> 318, BMS_REAL_TIME_TEMP |-> 319, BMS_WARNING |-> 322,
   BMS_FAULT |-> 323, GRID_TYPE |-> 286]

R == SolArkRegisterMap
Fields == { R[name] : name \in DOMAIN R }

\* Mutant of solark_read_blocks: the first block is read one register short.
solark_read_blocksShort ==
  << <<70, 14>>, <<108, 1>>, <<59, 1>>, <<90, 2>>, <<150, 20>>, <<170, 20>>, <<190, 10>>, <<204, 1>>,
     <<107, 1>>, <<205, 1>>, <<220, 3>>, <<217, 3>>, <<312, 12>>, <<286, 1>>, <<2, 6>> >>

\* Start and number of registers of each block, in the order of the reads.
solark_read_blocks ==
  << <<R.BATTERY_CHARGE_ENERGY, 15>>, <<R.PV_ENERGY, 1>>, <<R.INVERTER_STATUS, 1>>,
     <<R.DCDC_XFRMR_TEMP, 2>>, <<150, 20>>, <<170, 20>>, <<R.BATTERY_POWER, 10>>,
     <<R.BATTERY_CAPACITY, 1>>, <<R.CORRECTED_BATTERY_CAPACITY, 1>>, <<R.BATTERY_EMPTY_VOLTAGE, 1>>,
     <<R.BATTERY_SHUTDOWN_VOLTAGE, 3>>, <<R.BATTERY_SHUTDOWN_PERCENT, 3>>,
     <<R.BMS_CHARGING_VOLTAGE, 12>>, <<R.GRID_TYPE, 1>>, <<R.COMM_VERSION, 6>> >>

\* The registers that processBlock decodes in the case of the i-th block: the
\* cases partition the fields, in the order and with the grouping of the enum.
SolArkBlockType ==
  << {R.BATTERY_CHARGE_ENERGY, R.BATTERY_DISCHARGE_ENERGY, R.GRID_BUY_ENERGY, R.GRID_SELL_ENERGY,
      R.GRID_FREQUENCY, R.LOAD_ENERGY},
     {R.PV_ENERGY}, {R.INVERTER_STATUS}, {R.DCDC_XFRMR_TEMP, R.IGBT_HEATSINK_TEMP},
     {R.GRID_VOLTAGE, R.INVERTER_VOLTAGE, R.GRID_CURRENT_L1, R.GRID_CURRENT_L2,
      R.GRID_CT_CURRENT_L1, R.GRID_CT_CURRENT_L2, R.INVERTER_CURRENT_L1, R.INVERTER_CURRENT_L2,
      R.SMART_LOAD_POWER, R.GRID_POWER},
     {R.INVERTER_OUTPUT_POWER, R.LOAD_POWER_L1, R.LOAD_POWER_L2, R.LOAD_POWER_TOTAL,
      R.LOAD_CURRENT_L1, R.LOAD_CURRENT_L2, R.BATTERY_TEMPERATURE, R.BATTERY_VOLTAGE,
      R.BATTERY_SOC, R.PV1_POWER, R.PV2_POWER},
     {R.BATTERY_POWER, R.BATTERY_CURRENT, R.LOAD_FREQUENCY, R.INVERTER_FREQUENCY,
      R.GRID_RELAY_STATUS, R.GENERATOR_RELAY_STATUS},
     {R.BATTERY_CAPACITY}, {R.CORRECTED_BATTERY_CAPACITY}, {R.BATTERY_EMPTY_VOLTAGE},
     {R.BATTERY_SHUTDOWN_VOLTAGE, R.BATTERY_RESTART_VOLTAGE, R.BATTERY_LOW_VOLTAGE},
     {R.BATTERY_SHUTDOWN_PERCENT, R.BATTERY_RESTART_PERCENT, R.BATTERY_LOW_PERCENT},
     312 .. 319 \cup {R.BMS_WARNING, R.BMS_FAULT},
     {R.GRID_TYPE},
     2 .. 7 >>

\* The divisor of a decoded field as a power of ten.
SolArkScalingFactors(r) ==
  CASE r \in {R.BATTERY_CHARGE_ENERGY, R.BATTERY_DISCHARGE_ENERGY, R.GRID_BUY_ENERGY,
              R.GRID_SELL_ENERGY, R.LOAD_ENERGY, R.PV_ENERGY,                      \* ENERGY
              R.GRID_VOLTAGE, R.INVERTER_VOLTAGE,                                  \* VOLTAGE
              R.DCDC_XFRMR_TEMP, R.IGBT_HEATSINK_TEMP, R.BATTERY_TEMPERATURE,
              R.BMS_REAL_TIME_TEMP} -> 1                                           \* TEMPERATURE_SCALE
    [] r \in {R.GRID_FREQUENCY, R.LOAD_FREQUENCY, R.INVERTER_FREQUENCY} -> 2       \* FREQUENCY
    [] r \in {R.GRID_CURRENT_L1, R.GRID_CURRENT_L2, R.GRID_CT_CURRENT_L1, R.GRID_CT_CURRENT_L2,
              R.INVERTER_CURRENT_L1, R.INVERTER_CURRENT_L2, R.LOAD_CURRENT_L1, R.LOAD_CURRENT_L2,
              R.BATTERY_CURRENT, R.BATTERY_VOLTAGE, R.BATTERY_EMPTY_VOLTAGE,
              R.BATTERY_SHUTDOWN_VOLTAGE, R.BATTERY_RESTART_VOLTAGE, R.BATTERY_LOW_VOLTAGE,
              R.BMS_CHARGING_VOLTAGE, R.BMS_DISCHARGE_VOLTAGE,
              R.BMS_REAL_TIME_VOLTAGE} -> 2                                        \* CURRENT
    [] OTHER -> 0

\* The constructor's zero, and the buffer before the first reply.
NoWord == 0
Zero   == [from |-> NoWord, exp |-> 0]

Start(i) == solark_read_blocks[i][1]

\* A reply overwrites as many words of the buffer as were asked for.
readHoldingRegisters(i) ==
  [k \in DOMAIN response |-> IF k < solark_read_blocks[i][2] THEN Start(i) + k ELSE response[k]]

processBlock(i, buffer) ==
  [r \in Fields |-> IF r \in SolArkBlockType[i]
                    THEN [from |-> buffer[r - Start(i)], exp |-> - SolArkScalingFactors(r)]
                    ELSE solark[r]]

-----------------------------------------------------------------------------
(* The content of a holding register: a constant; a number computed from   *)
(* decoded fields, of which it holds the part-th 16-bit word, most         *)
(* significant first; two characters of a text; or whatever was in memory  *)
(* behind a text.                                                          *)

Content(kind, of, exp, part, value) ==
  [kind |-> kind, of |-> of, exp |-> exp, part |-> part, value |-> value]

Const(v) == Content("const", {}, 0, 0, v)
Text(n)  == Content("text", {}, 0, 0, n)    \* of a text n characters long
Stray    == Content("stray", {}, 0, 0, 0)

\* A number of n words computed from the fields rs, which share one unit, and
\* multiplied by 10^by.
Number(s, rs, by, n) ==
  [k \in 1 .. n |-> Content("number", { s[r].from : r \in rs },
                            by + s[CHOOSE r \in rs : TRUE].exp, k, 0)]
Field(s, r, by) == Number(s, {r}, by, 1)
Consts(vs)      == [k \in DOMAIN vs |-> Const(vs[k])]

\* A run of words from an address on, and the registers after writing some runs.
Write(bank, runs) ==
  [a \in DOMAIN bank |->
     LET hits == { p \in runs : a >= p[1] /\ a < p[1] + Len(p[2]) }
     IN  IF hits = {} THEN bank[a]
         ELSE LET p == CHOOSE q \in hits : TRUE IN p[2][a - p[1] + 1]]

\* The loop goes two characters at a time and stops at a zero in the first one.
\* When the text has an odd length it steps over the terminator and goes on in
\* the memory behind it, for as many words as happen to begin with a non-zero.
set_sunspec_string(length, max_len, stray) ==
  LET text == (length + 1) \div 2
      past == IF length % 2 = 1 THEN stray ELSE 0
  IN  [k \in 1 .. max_len \div 2 |->
         IF k <= text THEN Text(length) ELSE IF k <= text + past THEN Stray ELSE Const(0)]

common_offset   == 2
inverter_offset == common_offset + 66 + 2
storage_offset  == inverter_offset + 153 + 2
end_offset      == storage_offset + 9

\* Offsets within the models (the SF_ of the names is FACTOR_ here).
COMMON ==
  [MODEL_ID |-> 0, MANUFACTURER |-> 2, MODEL |-> 18, OPTIONS |-> 34, VERSION |-> 42, SERIAL |-> 50,
   DEVICE_ADDR |-> 66]

INV ==
  [MODEL_ID |-> 0, AC_TYPE |-> 2, OPERATING_STATE |-> 3, STATUS |-> 4, GRID_CONNECTION |-> 5,
   ALARM |-> 6, DER_MODE |-> 8, AC_POWER |-> 10, AC_VA |-> 11, AC_VAR |-> 12, AC_PF |-> 13,
   AC_CURRENT |-> 14, AC_VOLTAGE_LL |-> 15, AC_VOLTAGE_LN |-> 16, AC_FREQUENCY |-> 17,
   ENERGY_INJECTED |-> 19, TEMP_CABINET |-> 36, TEMP_TRANSFORMER |-> 38, TEMP_IGBT |-> 39,
   AC_POWER_L1 |-> 41, AC_CURRENT_L1 |-> 45, AC_VOLTAGE_L1L2 |-> 46, AC_POWER_L2 |-> 64,
   AC_CURRENT_L2 |-> 68, FACTOR_CURRENT |-> 113, ALARM_INFO |-> 123]

STORAGE ==
  [MODEL_ID |-> 0, ENERGY_RATING |-> 2, ENERGY_AVAILABLE |-> 3, SOC |-> 4, SOH |-> 5, STATUS |-> 6,
   FACTOR_ENERGY |-> 7]

SCALE_FACTOR == [one |-> 0, tenth |-> -1, hundredth |-> -2, thousandth |-> -3]

NOT_IMPLEMENTED == 65535
Unimplemented(n) == [k \in 1 .. n |-> Const(NOT_IMPLEMENTED)]

At(offset, runs) == { << offset + p[1], p[2] >> : p \in runs }

\* "Sol-Ark", "Sol-Ark-12K-P", "None"; version and serial number are converted
\* before any poll, from zeros: "0" and nothing.
CommonModel(stray) ==
  { << COMMON.MODEL_ID, Consts(<< 1, 66 >>) >>,
    << COMMON.MANUFACTURER, set_sunspec_string(7, 32, stray[1]) >>,
    << COMMON.MODEL, set_sunspec_string(13, 32, stray[2]) >>,
    << COMMON.OPTIONS, set_sunspec_string(4, 16, 0) >>,
    << COMMON.VERSION, set_sunspec_string(1, 16, stray[3]) >>,
    << COMMON.SERIAL, set_sunspec_string(0, 32, 0) >>,
    << COMMON.DEVICE_ADDR, Consts(<< 1 >>) >> }

\* Mutant of ScaleFactors: the factors of current and voltage are swapped.
ScaleFactorsSwapped == << -1, -2, -2, 0, -2, 0, 0, -3, -3, -1 >>

\* Current, voltage, frequency, power, power factor, VA, VAR, energy, reactive
\* energy, temperature.
ScaleFactors ==
  LET f == SCALE_FACTOR
  IN  << f.hundredth, f.tenth, f.hundredth, f.one, f.hundredth, f.one, f.one, f.thousandth,
         f.thousandth, f.tenth >>

InverterModel ==
  { << INV.MODEL_ID, Consts(<< 701, 153 >>) >>,
    << INV.AC_TYPE, Unimplemented(111) >>,
    << INV.FACTOR_CURRENT, Consts(ScaleFactors) >>,
    << INV.ALARM_INFO, Unimplemented(30) >> }

Blank == [a \in 0 .. 299 |-> Const(0)]

\* "SunS" and the two models.
SetupRuns(stray) ==
  { << 0, Consts(<< 21365, 28243 >>) >> } \cup At(common_offset, CommonModel(stray))
                                          \cup At(inverter_offset, InverterModel)

setup_sunspec_models ==
  /\ pc = "setup"
  /\ \E stray \in [1 .. 3 -> 0 .. MaxStray] :
       holding' = Write(Blank, SetupRuns(stray))
  /\ pc' = "loop"
  /\ UNCHANGED << response, solark, index, cycles, failures >>

-----------------------------------------------------------------------------
\* Mutant of PhasePoints: the second phase shows the current of the first.
PhasePointsAlike(s) ==
  { << INV.AC_POWER_L1, Field(s, R.LOAD_POWER_L1, 0) >>,
    << INV.AC_CURRENT_L1, Field(s, R.INVERTER_CURRENT_L1, 2) >>,
    << INV.AC_VOLTAGE_L1L2, Field(s, R.INVERTER_VOLTAGE, 1) >>,
    << INV.AC_POWER_L2, Field(s, R.LOAD_POWER_L2, 0) >>,
    << INV.AC_CURRENT_L2, Field(s, R.INVERTER_CURRENT_L1, 2) >> }

PhasePoints(s) ==
  { << INV.AC_POWER_L1, Field(s, R.LOAD_POWER_L1, 0) >>,
    << INV.AC_CURRENT_L1, Field(s, R.INVERTER_CURRENT_L1, 2) >>,
    << INV.AC_VOLTAGE_L1L2, Field(s, R.INVERTER_VOLTAGE, 1) >>,
    << INV.AC_POWER_L2, Field(s, R.LOAD_POWER_L2, 0) >>,
    << INV.AC_CURRENT_L2, Field(s, R.INVERTER_CURRENT_L2, 2) >> }

\* The other points of model 701 that an update writes.  Of the computations only
\* the powers of ten are kept: the mean of the two currents, the division by the
\* root of three and the temperatures' offset of 1000 are left out.
InverterPoints(s, length) ==
  { << INV.AC_TYPE, Field(s, R.GRID_TYPE, 0) >>,
    << INV.OPERATING_STATE, Field(s, R.INVERTER_STATUS, 0) >>,
    << INV.STATUS, Number(s, {R.INVERTER_STATUS, R.INVERTER_OUTPUT_POWER}, 0, 1) >>,
    << INV.GRID_CONNECTION, Field(s, R.GRID_RELAY_STATUS, 0) >>,
    << INV.ALARM, Consts(<< 0, 0 >>) >>,
    << INV.DER_MODE, Number(s, {R.GRID_RELAY_STATUS}, 0, 2) >>,
    << INV.AC_POWER, Field(s, R.INVERTER_OUTPUT_POWER, 0) >>,
    << INV.AC_VA, Field(s, R.INVERTER_OUTPUT_POWER, 0) >>,
    << INV.AC_VAR, Consts(<< 0 >>) >>,
    << INV.AC_PF, Consts(<< 100 >>) >>,
    << INV.AC_CURRENT, Number(s, {R.INVERTER_CURRENT_L1, R.INVERTER_CURRENT_L2}, 2, 1) >>,
    << INV.AC_VOLTAGE_LL, Field(s, R.INVERTER_VOLTAGE, 1) >>,
    << INV.AC_VOLTAGE_LN, Field(s, R.INVERTER_VOLTAGE, 1) >>,
    << INV.AC_FREQUENCY, Number(s, {R.INVERTER_FREQUENCY}, 2, 2) >>,
    << INV.ENERGY_INJECTED, Number(s, {R.LOAD_ENERGY}, 3, 4) >>,
    << INV.TEMP_CABINET, Field(s, R.BATTERY_TEMPERATURE, 1) >>,
    << INV.TEMP_TRANSFORMER, Field(s, R.DCDC_XFRMR_TEMP, 1) >>,
    << INV.TEMP_IGBT, Field(s, R.IGBT_HEATSINK_TEMP, 1) >>,
    << INV.ALARM_INFO, set_sunspec_string(length, 64, 0) >> }

\* Mutant of StorageHeader: the length counts the two words of the header.
StorageHeaderLong == << 713, 9 >>

StorageHeader == << 713, 7 >>

\* Header, points and scale factors of model 713; the state of health is left
\* unimplemented.
StoragePoints(s) ==
  { << STORAGE.MODEL_ID, Consts(StorageHeader) >>,
    << STORAGE.ENERGY_RATING, Field(s, R.BATTERY_CAPACITY, 0) >>,
    << STORAGE.ENERGY_AVAILABLE, Number(s, {R.BATTERY_CAPACITY, R.BATTERY_SOC, R.BMS_REAL_TIME_SOC}, 0, 1) >>,
    << STORAGE.SOC, Number(s, {R.BATTERY_SOC, R.BMS_REAL_TIME_SOC}, 1, 1) >>,
    << STORAGE.SOH, Unimplemented(1) >>,
    << STORAGE.STATUS, Number(s, {R.BMS_WARNING, R.BMS_FAULT}, 0, 1) >>,
    << STORAGE.FACTOR_ENERGY, Consts(<< SCALE_FACTOR.thousandth, SCALE_FACTOR.tenth >>) >> }

\* The two models and the end model.
UpdateRuns(s, length) ==
  At(inverter_offset, InverterPoints(s, length) \cup PhasePoints(s))
    \cup At(storage_offset, StoragePoints(s))
    \cup { << end_offset, Consts(<< 65535, 0 >>) >> }

update_sunspec_from_solark ==
  /\ pc \in {"update", "loop"}
  /\ \E length \in AlarmLengths :
       holding' = Write(holding, UpdateRuns(solark, length))
  /\ pc' = "loop"
  /\ UNCHANGED << response, solark, index, cycles, failures >>

-----------------------------------------------------------------------------
Init ==
  /\ response = [k \in 0 .. 19 |-> NoWord]
  /\ solark = [r \in Fields |-> Zero]
  /\ holding = Blank
  /\ pc = "setup"
  /\ index = 1
  /\ cycles = 0
  /\ failures = 0

StartPoll ==
  /\ pc = "loop"
  /\ cycles < MaxCycles
  /\ pc' = "poll"
  /\ index' = 1
  /\ cycles' = cycles + 1
  /\ failures' = 0
  /\ UNCHANGED << response, solark, holding >>

NextBlock ==
  /\ index' = IF index = Len(solark_read_blocks) THEN 1 ELSE index + 1
  /\ pc' = IF index = Len(solark_read_blocks) THEN "update" ELSE "poll"

BlockRead ==
  /\ pc = "poll"
  /\ response' = readHoldingRegisters(index)
  /\ solark' = processBlock(index, response')
  /\ NextBlock
  /\ UNCHANGED << holding, cycles, failures >>

\* A reply that does not come, or is refused, leaves the buffer as it was.
BlockFails ==
  /\ pc = "poll"
  /\ failures < MaxFailures
  /\ failures' = failures + 1
  /\ NextBlock
  /\ UNCHANGED << response, solark, holding, cycles >>

Next ==
  \/ setup_sunspec_models
  \/ StartPoll \/ BlockRead \/ BlockFails
  \/ update_sunspec_from_solark

Spec == Init /\ [][Next]_vars

-----------------------------------------------------------------------------
M == INSTANCE SunSpecModels

\* The addresses of the reference follow from the sizes.
ASSUME ReferenceAssumption == M!Tiled

Updated == pc = "loop" /\ cycles > 0

\* The unit of a register that the code can know.  It never reads register 54:
\* where that says 10 W, every AC power is decoded, logged and served a tenth of
\* what it is, and the properties below claim nothing of the registers it scales.
UnitKnown(r) ==
  /\ r \in DOMAIN M!UnitOf
  /\ r \in M!ByPowerRatio => AcPowerRatio = 1

\* The register map is in order before the first poll as after any other: every
\* field holds the register that it is named after, never one that an earlier
\* read left in the response buffer, and in the unit of the register table, AC
\* powers of a 10 W inverter excepted.
\* (The counts of solark_read_blocks, the offsets and divisors of processBlock.)
FieldsDecoded ==
  \A r \in Fields :
    /\ solark[r].from \in {NoWord, r}
    /\ solark[r].from = r /\ UnitKnown(r) => solark[r].exp = M!UnitOf[r]

\* Every point for which a document names the inverter's registers shows just
\* these, as they were last decoded, at the address found by adding up the point
\* sizes of the model definitions, words of one number in order; points that the
\* gateway has no value for say "not implemented", and no text of an earlier,
\* longer alarm is left.  (The offsets of sunspec_models.h, the writes of
\* update_sunspec_from_solark.)
PointsShowTheirRegisters ==
  Updated =>
    \A p \in M!Points : \A k \in 1 .. p[3] :
      LET word == holding[p[2] + k - 1]
      IN  /\ p[1] \in DOMAIN M!SourcesOf =>
               /\ word.kind = "number"
               /\ word.of = { solark[r].from : r \in M!SourcesOf[p[1]] }
               /\ word.part = k
          /\ p[1] = "none" => word = Const(NOT_IMPLEMENTED)
          /\ p[1] = "MnAlrmInfo" =>
               LET length == holding[p[2]].value
               IN  word = IF k <= (length + 1) \div 2 THEN Text(length) ELSE Const(0)

\* A client that multiplies a point by ten to its scale factor gets the quantity
\* in the unit of the register it came from, AC powers of a 10 W inverter excepted:
\* divisor, multiplier and factor are three constants in three files.  (Energies
\* are in EnergyInWattHours.)
ScalesAgree ==
  Updated =>
    \A p \in M!Points, f \in M!Points :
      p[1] \in DOMAIN M!ScaleFactorOf /\ f[1] = M!ScaleFactorOf[p[1]] =>
        LET word   == holding[p[2]]
            factor == holding[f[2]]
        IN  \A r \in word.of : UnitKnown(r) => word.exp + factor.value = M!UnitOf[r]

\* Where a client that follows the lengths arrives after the header at an address.
NextHeader(bank, at) ==
  IF at + 1 \in DOMAIN bank THEN at + 2 + bank[at + 1].value ELSE 298

\* A client that walks the map from "SunS" by the lengths it reads finds the three
\* models, each of its standard length, and then the end model.
\* (setup_sunspec_models writes the first two headers, every update the others.)
WalkFindsModels ==
  Updated =>
    LET inverter == NextHeader(holding, 2)
        storage  == NextHeader(holding, inverter)
        end      == NextHeader(holding, storage)
        at       == << 2, inverter, storage >>
    IN  /\ holding[0].value = 21365 /\ holding[1].value = 28243
        /\ \A n \in 1 .. 3 : /\ at[n] = M!Directory[n].at
                            /\ holding[at[n]] = Const(M!Directory[n].id)
                            /\ holding[at[n] + 1] = Const(M!Directory[n].length)
        /\ holding[end] = Const(65535) /\ holding[end + 1] = Const(0)

\* README.md, "AC energy: Load energy (converted from kWh to Wh)": the total
\* energy times ten to its scale factor is in watt-hours.
EnergyInWattHours ==
  Updated =>
    \A p \in M!Points, f \in M!Points :
      p[1] = "TotWhInj" /\ f[1] = "TotWh_SF" =>
        LET word   == holding[p[2]]
            factor == holding[f[2]]
        IN  \A r \in word.of \cap DOMAIN M!UnitOf :
              word.exp + factor.value = M!UnitOf[r] + 3
=============================================================================
