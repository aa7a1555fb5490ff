------------------------- MODULE RegisterMap_proofs -------------------------
(***************************************************************************)
(* Proofs about RegisterMap, for any number of poll cycles and of failed   *)
(* reads, alarm texts of any length and any memory behind the texts.       *)
(***************************************************************************)
EXTENDS RegisterMap, TLAPS

-----------------------------------------------------------------------------
(* The inverter's registers: what the blocks cover.                        *)

\* The registers by their names.
LEMMA Registers ==
  /\ R.COMM_VERSION = 2 /\ R.SN_BYTE_01 = 3 /\ R.SN_BYTE_02 = 4 /\ R.SN_BYTE_03 = 5
  /\ R.SN_BYTE_04 = 6 /\ R.SN_BYTE_05 = 7 /\ R.BATTERY_CHARGE_ENERGY = 70
  /\ R.BATTERY_DISCHARGE_ENERGY = 71 /\ R.GRID_BUY_ENERGY = 76 /\ R.GRID_SELL_ENERGY = 77
  /\ R.GRID_FREQUENCY = 79 /\ R.LOAD_ENERGY = 84 /\ R.PV_ENERGY = 108
  /\ R.GRID_VOLTAGE = 152 /\ R.INVERTER_VOLTAGE = 156 /\ R.GRID_CURRENT_L1 = 160
  /\ R.GRID_CURRENT_L2 = 161 /\ R.GRID_CT_CURRENT_L1 = 162 /\ R.GRID_CT_CURRENT_L2 = 163
  /\ R.INVERTER_CURRENT_L1 = 164 /\ R.INVERTER_CURRENT_L2 = 165 /\ R.SMART_LOAD_POWER = 166
  /\ R.GRID_POWER = 169 /\ R.INVERTER_STATUS = 59 /\ R.DCDC_XFRMR_TEMP = 90
  /\ R.IGBT_HEATSINK_TEMP = 91 /\ R.INVERTER_OUTPUT_POWER = 175 /\ R.LOAD_POWER_L1 = 176
  /\ R.LOAD_POWER_L2 = 177 /\ R.LOAD_POWER_TOTAL = 178 /\ R.LOAD_CURRENT_L1 = 179
  /\ R.LOAD_CURRENT_L2 = 180 /\ R.BATTERY_TEMPERATURE = 182 /\ R.BATTERY_VOLTAGE = 183
  /\ R.BATTERY_SOC = 184 /\ R.PV1_POWER = 186 /\ R.PV2_POWER = 187 /\ R.BATTERY_POWER = 190
  /\ R.BATTERY_CURRENT = 191 /\ R.LOAD_FREQUENCY = 192 /\ R.INVERTER_FREQUENCY = 193
  /\ R.GRID_RELAY_STATUS = 194 /\ R.GENERATOR_RELAY_STATUS = 195 /\ R.BATTERY_CAPACITY = 204
  /\ R.CORRECTED_BATTERY_CAPACITY = 107 /\ R.BATTERY_EMPTY_VOLTAGE = 205
  /\ R.BATTERY_SHUTDOWN_VOLTAGE = 220 /\ R.BATTERY_RESTART_VOLTAGE = 221
  /\ R.BATTERY_LOW_VOLTAGE = 222 /\ R.BATTERY_SHUTDOWN_PERCENT = 217
  /\ R.BATTERY_RESTART_PERCENT = 218 /\ R.BATTERY_LOW_PERCENT = 219
  /\ R.BMS_CHARGING_VOLTAGE = 312 /\ R.BMS_DISCHARGE_VOLTAGE = 313
  /\ R.BMS_CHARGING_CURRENT_LIMIT = 314 /\ R.BMS_DISCHARGE_CURRENT_LIMIT = 315
  /\ R.BMS_REAL_TIME_SOC = 316 /\ R.BMS_REAL_TIME_VOLTAGE = 317
  /\ R.BMS_REAL_TIME_CURRENT = 318 /\ R.BMS_REAL_TIME_TEMP = 319 /\ R.BMS_WARNING = 322
  /\ R.BMS_FAULT = 323 /\ R.GRID_TYPE = 286
BY DEF R, SolArkRegisterMap

\* The blocks: start and number of registers.
LEMMA Blocks ==
  /\ Len(solark_read_blocks) = 15
  /\ solark_read_blocks[1] = <<70, 15>> /\ solark_read_blocks[2] = <<108, 1>>
  /\ solark_read_blocks[3] = <<59, 1>> /\ solark_read_blocks[4] = <<90, 2>>
  /\ solark_read_blocks[5] = <<150, 20>> /\ solark_read_blocks[6] = <<170, 20>>
  /\ solark_read_blocks[7] = <<190, 10>> /\ solark_read_blocks[8] = <<204, 1>>
  /\ solark_read_blocks[9] = <<107, 1>> /\ solark_read_blocks[10] = <<205, 1>>
  /\ solark_read_blocks[11] = <<220, 3>> /\ solark_read_blocks[12] = <<217, 3>>
  /\ solark_read_blocks[13] = <<312, 12>> /\ solark_read_blocks[14] = <<286, 1>>
  /\ solark_read_blocks[15] = <<2, 6>>
BY Registers DEF solark_read_blocks

\* processBlock picks a word only where the reply of that block has written one.
LEMMA BlockCoversFields ==
  ASSUME NEW i \in 1 .. 15, NEW r \in SolArkBlockType[i]
  PROVE  r - Start(i) \in 0 .. 19 /\ r - Start(i) < solark_read_blocks[i][2]
         /\ Start(i) + (r - Start(i)) = r
<1>1. CASE i = 1
  BY <1>1, Registers, Blocks DEF SolArkBlockType, Start
<1>2. CASE i \in 2 .. 4
  BY <1>2, Registers, Blocks DEF SolArkBlockType, Start
<1>3. CASE i = 5
  BY <1>3, Registers, Blocks DEF SolArkBlockType, Start
<1>4. CASE i = 6
  BY <1>4, Registers, Blocks DEF SolArkBlockType, Start
<1>5. CASE i \in 7 .. 10
  BY <1>5, Registers, Blocks DEF SolArkBlockType, Start
<1>6. CASE i \in 11 .. 12
  BY <1>6, Registers, Blocks DEF SolArkBlockType, Start
<1>7. CASE i \in 13 .. 15
  BY <1>7, Registers, Blocks DEF SolArkBlockType, Start
<1> QED
  BY <1>1, <1>2, <1>3, <1>4, <1>5, <1>6, <1>7

\* The divisors agree with the units of the register table.
LEMMA DivisorsAreUnits ==
  ASSUME NEW r, UnitKnown(r)
  PROVE  - SolArkScalingFactors(r) = M!UnitOf[r]
BY Registers DEF UnitKnown, SolArkScalingFactors, M!UnitOf, M!Tenths, M!Hundredths, M!Ones, M!Powers, M!ByPowerRatio

-----------------------------------------------------------------------------
(* The words that the steps write.                                         *)

\* A number has as many words as it is given, each with its part.
LEMMA NumberIs ==
  ASSUME NEW s, NEW rs, NEW by, NEW n \in Nat
  PROVE  /\ Len(Number(s, rs, by, n)) = n
         /\ \A k \in 1 .. n :
              Number(s, rs, by, n)[k] =
                Content("number", { s[r].from : r \in rs }, by + s[CHOOSE r \in rs : TRUE].exp, k, 0)
BY DEF Number

\* A field takes one word.
LEMMA FieldIs ==
  ASSUME NEW s, NEW r, NEW by
  PROVE  /\ Len(Field(s, r, by)) = 1
         /\ Field(s, r, by)[1] = Content("number", { s[r].from }, by + s[r].exp, 1, 0)
<1> DEFINE rs == {r}
<1>1. (CHOOSE x \in rs : TRUE) = r /\ { s[x].from : x \in rs } = { s[r].from }
  OBVIOUS
<1>2. Field(s, r, by) = Number(s, rs, by, 1)
  BY DEF Field
<1> HIDE DEF rs
<1>3. /\ Len(Number(s, rs, by, 1)) = 1
      /\ Number(s, rs, by, 1)[1] =
           Content("number", { s[x].from : x \in rs }, by + s[CHOOSE x \in rs : TRUE].exp, 1, 0)
  BY DEF Number
<1> QED
  BY <1>1, <1>2, <1>3

\* Constants, one or two of them.
LEMMA ConstsAre ==
  ASSUME NEW a, NEW b
  PROVE  /\ Len(Consts(<< a >>)) = 1 /\ Consts(<< a >>)[1] = Const(a)
         /\ Len(Consts(<< a, b >>)) = 2
         /\ Consts(<< a, b >>)[1] = Const(a) /\ Consts(<< a, b >>)[2] = Const(b)
BY DEF Consts

\* Words that say "not implemented".
LEMMA UnimplementedIs ==
  ASSUME NEW n \in Nat
  PROVE  Len(Unimplemented(n)) = n /\ \A k \in 1 .. n : Unimplemented(n)[k] = Const(65535)
BY DEF Unimplemented, NOT_IMPLEMENTED

\* The scale factors of model 701.
LEMMA ScaleFactorsAre ==
  LET c == Consts(ScaleFactors)
  IN  /\ Len(c) = 10
      /\ c[1] = Const(-2) /\ c[2] = Const(-1) /\ c[3] = Const(-2) /\ c[4] = Const(0)
      /\ c[5] = Const(-2) /\ c[6] = Const(0) /\ c[7] = Const(0) /\ c[8] = Const(-3)
      /\ c[9] = Const(-3) /\ c[10] = Const(-1)
BY DEF Consts, ScaleFactors, SCALE_FACTOR

\* A text of a whole number of words, or one that nothing follows, is padded with
\* zeros to the size of its point.
LEMMA StringIs ==
  ASSUME NEW length \in Nat, NEW stray \in Nat
  PROVE  /\ Len(set_sunspec_string(length, 64, 0)) = 32
         /\ \A k \in 1 .. 32 :
              set_sunspec_string(length, 64, 0)[k] =
                IF k <= (length + 1) \div 2 THEN Text(length) ELSE Const(0)
         /\ Len(set_sunspec_string(length, 32, stray)) = 16
         /\ Len(set_sunspec_string(length, 16, stray)) = 8
<1>1. 64 \div 2 = 32 /\ 32 \div 2 = 16 /\ 16 \div 2 = 8
  OBVIOUS
<1>2. (length + 1) \div 2 \in Int
  OBVIOUS
<1>3. /\ Len(set_sunspec_string(length, 64, 0)) = 32
      /\ Len(set_sunspec_string(length, 32, stray)) = 16
      /\ Len(set_sunspec_string(length, 16, stray)) = 8
  BY <1>1 DEF set_sunspec_string
<1>4. ASSUME NEW k \in 1 .. 32
      PROVE  set_sunspec_string(length, 64, 0)[k] =
               IF k <= (length + 1) \div 2 THEN Text(length) ELSE Const(0)
  <2> DEFINE half == (length + 1) \div 2
             past == IF length % 2 = 1 THEN 0 ELSE 0
  <2>1. set_sunspec_string(length, 64, 0) =
          [i \in 1 .. 32 |-> IF i <= half THEN Text(length)
                             ELSE IF i <= half + past THEN Stray ELSE Const(0)]
    BY <1>1 DEF set_sunspec_string
  <2>2. half \in Int /\ past = 0
    BY <1>2
  <2> HIDE DEF half, past
  <2>3. ~(k <= half) => ~(k <= half + past)
    BY <2>2
  <2> QED
    BY <2>1, <2>3 DEF half
<1> QED
  BY <1>3, <1>4

-----------------------------------------------------------------------------
(* Writing runs of words that do not touch each other.                     *)

\* Each run has a place, and no two of them share one.
Apart(runs) ==
  /\ \A p \in runs : p[1] \in Nat /\ Len(p[2]) \in Nat
  /\ \A p, q \in runs : p # q => p[1] + Len(p[2]) <= q[1] \/ q[1] + Len(q[2]) <= p[1]

\* A run is found where it was written.
LEMMA RunLands ==
  ASSUME NEW bank, NEW runs, Apart(runs), NEW p \in runs, NEW k \in 1 .. Len(p[2]),
         p[1] + k - 1 \in DOMAIN bank
  PROVE  Write(bank, runs)[p[1] + k - 1] = p[2][k]
<1> DEFINE a == p[1] + k - 1
           hits == { q \in runs : a >= q[1] /\ a < q[1] + Len(q[2]) }
<1>1. p[1] \in Nat /\ Len(p[2]) \in Nat /\ k \in Nat
  BY DEF Apart
<1>2. a \in Nat /\ a >= p[1] /\ a < p[1] + Len(p[2]) /\ a - p[1] + 1 = k
  BY <1>1
<1> HIDE DEF a
<1>3. ASSUME NEW q \in hits PROVE q = p
  <2>1. q \in runs /\ a >= q[1] /\ a < q[1] + Len(q[2]) /\ q[1] \in Nat /\ Len(q[2]) \in Nat
    BY DEF Apart
  <2>2. ~(p[1] + Len(p[2]) <= q[1]) /\ ~(q[1] + Len(q[2]) <= p[1])
    BY <1>1, <1>2, <2>1
  <2> QED
    BY <2>1, <2>2 DEF Apart
<1>4. hits = {p}
  BY <1>2, <1>3
<1>5. (CHOOSE q \in hits : TRUE) = p
  BY <1>4
<1>6. Write(bank, runs)[a] = IF hits = {} THEN bank[a] ELSE (CHOOSE q \in hits : TRUE)[2][a - (CHOOSE q \in hits : TRUE)[1] + 1]
  BY DEF Write, a
<1> QED
  BY <1>2, <1>4, <1>5, <1>6 DEF a

\* What no run touches stays.
LEMMA RestStays ==
  ASSUME NEW bank, NEW runs, NEW a \in DOMAIN bank,
         \A q \in runs : ~(a >= q[1] /\ a < q[1] + Len(q[2]))
  PROVE  Write(bank, runs)[a] = bank[a]
<1>1. { q \in runs : a >= q[1] /\ a < q[1] + Len(q[2]) } = {}
  OBVIOUS
<1> QED
  BY <1>1 DEF Write

-----------------------------------------------------------------------------
(* The runs of setup and of an update, by their addresses.                 *)

\* Where the models begin, and the offsets in them.
LEMMA Offsets ==
  /\ common_offset = 2 /\ inverter_offset = 70 /\ storage_offset = 225 /\ end_offset = 234
  /\ COMMON.MODEL_ID = 0 /\ COMMON.MANUFACTURER = 2 /\ COMMON.MODEL = 18 /\ COMMON.OPTIONS = 34
  /\ COMMON.VERSION = 42 /\ COMMON.SERIAL = 50 /\ COMMON.DEVICE_ADDR = 66
  /\ INV.MODEL_ID = 0 /\ INV.AC_TYPE = 2 /\ INV.OPERATING_STATE = 3 /\ INV.STATUS = 4
  /\ INV.GRID_CONNECTION = 5 /\ INV.ALARM = 6 /\ INV.DER_MODE = 8 /\ INV.AC_POWER = 10
  /\ INV.AC_VA = 11 /\ INV.AC_VAR = 12 /\ INV.AC_PF = 13 /\ INV.AC_CURRENT = 14
  /\ INV.AC_VOLTAGE_LL = 15 /\ INV.AC_VOLTAGE_LN = 16 /\ INV.AC_FREQUENCY = 17
  /\ INV.ENERGY_INJECTED = 19 /\ INV.TEMP_CABINET = 36 /\ INV.TEMP_TRANSFORMER = 38
  /\ INV.TEMP_IGBT = 39 /\ INV.AC_POWER_L1 = 41 /\ INV.AC_CURRENT_L1 = 45
  /\ INV.AC_VOLTAGE_L1L2 = 46 /\ INV.AC_POWER_L2 = 64 /\ INV.AC_CURRENT_L2 = 68
  /\ INV.FACTOR_CURRENT = 113 /\ INV.ALARM_INFO = 123
  /\ STORAGE.MODEL_ID = 0 /\ STORAGE.ENERGY_RATING = 2 /\ STORAGE.ENERGY_AVAILABLE = 3
  /\ STORAGE.SOC = 4 /\ STORAGE.SOH = 5 /\ STORAGE.STATUS = 6 /\ STORAGE.FACTOR_ENERGY = 7
BY DEF common_offset, inverter_offset, storage_offset, end_offset, COMMON, INV, STORAGE

\* The runs of setup.
LEMMA SetupRunsAre ==
  ASSUME NEW stray
  PROVE  SetupRuns(stray) =
           { << 0, Consts(<< 21365, 28243 >>) >>, << 2, Consts(<< 1, 66 >>) >>,
             << 4, set_sunspec_string(7, 32, stray[1]) >>,
             << 20, set_sunspec_string(13, 32, stray[2]) >>,
             << 36, set_sunspec_string(4, 16, 0) >>, << 44, set_sunspec_string(1, 16, stray[3]) >>,
             << 52, set_sunspec_string(0, 32, 0) >>, << 68, Consts(<< 1 >>) >>,
             << 70, Consts(<< 701, 153 >>) >>, << 72, Unimplemented(111) >>,
             << 183, Consts(ScaleFactors) >>, << 193, Unimplemented(30) >> }
BY Offsets DEF SetupRuns, At, CommonModel, InverterModel

\* The runs of an update.
LEMMA UpdateRunsAre ==
  ASSUME NEW s, NEW length
  PROVE  UpdateRuns(s, length) =
           { << 72, Field(s, 286, 0) >>, << 73, Field(s, 59, 0) >>,
             << 74, Number(s, {59, 175}, 0, 1) >>, << 75, Field(s, 194, 0) >>,
             << 76, Consts(<< 0, 0 >>) >>, << 78, Number(s, {194}, 0, 2) >>,
             << 80, Field(s, 175, 0) >>, << 81, Field(s, 175, 0) >>,
             << 82, Consts(<< 0 >>) >>, << 83, Consts(<< 100 >>) >>,
             << 84, Number(s, {164, 165}, 2, 1) >>, << 85, Field(s, 156, 1) >>,
             << 86, Field(s, 156, 1) >>, << 87, Number(s, {193}, 2, 2) >>,
             << 89, Number(s, {84}, 3, 4) >>, << 106, Field(s, 182, 1) >>,
             << 108, Field(s, 90, 1) >>, << 109, Field(s, 91, 1) >>,
             << 193, set_sunspec_string(length, 64, 0) >>,
             << 111, Field(s, 176, 0) >>, << 115, Field(s, 164, 2) >>, << 116, Field(s, 156, 1) >>,
             << 134, Field(s, 177, 0) >>, << 138, Field(s, 165, 2) >>,
             << 225, Consts(StorageHeader) >>, << 227, Field(s, 204, 0) >>,
             << 228, Number(s, {204, 184, 316}, 0, 1) >>, << 229, Number(s, {184, 316}, 1, 1) >>,
             << 230, Unimplemented(1) >>, << 231, Number(s, {322, 323}, 0, 1) >>,
             << 232, Consts(<< SCALE_FACTOR.thousandth, SCALE_FACTOR.tenth >>) >>,
             << 234, Consts(<< 65535, 0 >>) >> }
BY Offsets, Registers, SMTT(30) DEF UpdateRuns, At, InverterPoints, PhasePoints, StoragePoints

\* How many words setup and an update write from an address on.
SetupSize(n) ==
  CASE n \in {0, 2, 70} -> 2 [] n \in {4, 20, 52} -> 16 [] n \in {36, 44} -> 8 [] n = 68 -> 1
    [] n = 72 -> 111 [] n = 183 -> 10 [] OTHER -> 30

SetupStarts == {0, 2, 4, 20, 36, 44, 52, 68, 70, 72, 183, 193}

Size(n) == CASE n \in {76, 78, 87, 225, 232, 234} -> 2 [] n = 89 -> 4 [] n = 193 -> 32 [] OTHER -> 1

Starts ==
  {72, 73, 74, 75, 76, 78, 80, 81, 82, 83, 84, 85, 86, 87, 89, 106, 108, 109, 111, 115, 116, 134,
   138, 193, 225, 227, 228, 229, 230, 231, 232, 234}

\* A run that begins where it should and is as long as it should be.
SetupFits(p) == p[1] \in SetupStarts /\ Len(p[2]) = SetupSize(p[1])
Fits(p)      == p[1] \in Starts /\ Len(p[2]) = Size(p[1])

\* The sizes of the runs of setup.
LEMMA SetupSizes ==
  ASSUME NEW stray \in [1 .. 3 -> Nat], NEW p \in SetupRuns(stray)
  PROVE  SetupFits(p)
<1>1. /\ SetupSize(0) = 2 /\ SetupSize(2) = 2 /\ SetupSize(70) = 2 /\ SetupSize(68) = 1
      /\ SetupSize(4) = 16 /\ SetupSize(20) = 16 /\ SetupSize(52) = 16 /\ SetupSize(36) = 8
      /\ SetupSize(44) = 8 /\ SetupSize(72) = 111 /\ SetupSize(183) = 10 /\ SetupSize(193) = 30
  BY DEF SetupSize
<1>2. {0, 2, 4, 20, 36, 44, 52, 68, 70, 72, 183, 193} \subseteq SetupStarts
  BY DEF SetupStarts
<1>3. /\ SetupFits(<< 0, Consts(<< 21365, 28243 >>) >>) /\ SetupFits(<< 2, Consts(<< 1, 66 >>) >>)
      /\ SetupFits(<< 68, Consts(<< 1 >>) >>) /\ SetupFits(<< 70, Consts(<< 701, 153 >>) >>)
  <2> DEFINE sunS   == Consts(<< 21365, 28243 >>)
             first  == Consts(<< 1, 66 >>)
             device == Consts(<< 1 >>)
             second == Consts(<< 701, 153 >>)
  <2>1. Len(sunS) = 2 /\ Len(first) = 2 /\ Len(device) = 1 /\ Len(second) = 2
    BY DEF Consts
  <2> HIDE DEF sunS, first, device, second
  <2>2. /\ SetupFits(<< 0, sunS >>) /\ SetupFits(<< 2, first >>)
        /\ SetupFits(<< 68, device >>) /\ SetupFits(<< 70, second >>)
    BY <1>1, <1>2, <2>1 DEF SetupFits
  <2> QED
    BY <2>2 DEF sunS, first, device, second
<1>4. SetupFits(<< 183, Consts(ScaleFactors) >>)
  BY <1>1, <1>2, ScaleFactorsAre DEF SetupFits
<1>5. SetupFits(<< 72, Unimplemented(111) >>) /\ SetupFits(<< 193, Unimplemented(30) >>)
  <2> DEFINE points == Unimplemented(111)
             alarm  == Unimplemented(30)
  <2>1. Len(points) = 111 /\ Len(alarm) = 30
    BY DEF Unimplemented
  <2> HIDE DEF points, alarm
  <2>2. SetupFits(<< 72, points >>) /\ SetupFits(<< 193, alarm >>)
    BY <1>1, <1>2, <2>1 DEF SetupFits
  <2> QED
    BY <2>2 DEF points, alarm
<1>6. /\ SetupFits(<< 4, set_sunspec_string(7, 32, stray[1]) >>)
      /\ SetupFits(<< 20, set_sunspec_string(13, 32, stray[2]) >>)
      /\ SetupFits(<< 36, set_sunspec_string(4, 16, 0) >>)
      /\ SetupFits(<< 44, set_sunspec_string(1, 16, stray[3]) >>)
      /\ SetupFits(<< 52, set_sunspec_string(0, 32, 0) >>)
  <2> DEFINE maker   == set_sunspec_string(7, 32, stray[1])
             model   == set_sunspec_string(13, 32, stray[2])
             options == set_sunspec_string(4, 16, 0)
             version == set_sunspec_string(1, 16, stray[3])
             serial  == set_sunspec_string(0, 32, 0)
  <2>1. /\ Len(maker) = 16 /\ Len(model) = 16 /\ Len(options) = 8
        /\ Len(version) = 8 /\ Len(serial) = 16
    BY DEF set_sunspec_string
  <2> HIDE DEF maker, model, options, version, serial
  <2>2. /\ SetupFits(<< 4, maker >>) /\ SetupFits(<< 20, model >>) /\ SetupFits(<< 36, options >>)
        /\ SetupFits(<< 44, version >>) /\ SetupFits(<< 52, serial >>)
    BY <1>1, <1>2, <2>1 DEF SetupFits
  <2> QED
    BY <2>2 DEF maker, model, options, version, serial
<1> QED
  BY <1>3, <1>4, <1>5, <1>6, SetupRunsAre

\* The sizes of the runs of an update.
LEMMA UpdateSizes ==
  ASSUME NEW s, NEW length \in Nat, NEW p \in UpdateRuns(s, length)
  PROVE  Fits(p)
<1>1. /\ Fits(<< 72, Field(s, 286, 0) >>) /\ Fits(<< 73, Field(s, 59, 0) >>)
      /\ Fits(<< 75, Field(s, 194, 0) >>) /\ Fits(<< 80, Field(s, 175, 0) >>)
  <2> DEFINE type  == Field(s, 286, 0)
             state == Field(s, 59, 0)
             relay == Field(s, 194, 0)
             power == Field(s, 175, 0)
  <2>1. Len(type) = 1 /\ Len(state) = 1 /\ Len(relay) = 1 /\ Len(power) = 1
    BY DEF Field, Number
  <2>2. Size(72) = 1 /\ Size(73) = 1 /\ Size(75) = 1 /\ Size(80) = 1
    BY DEF Size
  <2>3. {72, 73, 75, 80} \subseteq Starts
    BY DEF Starts
  <2> HIDE DEF type, state, relay, power
  <2>4. /\ Fits(<< 72, type >>) /\ Fits(<< 73, state >>)
        /\ Fits(<< 75, relay >>) /\ Fits(<< 80, power >>)
    BY <2>1, <2>2, <2>3 DEF Fits
  <2> QED
    BY <2>4 DEF type, state, relay, power
<1>2. /\ Fits(<< 81, Field(s, 175, 0) >>)
      /\ Fits(<< 85, Field(s, 156, 1) >>)
      /\ Fits(<< 86, Field(s, 156, 1) >>)
      /\ Fits(<< 106, Field(s, 182, 1) >>)
  <2> DEFINE va      == Field(s, 175, 0)
             between == Field(s, 156, 1)
             neutral == Field(s, 156, 1)
             cabinet == Field(s, 182, 1)
  <2>1. Len(va) = 1 /\ Len(between) = 1 /\ Len(neutral) = 1 /\ Len(cabinet) = 1
    BY DEF Field, Number
  <2>2. /\ Size(81) = 1 /\ Size(85) = 1 /\ Size(86) = 1 /\ Size(106) = 1
    BY DEF Size
  <2>3. {81, 85, 86, 106} \subseteq Starts
    BY DEF Starts
  <2> HIDE DEF va, between, neutral, cabinet
  <2>4. /\ Fits(<< 81, va >>) /\ Fits(<< 85, between >>)
        /\ Fits(<< 86, neutral >>) /\ Fits(<< 106, cabinet >>)
    BY <2>1, <2>2, <2>3 DEF Fits
  <2> QED
    BY <2>4 DEF va, between, neutral, cabinet
<1>3. /\ Fits(<< 108, Field(s, 90, 1) >>)
      /\ Fits(<< 109, Field(s, 91, 1) >>)
      /\ Fits(<< 111, Field(s, 176, 0) >>)
      /\ Fits(<< 115, Field(s, 164, 2) >>)
  <2> DEFINE transformer == Field(s, 90, 1)
             switch      == Field(s, 91, 1)
             first       == Field(s, 176, 0)
             firstAmps   == Field(s, 164, 2)
  <2>1. Len(transformer) = 1 /\ Len(switch) = 1 /\ Len(first) = 1 /\ Len(firstAmps) = 1
    BY DEF Field, Number
  <2>2. /\ Size(108) = 1 /\ Size(109) = 1 /\ Size(111) = 1 /\ Size(115) = 1
    BY DEF Size
  <2>3. {108, 109, 111, 115} \subseteq Starts
    BY DEF Starts
  <2> HIDE DEF transformer, switch, first, firstAmps
  <2>4. /\ Fits(<< 108, transformer >>) /\ Fits(<< 109, switch >>)
        /\ Fits(<< 111, first >>) /\ Fits(<< 115, firstAmps >>)
    BY <2>1, <2>2, <2>3 DEF Fits
  <2> QED
    BY <2>4 DEF transformer, switch, first, firstAmps
<1>4. /\ Fits(<< 116, Field(s, 156, 1) >>)
      /\ Fits(<< 134, Field(s, 177, 0) >>)
      /\ Fits(<< 138, Field(s, 165, 2) >>)
      /\ Fits(<< 227, Field(s, 204, 0) >>)
  <2> DEFINE phases     == Field(s, 156, 1)
             second     == Field(s, 177, 0)
             secondAmps == Field(s, 165, 2)
             rating     == Field(s, 204, 0)
  <2>1. Len(phases) = 1 /\ Len(second) = 1 /\ Len(secondAmps) = 1 /\ Len(rating) = 1
    BY DEF Field, Number
  <2>2. /\ Size(116) = 1 /\ Size(134) = 1 /\ Size(138) = 1 /\ Size(227) = 1
    BY DEF Size
  <2>3. {116, 134, 138, 227} \subseteq Starts
    BY DEF Starts
  <2> HIDE DEF phases, second, secondAmps, rating
  <2>4. /\ Fits(<< 116, phases >>) /\ Fits(<< 134, second >>)
        /\ Fits(<< 138, secondAmps >>) /\ Fits(<< 227, rating >>)
    BY <2>1, <2>2, <2>3 DEF Fits
  <2> QED
    BY <2>4 DEF phases, second, secondAmps, rating
<1>5. /\ Fits(<< 74, Number(s, {59, 175}, 0, 1) >>)
      /\ Fits(<< 84, Number(s, {164, 165}, 2, 1) >>)
      /\ Fits(<< 228, Number(s, {204, 184, 316}, 0, 1) >>)
  <2> DEFINE status    == Number(s, {59, 175}, 0, 1)
             amps      == Number(s, {164, 165}, 2, 1)
             available == Number(s, {204, 184, 316}, 0, 1)
  <2>1. Len(status) = 1 /\ Len(amps) = 1 /\ Len(available) = 1
    BY DEF Number
  <2>2. /\ Size(74) = 1 /\ Size(84) = 1 /\ Size(228) = 1
    BY DEF Size
  <2>3. {74, 84, 228} \subseteq Starts
    BY DEF Starts
  <2> HIDE DEF status, amps, available
  <2>4. /\ Fits(<< 74, status >>) /\ Fits(<< 84, amps >>)
        /\ Fits(<< 228, available >>)
    BY <2>1, <2>2, <2>3 DEF Fits
  <2> QED
    BY <2>4 DEF status, amps, available
<1>6. /\ Fits(<< 229, Number(s, {184, 316}, 1, 1) >>)
      /\ Fits(<< 231, Number(s, {322, 323}, 0, 1) >>)
  <2> DEFINE charge   == Number(s, {184, 316}, 1, 1)
             warnings == Number(s, {322, 323}, 0, 1)
  <2>1. Len(charge) = 1 /\ Len(warnings) = 1
    BY DEF Number
  <2>2. /\ Size(229) = 1 /\ Size(231) = 1
    BY DEF Size
  <2>3. {229, 231} \subseteq Starts
    BY DEF Starts
  <2> HIDE DEF charge, warnings
  <2>4. Fits(<< 229, charge >>) /\ Fits(<< 231, warnings >>)
    BY <2>1, <2>2, <2>3 DEF Fits
  <2> QED
    BY <2>4 DEF charge, warnings
<1>7. /\ Fits(<< 78, Number(s, {194}, 0, 2) >>)
      /\ Fits(<< 87, Number(s, {193}, 2, 2) >>)
  <2> DEFINE mode  == Number(s, {194}, 0, 2)
             hertz == Number(s, {193}, 2, 2)
  <2>1. Len(mode) = 2 /\ Len(hertz) = 2
    BY DEF Number
  <2>2. /\ Size(78) = 2 /\ Size(87) = 2
    BY DEF Size
  <2>3. {78, 87} \subseteq Starts
    BY DEF Starts
  <2> HIDE DEF mode, hertz
  <2>4. Fits(<< 78, mode >>) /\ Fits(<< 87, hertz >>)
    BY <2>1, <2>2, <2>3 DEF Fits
  <2> QED
    BY <2>4 DEF mode, hertz
<1>8. /\ Fits(<< 89, Number(s, {84}, 3, 4) >>)
  <2> DEFINE energy == Number(s, {84}, 3, 4)
  <2>1. Len(energy) = 4
    BY DEF Number
  <2>2. /\ Size(89) = 4
    BY DEF Size
  <2>3. {89} \subseteq Starts
    BY DEF Starts
  <2> HIDE DEF energy
  <2>4. Fits(<< 89, energy >>)
    BY <2>1, <2>2, <2>3 DEF Fits
  <2> QED
    BY <2>4 DEF energy
<1>9. /\ Fits(<< 76, Consts(<< 0, 0 >>) >>)
      /\ Fits(<< 82, Consts(<< 0 >>) >>)
      /\ Fits(<< 83, Consts(<< 100 >>) >>)
  <2>1. /\ Len(Consts(<< 0, 0 >>)) = 2
        /\ Len(Consts(<< 0 >>)) = 1
        /\ Len(Consts(<< 100 >>)) = 1
    BY DEF Consts, StorageHeader
  <2>2. /\ Size(76) = 2 /\ Size(82) = 1 /\ Size(83) = 1
    BY DEF Size
  <2>3. {76, 82, 83} \subseteq Starts
    BY DEF Starts
  <2> QED
    BY <2>1, <2>2, <2>3 DEF Fits
<1>10. /\ Fits(<< 225, Consts(StorageHeader) >>)
      /\ Fits(<< 232, Consts(<< SCALE_FACTOR.thousandth, SCALE_FACTOR.tenth >>) >>)
      /\ Fits(<< 234, Consts(<< 65535, 0 >>) >>)
  <2> DEFINE third   == Consts(StorageHeader)
             factors == Consts(<< SCALE_FACTOR.thousandth, SCALE_FACTOR.tenth >>)
             last    == Consts(<< 65535, 0 >>)
  <2>1. Len(third) = 2 /\ Len(factors) = 2 /\ Len(last) = 2
    BY DEF Consts, StorageHeader
  <2>2. Size(225) = 2 /\ Size(232) = 2 /\ Size(234) = 2
    BY DEF Size
  <2>3. {225, 232, 234} \subseteq Starts
    BY DEF Starts
  <2> HIDE DEF third, factors, last
  <2>4. Fits(<< 225, third >>) /\ Fits(<< 232, factors >>) /\ Fits(<< 234, last >>)
    BY <2>1, <2>2, <2>3 DEF Fits
  <2> QED
    BY <2>4 DEF third, factors, last
<1>11. Fits(<< 193, set_sunspec_string(length, 64, 0) >>) /\ Fits(<< 230, Unimplemented(1) >>)
  <2> DEFINE alarm  == set_sunspec_string(length, 64, 0)
             health == Unimplemented(1)
  <2>1. Len(alarm) = 32 /\ Len(health) = 1
    BY DEF Unimplemented, set_sunspec_string
  <2>2. Size(193) = 32 /\ Size(230) = 1
    BY DEF Size
  <2>3. {193, 230} \subseteq Starts
    BY DEF Starts
  <2> HIDE DEF alarm, health
  <2>4. Fits(<< 193, alarm >>) /\ Fits(<< 230, health >>)
    BY <2>1, <2>2, <2>3 DEF Fits
  <2> QED
    BY <2>4 DEF alarm, health
<1> QED
  BY <1>1, <1>2, <1>3, <1>4, <1>5, <1>6, <1>7,
     <1>8, <1>9, <1>10, <1>11, UpdateRunsAre, SMTT(60)

\* Two runs of setup that begin at one address are the same.
LEMMA SetupUnique ==
  ASSUME NEW stray, NEW p \in SetupRuns(stray), NEW q \in SetupRuns(stray), p[1] = q[1]
  PROVE  p = q
BY SetupRunsAre

\* Two runs of an update that begin at one address are the same.
LEMMA UpdateUnique ==
  ASSUME NEW s, NEW length, NEW p \in UpdateRuns(s, length), NEW q \in UpdateRuns(s, length),
         p[1] = q[1]
  PROVE  p = q
BY UpdateRunsAre

\* The runs of an update do not touch each other.
LEMMA UpdateApart ==
  ASSUME NEW s, NEW length \in Nat
  PROVE  Apart(UpdateRuns(s, length))
<1>1. \A n \in Starts : n \in Nat /\ Size(n) \in Nat
  BY DEF Starts, Size
<1>2. \A n, m \in Starts : n < m => n + Size(n) <= m
  BY DEF Starts, Size
<1>3. \A p \in UpdateRuns(s, length) : p[1] \in Starts /\ Len(p[2]) = Size(p[1])
  BY UpdateSizes DEF Fits
<1>4. \A p \in UpdateRuns(s, length) : p[1] \in Nat /\ Len(p[2]) \in Nat
  BY <1>1, <1>3
<1>5. ASSUME NEW p \in UpdateRuns(s, length), NEW q \in UpdateRuns(s, length), p # q
      PROVE  p[1] + Len(p[2]) <= q[1] \/ q[1] + Len(q[2]) <= p[1]
  <2>1. p[1] # q[1]
    BY <1>5, UpdateUnique
  <2>2. p[1] < q[1] \/ q[1] < p[1]
    BY <1>4, <2>1
  <2> QED
    BY <1>2, <1>3, <2>2
<1> QED
  BY <1>4, <1>5 DEF Apart

\* The runs of setup do not touch each other.
LEMMA SetupApart ==
  ASSUME NEW stray \in [1 .. 3 -> Nat]
  PROVE  Apart(SetupRuns(stray))
<1>1. \A n \in SetupStarts : n \in Nat /\ SetupSize(n) \in Nat
  BY DEF SetupStarts, SetupSize
<1>2. \A n, m \in SetupStarts : n < m => n + SetupSize(n) <= m
  BY DEF SetupStarts, SetupSize
<1>3. \A p \in SetupRuns(stray) : p[1] \in SetupStarts /\ Len(p[2]) = SetupSize(p[1])
  BY SetupSizes DEF SetupFits
<1>4. \A p \in SetupRuns(stray) : p[1] \in Nat /\ Len(p[2]) \in Nat
  BY <1>1, <1>3
<1>5. ASSUME NEW p \in SetupRuns(stray), NEW q \in SetupRuns(stray), p # q
      PROVE  p[1] + Len(p[2]) <= q[1] \/ q[1] + Len(q[2]) <= p[1]
  <2>1. p[1] # q[1]
    BY <1>5, SetupUnique
  <2>2. p[1] < q[1] \/ q[1] < p[1]
    BY <1>4, <2>1
  <2> QED
    BY <1>2, <1>3, <2>2
<1> QED
  BY <1>4, <1>5 DEF Apart

-----------------------------------------------------------------------------
(* The decoded fields.                                                     *)

Decoded(r) == [from |-> r, exp |-> - SolArkScalingFactors(r)]

\* Every field is the constructor's zero or its own register with its own divisor;
\* the two currents that are averaged are decoded together, by one block.
FieldInv ==
  /\ DOMAIN response = 0 .. 19
  /\ index \in 1 .. 15
  /\ \A r \in Fields : solark[r] = Zero \/ solark[r] = Decoded(r)
  /\ solark[164] = Zero <=> solark[165] = Zero

\* The registers are no addresses that stand for nothing.
LEMMA FieldsAre ==
  /\ 164 \in Fields /\ 165 \in Fields
  /\ \A r \in Fields : r \in Nat /\ r # NoWord
<1>1. 164 \in Fields /\ 165 \in Fields
  BY Registers DEF Fields, SolArkRegisterMap, R
<1>2. \A r \in Fields : r \in Nat /\ r # NoWord
  BY Registers DEF Fields, SolArkRegisterMap, R, NoWord
<1> QED
  BY <1>1, <1>2

\* The two currents are in the case of one block.
LEMMA CurrentsTogether ==
  ASSUME NEW i \in 1 .. 15
  PROVE  164 \in SolArkBlockType[i] <=> 165 \in SolArkBlockType[i]
<1>1. CASE i \in 1 .. 4
  BY <1>1, Registers DEF SolArkBlockType
<1>2. CASE i = 5
  BY <1>2, Registers DEF SolArkBlockType
<1>3. CASE i \in 6 .. 10
  BY <1>3, Registers DEF SolArkBlockType
<1>4. CASE i \in 11 .. 15
  BY <1>4, Registers DEF SolArkBlockType
<1> QED
  BY <1>1, <1>2, <1>3, <1>4

LEMMA ZeroIsNotDecoded ==
  ASSUME NEW r \in Fields
  PROVE  Decoded(r) # Zero
BY FieldsAre DEF Decoded, Zero

\* The fields stay right, whatever reads fail.
LEMMA FieldInvStep ==
  ASSUME FieldInv, [Next]_vars
  PROVE  FieldInv'
<1>1. CASE BlockRead
  <2>1. /\ index \in 1 .. 15 /\ DOMAIN response = 0 .. 19
        /\ response' = readHoldingRegisters(index) /\ solark' = processBlock(index, response')
    BY <1>1 DEF BlockRead, FieldInv
  <2>2. DOMAIN response' = 0 .. 19
    BY <2>1 DEF readHoldingRegisters
  <2>3. index' \in 1 .. 15
    BY <1>1, <2>1, Blocks DEF BlockRead, NextBlock
  <2>4. ASSUME NEW r \in Fields
        PROVE  solark'[r] = IF r \in SolArkBlockType[index] THEN Decoded(r) ELSE solark[r]
    <3>1. CASE r \in SolArkBlockType[index]
      <4>1. /\ r - Start(index) \in 0 .. 19 /\ r - Start(index) < solark_read_blocks[index][2]
            /\ Start(index) + (r - Start(index)) = r
        BY <2>1, <3>1, BlockCoversFields
      <4>2. response'[r - Start(index)] = r
        BY <2>1, <4>1 DEF readHoldingRegisters
      <4>3. solark'[r] = [from |-> response'[r - Start(index)], exp |-> - SolArkScalingFactors(r)]
        BY <2>1, <3>1 DEF processBlock
      <4> QED
        BY <3>1, <4>2, <4>3 DEF Decoded
    <3>2. CASE r \notin SolArkBlockType[index]
      BY <2>1, <3>2 DEF processBlock
    <3> QED
      BY <3>1, <3>2
  <2>5. \A r \in Fields : solark'[r] = Zero \/ solark'[r] = Decoded(r)
    BY <2>4 DEF FieldInv
  <2>6. solark'[164] = Zero <=> solark'[165] = Zero
    BY <2>1, <2>4, FieldsAre, CurrentsTogether, ZeroIsNotDecoded DEF FieldInv
  <2> QED
    BY <2>2, <2>3, <2>5, <2>6 DEF FieldInv
<1>2. CASE BlockFails
  <2>1. index' \in 1 .. 15
    BY <1>2, Blocks DEF BlockFails, NextBlock, FieldInv
  <2> QED
    BY <1>2, <2>1 DEF BlockFails, FieldInv
<1>3. CASE StartPoll
  BY <1>3 DEF StartPoll, FieldInv
<1>4. CASE setup_sunspec_models
  BY <1>4 DEF setup_sunspec_models, FieldInv
<1>5. CASE update_sunspec_from_solark
  BY <1>5 DEF update_sunspec_from_solark, FieldInv
<1>6. CASE UNCHANGED vars
  BY <1>6 DEF vars, FieldInv
<1> QED
  BY <1>1, <1>2, <1>3, <1>4, <1>5, <1>6 DEF Next

LEMMA FieldInvInit == Init => FieldInv
BY FieldsAre DEF Init, FieldInv

\* The inductive invariant is an invariant.
LEMMA FieldInvHolds == Spec => []FieldInv
BY FieldInvInit, FieldInvStep, PTL DEF Spec

\* Every field holds the register that it is named after or nothing, and in the
\* unit of the register table, whichever reads of whichever cycles failed and
\* whatever they left in the response buffer (processBlock).
THEOREM FieldsAreTheirOwn == Spec => []FieldsDecoded
<1>1. FieldInv => FieldsDecoded
  <2> SUFFICES ASSUME FieldInv, NEW r \in Fields
               PROVE  /\ solark[r].from \in {NoWord, r}
                      /\ solark[r].from = r /\ UnitKnown(r) => solark[r].exp = M!UnitOf[r]
    BY DEF FieldsDecoded
  <2>1. CASE solark[r] = Zero
    BY <2>1, FieldsAre DEF Zero
  <2>2. CASE solark[r] = Decoded(r)
    BY <2>2, DivisorsAreUnits DEF Decoded
  <2> QED
    BY <2>1, <2>2 DEF FieldInv
<1> QED
  BY <1>1, FieldInvHolds, PTL

-----------------------------------------------------------------------------
(* The holding registers.                                                  *)

\* The runs are in the bank.
Lands(bank, runs) == \A p \in runs : \A k \in 1 .. Len(p[2]) : bank[p[1] + k - 1] = p[2][k]

LEMMA RunsLand ==
  ASSUME NEW bank, NEW runs, Apart(runs), DOMAIN bank = 0 .. 299,
         \A p \in runs : p[1] + Len(p[2]) <= 300
  PROVE  Lands(Write(bank, runs), runs) /\ DOMAIN Write(bank, runs) = 0 .. 299
<1>1. ASSUME NEW p \in runs, NEW k \in 1 .. Len(p[2])
      PROVE  Write(bank, runs)[p[1] + k - 1] = p[2][k]
  <2>1. p[1] \in Nat /\ Len(p[2]) \in Nat /\ p[1] + Len(p[2]) <= 300 /\ k \in 1 .. Len(p[2])
    BY DEF Apart
  <2> DEFINE start == p[1]
             n     == Len(p[2])
  <2>2. start \in Nat /\ n \in Nat /\ start + n <= 300 /\ k \in 1 .. n
    BY <2>1
  <2> HIDE DEF start, n
  <2>3. start + k - 1 \in 0 .. 299
    BY <2>2
  <2>4. p[1] + k - 1 \in DOMAIN bank
    BY <2>3 DEF start
  <2> QED
    BY <2>4, RunLands
<1>2. DOMAIN Write(bank, runs) = 0 .. 299
  BY DEF Write
<1> QED
  BY <1>1, <1>2 DEF Lands

\* The registers that say "not implemented", and all that no update touches.
NotImplemented ==
  93 .. 105 \cup {107, 110} \cup 112 .. 114 \cup 117 .. 133 \cup 135 .. 137 \cup 139 .. 182

Kept == {0, 1, 2, 3, 70, 71} \cup NotImplemented \cup 183 .. 192

\* What setup leaves in them.
Prepared(bank) ==
  /\ bank[0] = Const(21365) /\ bank[1] = Const(28243)
  /\ bank[2] = Const(1) /\ bank[3] = Const(66) /\ bank[70] = Const(701) /\ bank[71] = Const(153)
  /\ \A a \in NotImplemented : bank[a] = Const(65535)
  /\ \A k \in 1 .. 10 : bank[182 + k] = Const(ScaleFactors[k])

LEMMA UpdateKeeps ==
  ASSUME NEW bank, DOMAIN bank = 0 .. 299, NEW s, NEW length \in Nat, Prepared(bank)
  PROVE  Prepared(Write(bank, UpdateRuns(s, length)))
<1> DEFINE after == Write(bank, UpdateRuns(s, length))
<1>1. \A a \in Kept : \A n \in Starts : a < n \/ a >= n + Size(n)
  BY DEF Kept, NotImplemented, Starts, Size
<1>2. ASSUME NEW a \in Kept
      PROVE  after[a] = bank[a]
  <2>1. a \in 0 .. 299
    BY DEF Kept, NotImplemented
  <2>2. ASSUME NEW q \in UpdateRuns(s, length)
        PROVE  ~(a >= q[1] /\ a < q[1] + Len(q[2]))
    <3>1. q[1] \in Starts /\ Len(q[2]) = Size(q[1])
      BY UpdateSizes DEF Fits
    <3>2. \A n \in Starts : n \in Nat /\ Size(n) \in Nat
      BY DEF Starts, Size
    <3>3. ~(a >= q[1] /\ a < q[1] + Size(q[1]))
      BY <1>1, <2>1, <3>1, <3>2
    <3> QED
      BY <3>1, <3>3
  <2> QED
    BY <2>1, <2>2, RestStays
<1> HIDE DEF after
<1>3. {0, 1, 2, 3, 70, 71} \subseteq Kept /\ NotImplemented \subseteq Kept
  BY DEF Kept
<1>4. \A k \in 1 .. 10 : 182 + k \in Kept
  BY DEF Kept
<1>5. /\ after[0] = Const(21365) /\ after[1] = Const(28243) /\ after[2] = Const(1)
      /\ after[3] = Const(66) /\ after[70] = Const(701) /\ after[71] = Const(153)
  BY <1>2, <1>3 DEF Prepared
<1>6. \A a \in NotImplemented : after[a] = Const(65535)
  BY <1>2, <1>3 DEF Prepared
<1>7. \A k \in 1 .. 10 : after[182 + k] = Const(ScaleFactors[k])
  BY <1>2, <1>4 DEF Prepared
<1>8. Prepared(after)
  BY <1>5, <1>6, <1>7 DEF Prepared
<1> QED
  BY <1>8 DEF after

LEMMA SetupPrepares ==
  ASSUME NEW stray \in [1 .. 3 -> Nat]
  PROVE  /\ Prepared(Write(Blank, SetupRuns(stray)))
         /\ DOMAIN Write(Blank, SetupRuns(stray)) = 0 .. 299
<1> DEFINE bank == Write(Blank, SetupRuns(stray))
<1>1. \A n \in SetupStarts : n + SetupSize(n) <= 300
  BY DEF SetupStarts, SetupSize
<1>2. \A p \in SetupRuns(stray) : p[1] + Len(p[2]) <= 300
  BY <1>1, SetupSizes DEF SetupFits
<1>3. Lands(bank, SetupRuns(stray)) /\ DOMAIN bank = 0 .. 299
  <2> DEFINE runs == SetupRuns(stray)
  <2>1. Apart(runs)
    BY SetupApart
  <2>2. DOMAIN Blank = 0 .. 299
    BY DEF Blank
  <2>3. \A p \in runs : p[1] + Len(p[2]) <= 300
    BY <1>2
  <2> HIDE DEF runs
  <2>4. Lands(Write(Blank, runs), runs) /\ DOMAIN Write(Blank, runs) = 0 .. 299
    BY <2>1, <2>2, <2>3, RunsLand
  <2> QED
    BY <2>4 DEF runs
<1> HIDE DEF bank
<1>4. bank[0] = Const(21365) /\ bank[1] = Const(28243)
  <2> DEFINE words == Consts(<< 21365, 28243 >>)
             run   == << 0, words >>
  <2>6. run \in SetupRuns(stray)
    BY SetupRunsAre
  <2>1. run[1] = 0 /\ run[2] = words
    OBVIOUS
  <2>2. Len(words) = 2 /\ words[1] = Const(21365) /\ words[2] = Const(28243)
    BY DEF Consts
  <2> HIDE DEF words, run
  <2>3. \A k \in 1 .. Len(run[2]) : bank[run[1] + k - 1] = run[2][k]
    BY <1>3, <2>6 DEF Lands
  <2>4. \A k \in 1 .. 2 : bank[0 + k - 1] = words[k]
    BY <2>1, <2>2, <2>3
  <2>5. bank[0] = words[1] /\ bank[1] = words[2]
    BY <2>4
  <2> QED
    BY <2>2, <2>5
<1>5. bank[2] = Const(1) /\ bank[3] = Const(66)
  <2> DEFINE words == Consts(<< 1, 66 >>)
             run   == << 2, words >>
  <2>6. run \in SetupRuns(stray)
    BY SetupRunsAre
  <2>1. run[1] = 2 /\ run[2] = words
    OBVIOUS
  <2>2. Len(words) = 2 /\ words[1] = Const(1) /\ words[2] = Const(66)
    BY DEF Consts
  <2> HIDE DEF words, run
  <2>3. \A k \in 1 .. Len(run[2]) : bank[run[1] + k - 1] = run[2][k]
    BY <1>3, <2>6 DEF Lands
  <2>4. \A k \in 1 .. 2 : bank[2 + k - 1] = words[k]
    BY <2>1, <2>2, <2>3
  <2>5. bank[2] = words[1] /\ bank[3] = words[2]
    BY <2>4
  <2> QED
    BY <2>2, <2>5
<1>6. bank[70] = Const(701) /\ bank[71] = Const(153)
  <2> DEFINE words == Consts(<< 701, 153 >>)
             run   == << 70, words >>
  <2>6. run \in SetupRuns(stray)
    BY SetupRunsAre
  <2>1. run[1] = 70 /\ run[2] = words
    OBVIOUS
  <2>2. Len(words) = 2 /\ words[1] = Const(701) /\ words[2] = Const(153)
    BY DEF Consts
  <2> HIDE DEF words, run
  <2>3. \A k \in 1 .. Len(run[2]) : bank[run[1] + k - 1] = run[2][k]
    BY <1>3, <2>6 DEF Lands
  <2>4. \A k \in 1 .. 2 : bank[70 + k - 1] = words[k]
    BY <2>1, <2>2, <2>3
  <2>5. bank[70] = words[1] /\ bank[71] = words[2]
    BY <2>4
  <2> QED
    BY <2>2, <2>5
<1>7. ASSUME NEW a \in NotImplemented
      PROVE  bank[a] = Const(65535)
  <2> DEFINE words == Unimplemented(111)
             k     == a - 71
             run   == << 72, words >>
  <2>6. run \in SetupRuns(stray)
    BY SetupRunsAre
  <2>1. run[1] = 72 /\ run[2] = words
    OBVIOUS
  <2>2. Len(words) = 111 /\ \A n \in 1 .. 111 : words[n] = Const(65535)
    BY DEF Unimplemented, NOT_IMPLEMENTED
  <2>3. k \in 1 .. 111 /\ a = 72 + k - 1
    BY DEF NotImplemented
  <2> HIDE DEF words, run, k
  <2>4. \A n \in 1 .. Len(run[2]) : bank[run[1] + n - 1] = run[2][n]
    BY <1>3, <2>6 DEF Lands
  <2>5. bank[72 + k - 1] = words[k]
    BY <2>1, <2>2, <2>3, <2>4
  <2> QED
    BY <2>2, <2>3, <2>5
<1>8. ASSUME NEW k \in 1 .. 10
      PROVE  bank[182 + k] = Const(ScaleFactors[k])
  <2> DEFINE words == Consts(ScaleFactors)
             run   == << 183, words >>
  <2>6. run \in SetupRuns(stray)
    BY SetupRunsAre
  <2>1. run[1] = 183 /\ run[2] = words
    OBVIOUS
  <2>2. Len(words) = 10 /\ words[k] = Const(ScaleFactors[k])
    BY DEF Consts, ScaleFactors
  <2>3. 182 + k = 183 + k - 1
    OBVIOUS
  <2> HIDE DEF words, run
  <2>4. \A n \in 1 .. Len(run[2]) : bank[run[1] + n - 1] = run[2][n]
    BY <1>3, <2>6 DEF Lands
  <2>5. bank[183 + k - 1] = words[k]
    BY <2>1, <2>2, <2>4
  <2> QED
    BY <2>2, <2>3, <2>5
<1> QED
  BY <1>3, <1>4, <1>5, <1>6, <1>7, <1>8 DEF Prepared, bank

\* The registers are in the bank that the server reads; setup comes before any
\* poll; and once a cycle has been mapped the bank shows the fields as they are.
BankInv ==
  /\ DOMAIN holding = 0 .. 299
  /\ cycles \in Nat
  /\ pc = "setup" => cycles = 0
  /\ pc # "setup" => Prepared(holding)
  /\ Updated => \E length \in AlarmLengths : Lands(holding, UpdateRuns(solark, length))

LEMMA BankInvStep ==
  ASSUME BankInv, [Next]_vars
  PROVE  BankInv'
<1>1. CASE setup_sunspec_models
  <2>1. PICK stray \in [1 .. 3 -> 0 .. MaxStray] : holding' = Write(Blank, SetupRuns(stray))
    BY <1>1 DEF setup_sunspec_models
  <2>2. stray \in [1 .. 3 -> Nat]
    BY BoundsAssumption
  <2>3. Prepared(holding') /\ DOMAIN holding' = 0 .. 299
    BY <2>1, <2>2, SetupPrepares
  <2>4. cycles' = 0 /\ pc' = "loop"
    BY <1>1 DEF setup_sunspec_models, BankInv
  <2>5. ~Updated'
    BY <2>4 DEF Updated
  <2> QED
    BY <2>3, <2>4, <2>5 DEF BankInv
<1>2. CASE update_sunspec_from_solark
  <2>1. PICK length \in AlarmLengths : holding' = Write(holding, UpdateRuns(solark, length))
    BY <1>2 DEF update_sunspec_from_solark
  <2>2. length \in Nat
    BY BoundsAssumption
  <2>3. /\ pc # "setup" /\ pc' = "loop" /\ cycles' = cycles /\ solark' = solark
    BY <1>2 DEF update_sunspec_from_solark
  <2>4. \A n \in Starts : n + Size(n) <= 300
    BY DEF Starts, Size
  <2>5. \A p \in UpdateRuns(solark, length) : p[1] + Len(p[2]) <= 300
    BY <2>2, <2>4, UpdateSizes DEF Fits
  <2>6. DOMAIN holding = 0 .. 299
    BY DEF BankInv
  <2>7. Lands(holding', UpdateRuns(solark, length)) /\ DOMAIN holding' = 0 .. 299
    BY <2>1, <2>2, <2>5, <2>6, UpdateApart, RunsLand
  <2>8. Prepared(holding')
    BY <2>1, <2>2, <2>3, <2>6, UpdateKeeps DEF BankInv
  <2> QED
    BY <2>3, <2>7, <2>8 DEF BankInv
<1>3. CASE StartPoll
  BY <1>3 DEF StartPoll, BankInv, Updated
<1>4. CASE BlockRead
  BY <1>4 DEF BlockRead, NextBlock, BankInv, Updated
<1>5. CASE BlockFails
  BY <1>5 DEF BlockFails, NextBlock, BankInv, Updated
<1>6. CASE UNCHANGED vars
  BY <1>6 DEF vars, BankInv, Updated
<1> QED
  BY <1>1, <1>2, <1>3, <1>4, <1>5, <1>6 DEF Next

LEMMA BankInvHolds == Spec => []BankInv
<1>1. Init => BankInv
  BY DEF Init, BankInv, Updated, Blank
<1> QED
  BY <1>1, BankInvStep, PTL DEF Spec

-----------------------------------------------------------------------------
(* What a client finds.                                                    *)

\* A run in the bank, word by word.
LEMMA RunIsThere ==
  ASSUME NEW bank, NEW runs, Lands(bank, runs), NEW n \in Nat, NEW words, << n, words >> \in runs
  PROVE  \A k \in 1 .. Len(words) : bank[n + k - 1] = words[k]
<1> DEFINE run == << n, words >>
<1>1. run \in runs /\ run[1] = n /\ run[2] = words
  OBVIOUS
<1> HIDE DEF run
<1> QED
  BY <1>1 DEF Lands

\* Words that show the registers rs in order, times a power of ten.
Shows(bank, s, at, size, rs, by) ==
  \A k \in 1 .. size :
    LET word == bank[at + k - 1]
    IN  /\ word.kind = "number" /\ word.of = { s[r].from : r \in rs } /\ word.part = k
        /\ \E r \in rs : word.exp = by + s[r].exp

LEMMA NumberShown ==
  ASSUME NEW bank, NEW runs, Lands(bank, runs), NEW at \in Nat, NEW s, NEW rs, NEW by,
         NEW n \in Nat, rs # {}, << at, Number(s, rs, by, n) >> \in runs
  PROVE  Shows(bank, s, at, n, rs, by)
<1> DEFINE words == Number(s, rs, by, n)
           froms == { s[r].from : r \in rs }
           one   == CHOOSE r \in rs : TRUE
           exp   == by + s[one].exp
<1>1. Len(words) = n
  BY NumberIs
<1>2. ASSUME NEW k \in 1 .. n
      PROVE  words[k] = Content("number", froms, exp, k, 0)
  BY DEF Number
<1>3. \E r \in rs : exp = by + s[r].exp
  <2>1. one \in rs
    OBVIOUS
  <2> HIDE DEF one
  <2> QED
    BY <2>1
<1> HIDE DEF words
<1>4. \A k \in 1 .. n : bank[at + k - 1] = words[k]
  BY <1>1, RunIsThere DEF words
<1> HIDE DEF froms, exp
<1>5. ASSUME NEW k \in 1 .. n
      PROVE  /\ bank[at + k - 1].kind = "number" /\ bank[at + k - 1].of = froms
             /\ bank[at + k - 1].part = k /\ bank[at + k - 1].exp = exp
  <2>1. bank[at + k - 1] = Content("number", froms, exp, k, 0)
    BY <1>2, <1>4
  <2> QED
    BY <2>1 DEF Content
<1> QED
  BY <1>3, <1>5 DEF Shows, froms

LEMMA FieldShown ==
  ASSUME NEW bank, NEW runs, Lands(bank, runs), NEW at \in Nat, NEW s, NEW r, NEW by,
         << at, Field(s, r, by) >> \in runs
  PROVE  Shows(bank, s, at, 1, {r}, by)
<1> DEFINE rs == {r}
<1>1. rs # {} /\ << at, Number(s, rs, by, 1) >> \in runs
  BY DEF Field
<1> HIDE DEF rs
<1>2. Shows(bank, s, at, 1, rs, by)
  BY <1>1, NumberShown
<1> QED
  BY <1>2 DEF rs

\* What an update shows at each point: its registers, in its unit.
LEMMA UpdateShows ==
  ASSUME NEW bank, NEW s, NEW length \in Nat, Lands(bank, UpdateRuns(s, length))
  PROVE  /\ Shows(bank, s, 72, 1, {286}, 0)
         /\ Shows(bank, s, 73, 1, {59}, 0)
         /\ Shows(bank, s, 74, 1, {59, 175}, 0)
         /\ Shows(bank, s, 75, 1, {194}, 0)
         /\ Shows(bank, s, 78, 2, {194}, 0)
         /\ Shows(bank, s, 80, 1, {175}, 0)
         /\ Shows(bank, s, 81, 1, {175}, 0)
         /\ Shows(bank, s, 84, 1, {164, 165}, 2)
         /\ Shows(bank, s, 85, 1, {156}, 1)
         /\ Shows(bank, s, 86, 1, {156}, 1)
         /\ Shows(bank, s, 87, 2, {193}, 2)
         /\ Shows(bank, s, 89, 4, {84}, 3)
         /\ Shows(bank, s, 106, 1, {182}, 1)
         /\ Shows(bank, s, 108, 1, {90}, 1)
         /\ Shows(bank, s, 109, 1, {91}, 1)
         /\ Shows(bank, s, 111, 1, {176}, 0)
         /\ Shows(bank, s, 115, 1, {164}, 2)
         /\ Shows(bank, s, 116, 1, {156}, 1)
         /\ Shows(bank, s, 134, 1, {177}, 0)
         /\ Shows(bank, s, 138, 1, {165}, 2)
         /\ Shows(bank, s, 227, 1, {204}, 0)
         /\ Shows(bank, s, 228, 1, {204, 184, 316}, 0)
         /\ Shows(bank, s, 229, 1, {184, 316}, 1)
         /\ Shows(bank, s, 231, 1, {322, 323}, 0)
<1>1. Shows(bank, s, 72, 1, {286}, 0)
  <2>1. << 72, Field(s, 286, 0) >> \in UpdateRuns(s, length)
    BY UpdateRunsAre
  <2> QED
    BY <2>1, FieldShown
<1>2. Shows(bank, s, 73, 1, {59}, 0)
  <2>1. << 73, Field(s, 59, 0) >> \in UpdateRuns(s, length)
    BY UpdateRunsAre
  <2> QED
    BY <2>1, FieldShown
<1>3. Shows(bank, s, 74, 1, {59, 175}, 0)
  <2> DEFINE rs == {59, 175}
  <2>1. rs # {} /\ << 74, Number(s, rs, 0, 1) >> \in UpdateRuns(s, length)
    BY UpdateRunsAre
  <2> HIDE DEF rs
  <2>2. Shows(bank, s, 74, 1, rs, 0)
    BY <2>1, NumberShown
  <2> QED
    BY <2>2 DEF rs
<1>4. Shows(bank, s, 75, 1, {194}, 0)
  <2>1. << 75, Field(s, 194, 0) >> \in UpdateRuns(s, length)
    BY UpdateRunsAre
  <2> QED
    BY <2>1, FieldShown
<1>5. Shows(bank, s, 78, 2, {194}, 0)
  <2> DEFINE rs == {194}
  <2>1. rs # {} /\ << 78, Number(s, rs, 0, 2) >> \in UpdateRuns(s, length)
    BY UpdateRunsAre
  <2> HIDE DEF rs
  <2>2. Shows(bank, s, 78, 2, rs, 0)
    BY <2>1, NumberShown
  <2> QED
    BY <2>2 DEF rs
<1>6. Shows(bank, s, 80, 1, {175}, 0)
  <2>1. << 80, Field(s, 175, 0) >> \in UpdateRuns(s, length)
    BY UpdateRunsAre
  <2> QED
    BY <2>1, FieldShown
<1>7. Shows(bank, s, 81, 1, {175}, 0)
  <2>1. << 81, Field(s, 175, 0) >> \in UpdateRuns(s, length)
    BY UpdateRunsAre
  <2> QED
    BY <2>1, FieldShown
<1>8. Shows(bank, s, 84, 1, {164, 165}, 2)
  <2> DEFINE rs == {164, 165}
  <2>1. rs # {} /\ << 84, Number(s, rs, 2, 1) >> \in UpdateRuns(s, length)
    BY UpdateRunsAre
  <2> HIDE DEF rs
  <2>2. Shows(bank, s, 84, 1, rs, 2)
    BY <2>1, NumberShown
  <2> QED
    BY <2>2 DEF rs
<1>9. Shows(bank, s, 85, 1, {156}, 1)
  <2>1. << 85, Field(s, 156, 1) >> \in UpdateRuns(s, length)
    BY UpdateRunsAre
  <2> QED
    BY <2>1, FieldShown
<1>10. Shows(bank, s, 86, 1, {156}, 1)
  <2>1. << 86, Field(s, 156, 1) >> \in UpdateRuns(s, length)
    BY UpdateRunsAre
  <2> QED
    BY <2>1, FieldShown
<1>11. Shows(bank, s, 87, 2, {193}, 2)
  <2> DEFINE rs == {193}
  <2>1. rs # {} /\ << 87, Number(s, rs, 2, 2) >> \in UpdateRuns(s, length)
    BY UpdateRunsAre
  <2> HIDE DEF rs
  <2>2. Shows(bank, s, 87, 2, rs, 2)
    BY <2>1, NumberShown
  <2> QED
    BY <2>2 DEF rs
<1>12. Shows(bank, s, 89, 4, {84}, 3)
  <2> DEFINE rs == {84}
  <2>1. rs # {} /\ << 89, Number(s, rs, 3, 4) >> \in UpdateRuns(s, length)
    BY UpdateRunsAre
  <2> HIDE DEF rs
  <2>2. Shows(bank, s, 89, 4, rs, 3)
    BY <2>1, NumberShown
  <2> QED
    BY <2>2 DEF rs
<1>13. Shows(bank, s, 106, 1, {182}, 1)
  <2>1. << 106, Field(s, 182, 1) >> \in UpdateRuns(s, length)
    BY UpdateRunsAre
  <2> QED
    BY <2>1, FieldShown
<1>14. Shows(bank, s, 108, 1, {90}, 1)
  <2>1. << 108, Field(s, 90, 1) >> \in UpdateRuns(s, length)
    BY UpdateRunsAre
  <2> QED
    BY <2>1, FieldShown
<1>15. Shows(bank, s, 109, 1, {91}, 1)
  <2>1. << 109, Field(s, 91, 1) >> \in UpdateRuns(s, length)
    BY UpdateRunsAre
  <2> QED
    BY <2>1, FieldShown
<1>16. Shows(bank, s, 111, 1, {176}, 0)
  <2>1. << 111, Field(s, 176, 0) >> \in UpdateRuns(s, length)
    BY UpdateRunsAre
  <2> QED
    BY <2>1, FieldShown
<1>17. Shows(bank, s, 115, 1, {164}, 2)
  <2>1. << 115, Field(s, 164, 2) >> \in UpdateRuns(s, length)
    BY UpdateRunsAre
  <2> QED
    BY <2>1, FieldShown
<1>18. Shows(bank, s, 116, 1, {156}, 1)
  <2>1. << 116, Field(s, 156, 1) >> \in UpdateRuns(s, length)
    BY UpdateRunsAre
  <2> QED
    BY <2>1, FieldShown
<1>19. Shows(bank, s, 134, 1, {177}, 0)
  <2>1. << 134, Field(s, 177, 0) >> \in UpdateRuns(s, length)
    BY UpdateRunsAre
  <2> QED
    BY <2>1, FieldShown
<1>20. Shows(bank, s, 138, 1, {165}, 2)
  <2>1. << 138, Field(s, 165, 2) >> \in UpdateRuns(s, length)
    BY UpdateRunsAre
  <2> QED
    BY <2>1, FieldShown
<1>21. Shows(bank, s, 227, 1, {204}, 0)
  <2>1. << 227, Field(s, 204, 0) >> \in UpdateRuns(s, length)
    BY UpdateRunsAre
  <2> QED
    BY <2>1, FieldShown
<1>22. Shows(bank, s, 228, 1, {204, 184, 316}, 0)
  <2> DEFINE rs == {204, 184, 316}
  <2>1. rs # {} /\ << 228, Number(s, rs, 0, 1) >> \in UpdateRuns(s, length)
    BY UpdateRunsAre
  <2> HIDE DEF rs
  <2>2. Shows(bank, s, 228, 1, rs, 0)
    BY <2>1, NumberShown
  <2> QED
    BY <2>2 DEF rs
<1>23. Shows(bank, s, 229, 1, {184, 316}, 1)
  <2> DEFINE rs == {184, 316}
  <2>1. rs # {} /\ << 229, Number(s, rs, 1, 1) >> \in UpdateRuns(s, length)
    BY UpdateRunsAre
  <2> HIDE DEF rs
  <2>2. Shows(bank, s, 229, 1, rs, 1)
    BY <2>1, NumberShown
  <2> QED
    BY <2>2 DEF rs
<1>24. Shows(bank, s, 231, 1, {322, 323}, 0)
  <2> DEFINE rs == {322, 323}
  <2>1. rs # {} /\ << 231, Number(s, rs, 0, 1) >> \in UpdateRuns(s, length)
    BY UpdateRunsAre
  <2> HIDE DEF rs
  <2>2. Shows(bank, s, 231, 1, rs, 0)
    BY <2>1, NumberShown
  <2> QED
    BY <2>2 DEF rs
<1> QED
  BY <1>1, <1>2, <1>3, <1>4, <1>5, <1>6, <1>7, <1>8, <1>9, <1>10, <1>11, <1>12,
     <1>13, <1>14, <1>15, <1>16, <1>17, <1>18, <1>19, <1>20, <1>21, <1>22, <1>23, <1>24

\* Where the points are that show registers.
LEMMA PointPlaces ==
  ASSUME NEW p \in M!Points
  PROVE  /\ p[1] = "ACType" => p[2] = 72 /\ p[3] = 1
         /\ p[1] = "St" => p[2] = 73 /\ p[3] = 1
         /\ p[1] = "InvSt" => p[2] = 74 /\ p[3] = 1
         /\ p[1] = "ConnSt" => p[2] = 75 /\ p[3] = 1
         /\ p[1] = "DERMode" => p[2] = 78 /\ p[3] = 2
         /\ p[1] = "W" => p[2] = 80 /\ p[3] = 1
         /\ p[1] = "VA" => p[2] = 81 /\ p[3] = 1
         /\ p[1] = "A" => p[2] = 84 /\ p[3] = 1
         /\ p[1] = "LLV" => p[2] = 85 /\ p[3] = 1
         /\ p[1] = "LNV" => p[2] = 86 /\ p[3] = 1
         /\ p[1] = "Hz" => p[2] = 87 /\ p[3] = 2
         /\ p[1] = "TotWhInj" => p[2] = 89 /\ p[3] = 4
         /\ p[1] = "TmpCab" => p[2] = 106 /\ p[3] = 1
         /\ p[1] = "TmpTrns" => p[2] = 108 /\ p[3] = 1
         /\ p[1] = "TmpSw" => p[2] = 109 /\ p[3] = 1
         /\ p[1] = "WL1" => p[2] = 111 /\ p[3] = 1
         /\ p[1] = "AL1" => p[2] = 115 /\ p[3] = 1
         /\ p[1] = "VL1L2" => p[2] = 116 /\ p[3] = 1
         /\ p[1] = "WL2" => p[2] = 134 /\ p[3] = 1
         /\ p[1] = "AL2" => p[2] = 138 /\ p[3] = 1
         /\ p[1] = "WHRtg" => p[2] = 227 /\ p[3] = 1
         /\ p[1] = "WHAvail" => p[2] = 228 /\ p[3] = 1
         /\ p[1] = "SoC" => p[2] = 229 /\ p[3] = 1
         /\ p[1] = "Sta" => p[2] = 231 /\ p[3] = 1
BY DEF M!Points, M!Common, M!Inverter, M!Storage

\* The power of ten that a point's registers are multiplied by.
Multiplier(name) ==
  CASE name \in {"A", "Hz", "AL1", "AL2"} -> 2
    [] name \in {"LLV", "LNV", "VL1L2", "TmpCab", "TmpTrns", "TmpSw", "SoC"} -> 1
    [] name = "TotWhInj" -> 3
    [] OTHER -> 0

\* The registers that the code shows at each point that shows any.  The documents
\* name them for some of the points only.
Shown ==
  [ACType |-> {286}, St |-> {59}, InvSt |-> {59, 175}, ConnSt |-> {194}, DERMode |-> {194},
   W |-> {175}, VA |-> {175}, A |-> {164, 165}, LLV |-> {156}, LNV |-> {156}, Hz |-> {193},
   TotWhInj |-> {84}, TmpCab |-> {182}, TmpTrns |-> {90}, TmpSw |-> {91}, WL1 |-> {176},
   AL1 |-> {164}, VL1L2 |-> {156}, WL2 |-> {177}, AL2 |-> {165}, WHRtg |-> {204},
   WHAvail |-> {204, 184, 316}, SoC |-> {184, 316}, Sta |-> {322, 323}]

\* Where the documents name registers, these are the ones.
LEMMA ShownAsDocumented ==
  ASSUME NEW name \in DOMAIN M!SourcesOf
  PROVE  name \in DOMAIN Shown /\ M!SourcesOf[name] = Shown[name]
<1>1. CASE name \in DOMAIN M!MappedTo
  <2>1. M!SourcesOf[name] = M!MappedTo[name]
    BY <1>1 DEF M!SourcesOf
  <2>2. name \in {"ACType", "DERMode", "W", "A", "LLV", "LNV", "Hz", "TotWhInj",
                "TmpCab", "WHRtg", "WHAvail", "SoC", "Sta"}
    BY <1>1 DEF M!MappedTo
  <2>3. name \in DOMAIN Shown
    BY <2>2 DEF Shown
  <2>4. /\ M!MappedTo["ACType"] = Shown["ACType"]
        /\ M!MappedTo["DERMode"] = Shown["DERMode"]
        /\ M!MappedTo["W"] = Shown["W"]
        /\ M!MappedTo["A"] = Shown["A"]
        /\ M!MappedTo["LLV"] = Shown["LLV"]
        /\ M!MappedTo["LNV"] = Shown["LNV"]
        /\ M!MappedTo["Hz"] = Shown["Hz"]
        /\ M!MappedTo["TotWhInj"] = Shown["TotWhInj"]
        /\ M!MappedTo["TmpCab"] = Shown["TmpCab"]
        /\ M!MappedTo["WHRtg"] = Shown["WHRtg"]
        /\ M!MappedTo["WHAvail"] = Shown["WHAvail"]
        /\ M!MappedTo["SoC"] = Shown["SoC"]
        /\ M!MappedTo["Sta"] = Shown["Sta"]
    BY DEF M!MappedTo, Shown
  <2> QED
    BY <2>1, <2>2, <2>3, <2>4
<1>2. CASE name \in DOMAIN M!NamedLike /\ name \notin DOMAIN M!MappedTo
  <2>1. M!SourcesOf[name] = M!NamedLike[name]
    BY <1>2 DEF M!SourcesOf
  <2>2. name \in {"TmpTrns", "TmpSw", "AL1", "AL2", "VL1L2", "ConnSt"}
    BY <1>2 DEF M!NamedLike
  <2>3. name \in DOMAIN Shown
    BY <2>2 DEF Shown
  <2>4. /\ M!NamedLike["TmpTrns"] = Shown["TmpTrns"]
        /\ M!NamedLike["TmpSw"] = Shown["TmpSw"]
        /\ M!NamedLike["AL1"] = Shown["AL1"]
        /\ M!NamedLike["AL2"] = Shown["AL2"]
        /\ M!NamedLike["VL1L2"] = Shown["VL1L2"]
        /\ M!NamedLike["ConnSt"] = Shown["ConnSt"]
    BY DEF M!NamedLike, Shown
  <2> QED
    BY <2>1, <2>2, <2>3, <2>4
<1> QED
  BY <1>1, <1>2 DEF M!SourcesOf

\* Each point shows its registers.
LEMMA PointShows ==
  ASSUME NEW bank, NEW s, NEW length \in Nat, Lands(bank, UpdateRuns(s, length)),
         NEW p \in M!Points, p[1] \in DOMAIN Shown
  PROVE  Shows(bank, s, p[2], p[3], Shown[p[1]], Multiplier(p[1]))
<1>1. CASE p[1] = "ACType"
  <2>1. p[2] = 72 /\ p[3] = 1
    BY <1>1, PointPlaces
  <2>2. Shown["ACType"] = {286} /\ Multiplier("ACType") = 0
    BY DEF Shown, Multiplier
  <2> QED
    BY <1>1, <2>1, <2>2, UpdateShows
<1>2. CASE p[1] = "St"
  <2>1. p[2] = 73 /\ p[3] = 1
    BY <1>2, PointPlaces
  <2>2. Shown["St"] = {59} /\ Multiplier("St") = 0
    BY DEF Shown, Multiplier
  <2> QED
    BY <1>2, <2>1, <2>2, UpdateShows
<1>3. CASE p[1] = "InvSt"
  <2>1. p[2] = 74 /\ p[3] = 1
    BY <1>3, PointPlaces
  <2>2. Shown["InvSt"] = {59, 175} /\ Multiplier("InvSt") = 0
    BY DEF Shown, Multiplier
  <2> QED
    BY <1>3, <2>1, <2>2, UpdateShows
<1>4. CASE p[1] = "ConnSt"
  <2>1. p[2] = 75 /\ p[3] = 1
    BY <1>4, PointPlaces
  <2>2. Shown["ConnSt"] = {194} /\ Multiplier("ConnSt") = 0
    BY DEF Shown, Multiplier
  <2> QED
    BY <1>4, <2>1, <2>2, UpdateShows
<1>5. CASE p[1] = "DERMode"
  <2>1. p[2] = 78 /\ p[3] = 2
    BY <1>5, PointPlaces
  <2>2. Shown["DERMode"] = {194} /\ Multiplier("DERMode") = 0
    BY DEF Shown, Multiplier
  <2> QED
    BY <1>5, <2>1, <2>2, UpdateShows
<1>6. CASE p[1] = "W"
  <2>1. p[2] = 80 /\ p[3] = 1
    BY <1>6, PointPlaces
  <2>2. Shown["W"] = {175} /\ Multiplier("W") = 0
    BY DEF Shown, Multiplier
  <2> QED
    BY <1>6, <2>1, <2>2, UpdateShows
<1>7. CASE p[1] = "VA"
  <2>1. p[2] = 81 /\ p[3] = 1
    BY <1>7, PointPlaces
  <2>2. Shown["VA"] = {175} /\ Multiplier("VA") = 0
    BY DEF Shown, Multiplier
  <2> QED
    BY <1>7, <2>1, <2>2, UpdateShows
<1>8. CASE p[1] = "A"
  <2>1. p[2] = 84 /\ p[3] = 1
    BY <1>8, PointPlaces
  <2>2. Shown["A"] = {164, 165} /\ Multiplier("A") = 2
    BY DEF Shown, Multiplier
  <2> QED
    BY <1>8, <2>1, <2>2, UpdateShows
<1>9. CASE p[1] = "LLV"
  <2>1. p[2] = 85 /\ p[3] = 1
    BY <1>9, PointPlaces
  <2>2. Shown["LLV"] = {156} /\ Multiplier("LLV") = 1
    BY DEF Shown, Multiplier
  <2> QED
    BY <1>9, <2>1, <2>2, UpdateShows
<1>10. CASE p[1] = "LNV"
  <2>1. p[2] = 86 /\ p[3] = 1
    BY <1>10, PointPlaces
  <2>2. Shown["LNV"] = {156} /\ Multiplier("LNV") = 1
    BY DEF Shown, Multiplier
  <2> QED
    BY <1>10, <2>1, <2>2, UpdateShows
<1>11. CASE p[1] = "Hz"
  <2>1. p[2] = 87 /\ p[3] = 2
    BY <1>11, PointPlaces
  <2>2. Shown["Hz"] = {193} /\ Multiplier("Hz") = 2
    BY DEF Shown, Multiplier
  <2> QED
    BY <1>11, <2>1, <2>2, UpdateShows
<1>12. CASE p[1] = "TotWhInj"
  <2>1. p[2] = 89 /\ p[3] = 4
    BY <1>12, PointPlaces
  <2>2. Shown["TotWhInj"] = {84} /\ Multiplier("TotWhInj") = 3
    BY DEF Shown, Multiplier
  <2> QED
    BY <1>12, <2>1, <2>2, UpdateShows
<1>13. CASE p[1] = "TmpCab"
  <2>1. p[2] = 106 /\ p[3] = 1
    BY <1>13, PointPlaces
  <2>2. Shown["TmpCab"] = {182} /\ Multiplier("TmpCab") = 1
    BY DEF Shown, Multiplier
  <2> QED
    BY <1>13, <2>1, <2>2, UpdateShows
<1>14. CASE p[1] = "TmpTrns"
  <2>1. p[2] = 108 /\ p[3] = 1
    BY <1>14, PointPlaces
  <2>2. Shown["TmpTrns"] = {90} /\ Multiplier("TmpTrns") = 1
    BY DEF Shown, Multiplier
  <2> QED
    BY <1>14, <2>1, <2>2, UpdateShows
<1>15. CASE p[1] = "TmpSw"
  <2>1. p[2] = 109 /\ p[3] = 1
    BY <1>15, PointPlaces
  <2>2. Shown["TmpSw"] = {91} /\ Multiplier("TmpSw") = 1
    BY DEF Shown, Multiplier
  <2> QED
    BY <1>15, <2>1, <2>2, UpdateShows
<1>16. CASE p[1] = "WL1"
  <2>1. p[2] = 111 /\ p[3] = 1
    BY <1>16, PointPlaces
  <2>2. Shown["WL1"] = {176} /\ Multiplier("WL1") = 0
    BY DEF Shown, Multiplier
  <2> QED
    BY <1>16, <2>1, <2>2, UpdateShows
<1>17. CASE p[1] = "AL1"
  <2>1. p[2] = 115 /\ p[3] = 1
    BY <1>17, PointPlaces
  <2>2. Shown["AL1"] = {164} /\ Multiplier("AL1") = 2
    BY DEF Shown, Multiplier
  <2> QED
    BY <1>17, <2>1, <2>2, UpdateShows
<1>18. CASE p[1] = "VL1L2"
  <2>1. p[2] = 116 /\ p[3] = 1
    BY <1>18, PointPlaces
  <2>2. Shown["VL1L2"] = {156} /\ Multiplier("VL1L2") = 1
    BY DEF Shown, Multiplier
  <2> QED
    BY <1>18, <2>1, <2>2, UpdateShows
<1>19. CASE p[1] = "WL2"
  <2>1. p[2] = 134 /\ p[3] = 1
    BY <1>19, PointPlaces
  <2>2. Shown["WL2"] = {177} /\ Multiplier("WL2") = 0
    BY DEF Shown, Multiplier
  <2> QED
    BY <1>19, <2>1, <2>2, UpdateShows
<1>20. CASE p[1] = "AL2"
  <2>1. p[2] = 138 /\ p[3] = 1
    BY <1>20, PointPlaces
  <2>2. Shown["AL2"] = {165} /\ Multiplier("AL2") = 2
    BY DEF Shown, Multiplier
  <2> QED
    BY <1>20, <2>1, <2>2, UpdateShows
<1>21. CASE p[1] = "WHRtg"
  <2>1. p[2] = 227 /\ p[3] = 1
    BY <1>21, PointPlaces
  <2>2. Shown["WHRtg"] = {204} /\ Multiplier("WHRtg") = 0
    BY DEF Shown, Multiplier
  <2> QED
    BY <1>21, <2>1, <2>2, UpdateShows
<1>22. CASE p[1] = "WHAvail"
  <2>1. p[2] = 228 /\ p[3] = 1
    BY <1>22, PointPlaces
  <2>2. Shown["WHAvail"] = {204, 184, 316} /\ Multiplier("WHAvail") = 0
    BY DEF Shown, Multiplier
  <2> QED
    BY <1>22, <2>1, <2>2, UpdateShows
<1>23. CASE p[1] = "SoC"
  <2>1. p[2] = 229 /\ p[3] = 1
    BY <1>23, PointPlaces
  <2>2. Shown["SoC"] = {184, 316} /\ Multiplier("SoC") = 1
    BY DEF Shown, Multiplier
  <2> QED
    BY <1>23, <2>1, <2>2, UpdateShows
<1>24. CASE p[1] = "Sta"
  <2>1. p[2] = 231 /\ p[3] = 1
    BY <1>24, PointPlaces
  <2>2. Shown["Sta"] = {322, 323} /\ Multiplier("Sta") = 0
    BY DEF Shown, Multiplier
  <2> QED
    BY <1>24, <2>1, <2>2, UpdateShows
<1> QED
  BY <1>1, <1>2, <1>3, <1>4, <1>5, <1>6, <1>7, <1>8, <1>9, <1>10, <1>11, <1>12,
     <1>13, <1>14, <1>15, <1>16, <1>17, <1>18, <1>19, <1>20, <1>21, <1>22, <1>23, <1>24 DEF Shown

\* Where the alarm text is.
LEMMA AlarmPlace ==
  ASSUME NEW p \in M!Points, p[1] = "MnAlrmInfo"
  PROVE  p[2] = 193 /\ p[3] = 32
BY DEF M!Points, M!Common, M!Inverter, M!Storage

LEMMA NonePlaces ==
  ASSUME NEW p \in M!Points, p[1] = "none"
  PROVE  /\ p[2] \in {93, 107, 110, 112, 117, 135, 139}
         /\ p[2] = 93 => p[3] = 13
         /\ p[2] \in {107, 110} => p[3] = 1
         /\ p[2] \in {112, 135} => p[3] = 3
         /\ p[2] = 117 => p[3] = 17
         /\ p[2] = 139 => p[3] = 44
<1>1. p[2] \in {93, 107, 110, 112, 117, 135, 139}
  BY DEF M!Points, M!Common, M!Inverter, M!Storage
<1>2. /\ p[2] = 93 => p[3] = 13
      /\ p[2] \in {107, 110} => p[3] = 1
      /\ p[2] \in {112, 135} => p[3] = 3
      /\ p[2] = 117 => p[3] = 17
      /\ p[2] = 139 => p[3] = 44
  BY DEF M!Points, M!Common, M!Inverter, M!Storage
<1> QED
  BY <1>1, <1>2

\* The points that the gateway does not implement say so.
LEMMA NoneShown ==
  ASSUME NEW bank, Prepared(bank), NEW p \in M!Points, p[1] = "none", NEW k \in 1 .. p[3]
  PROVE  bank[p[2] + k - 1] = Const(NOT_IMPLEMENTED)
<1>1. p[2] + k - 1 \in NotImplemented
  BY NonePlaces DEF NotImplemented
<1> QED
  BY <1>1 DEF Prepared, NOT_IMPLEMENTED

\* The alarm text fills its point to the end.
LEMMA AlarmShown ==
  ASSUME NEW bank, NEW s, NEW length \in Nat, length > 0, Lands(bank, UpdateRuns(s, length))
  PROVE  /\ bank[193].value = length
         /\ \A k \in 1 .. 32 :
              bank[193 + k - 1] = IF k <= (length + 1) \div 2 THEN Text(length) ELSE Const(0)
<1> DEFINE words == set_sunspec_string(length, 64, 0)
<1>1. << 193, words >> \in UpdateRuns(s, length)
  BY UpdateRunsAre
<1>2. /\ Len(words) = 32
      /\ \A k \in 1 .. 32 : words[k] = IF k <= (length + 1) \div 2 THEN Text(length) ELSE Const(0)
  BY StringIs
<1> HIDE DEF words
<1>3. \A k \in 1 .. 32 : bank[193 + k - 1] = words[k]
  <2> DEFINE run == << 193, words >>
  <2>1. run[1] = 193 /\ run[2] = words
    OBVIOUS
  <2>2. run \in UpdateRuns(s, length)
    BY <1>1, <1>2
  <2> HIDE DEF run
  <2>3. \A k \in 1 .. Len(run[2]) : bank[run[1] + k - 1] = run[2][k]
    BY <2>2 DEF Lands
  <2>4. Len(words) = 32
    BY <1>2
  <2> QED
    BY <2>1, <2>3, <2>4
<1>4. 1 <= (length + 1) \div 2 /\ 1 \in 1 .. 32
  OBVIOUS
<1>5. bank[193] = Text(length)
  <2>1. bank[193] = words[1]
    BY <1>3
  <2> QED
    BY <1>2, <1>4, <2>1
<1>6. Text(length).value = length
  BY DEF Text, Content
<1> QED
  BY <1>2, <1>3, <1>5, <1>6

\* After the first cycle every point shows the registers that the documents name for
\* it, or that it has none, through any later cycle, failed reads and changes of the alarm text
\* (setup_sunspec_models, update_sunspec_from_solark).
THEOREM MapIsRight == Spec => []PointsShowTheirRegisters
<1>1. BankInv => PointsShowTheirRegisters
  <2> SUFFICES ASSUME BankInv, Updated, NEW p \in M!Points, NEW k \in 1 .. p[3]
      PROVE  LET word == holding[p[2] + k - 1]
             IN  /\ p[1] \in DOMAIN M!SourcesOf =>
                      /\ word.kind = "number"
                      /\ word.of = { solark[r].from : r \in M!SourcesOf[p[1]] }
                      /\ word.part = k
                 /\ p[1] = "none" => word = Const(NOT_IMPLEMENTED)
                 /\ p[1] = "MnAlrmInfo" =>
                      LET length == holding[p[2]].value
                      IN  word = IF k <= (length + 1) \div 2 THEN Text(length) ELSE Const(0)
    BY DEF PointsShowTheirRegisters
  <2>1. PICK length \in AlarmLengths : Lands(holding, UpdateRuns(solark, length))
    BY DEF BankInv
  <2>2. length \in Nat /\ length > 0
    BY BoundsAssumption
  <2>3. Prepared(holding)
    BY DEF BankInv, Updated
  <2> DEFINE word == holding[p[2] + k - 1]
  <2>4. ASSUME p[1] \in DOMAIN M!SourcesOf
        PROVE  /\ word.kind = "number" /\ word.of = { solark[r].from : r \in M!SourcesOf[p[1]] }
               /\ word.part = k
    <3>1. p[1] \in DOMAIN Shown /\ M!SourcesOf[p[1]] = Shown[p[1]]
      BY <2>4, ShownAsDocumented
    <3>2. Shows(holding, solark, p[2], p[3], Shown[p[1]], Multiplier(p[1]))
      BY <2>1, <2>2, <3>1, PointShows
    <3> QED
      BY <3>1, <3>2 DEF Shows
  <2>5. ASSUME p[1] = "none" PROVE word = Const(NOT_IMPLEMENTED)
    BY <2>3, <2>5, NoneShown
  <2>6. ASSUME p[1] = "MnAlrmInfo"
        PROVE  LET n == holding[p[2]].value
               IN  word = IF k <= (n + 1) \div 2 THEN Text(n) ELSE Const(0)
    <3>1. p[2] = 193 /\ p[3] = 32
      BY <2>6, AlarmPlace
    <3>2. k \in 1 .. 32
      BY <3>1
    <3>3. word = IF k <= (length + 1) \div 2 THEN Text(length) ELSE Const(0)
      BY <2>1, <2>2, <3>1, <3>2, AlarmShown
    <3>4. holding[p[2]].value = length
      BY <2>1, <2>2, <3>1, AlarmShown
    <3> QED
      BY <3>3, <3>4
  <2> QED
    BY <2>4, <2>5, <2>6
<1> QED
  BY <1>1, BankInvHolds, PTL

\* A client that follows the lengths in the registers always arrives at the three
\* models and the end model (setup_sunspec_models, update_sunspec_from_solark).
THEOREM WalkArrives == Spec => []WalkFindsModels
<1>1. BankInv => WalkFindsModels
  <2> SUFFICES ASSUME BankInv, Updated
      PROVE  LET inverter == NextHeader(holding, 2)
                 storage  == NextHeader(holding, inverter)
                 end      == NextHeader(holding, storage)
                 at       == << 2, inverter, storage >>
             IN  /\ holding[0].value = 21365 /\ holding[1].value = 28243
                 /\ \A n \in 1 .. 3 : /\ at[n] = M!Directory[n].at
                                     /\ holding[at[n]] = Const(M!Directory[n].id)
                                     /\ holding[at[n] + 1] = Const(M!Directory[n].length)
                 /\ holding[end] = Const(65535) /\ holding[end + 1] = Const(0)
    BY DEF WalkFindsModels
  <2>1. PICK length \in AlarmLengths : Lands(holding, UpdateRuns(solark, length))
    BY DEF BankInv
  <2>2. Prepared(holding) /\ DOMAIN holding = 0 .. 299
    BY DEF BankInv, Updated
  <2>3. holding[225] = Const(713) /\ holding[226] = Const(7)
    <3> DEFINE words == Consts(StorageHeader)
    <3>1. << 225, words >> \in UpdateRuns(solark, length)
      BY UpdateRunsAre
    <3>2. Len(words) = 2 /\ words[1] = Const(713) /\ words[2] = Const(7)
      BY DEF Consts, StorageHeader
    <3> HIDE DEF words
    <3>3. \A k \in 1 .. 2 : holding[225 + k - 1] = words[k]
      <4> DEFINE run == << 225, words >>
      <4>1. run[1] = 225 /\ run[2] = words
        OBVIOUS
      <4>2. run \in UpdateRuns(solark, length)
        BY <2>1, <3>1, <3>2
      <4> HIDE DEF run
      <4>3. \A k \in 1 .. Len(run[2]) : holding[run[1] + k - 1] = run[2][k]
        BY <2>1, <4>2 DEF Lands
      <4>4. Len(words) = 2
        BY <3>2
      <4> QED
        BY <4>1, <4>3, <4>4
    <3>4. holding[225] = words[1] /\ holding[226] = words[2]
      BY <3>3
    <3> QED
      BY <3>2, <3>4
  <2>4. holding[234] = Const(65535) /\ holding[235] = Const(0)
    <3> DEFINE words == Consts(<< 65535, 0 >>)
    <3>1. << 234, words >> \in UpdateRuns(solark, length)
      BY UpdateRunsAre
    <3>2. Len(words) = 2 /\ words[1] = Const(65535) /\ words[2] = Const(0)
      BY DEF Consts
    <3> HIDE DEF words
    <3>3. \A k \in 1 .. 2 : holding[234 + k - 1] = words[k]
      <4> DEFINE run == << 234, words >>
      <4>1. run[1] = 234 /\ run[2] = words
        OBVIOUS
      <4>2. run \in UpdateRuns(solark, length)
        BY <2>1, <3>1, <3>2
      <4> HIDE DEF run
      <4>3. \A k \in 1 .. Len(run[2]) : holding[run[1] + k - 1] = run[2][k]
        BY <2>1, <4>2 DEF Lands
      <4>4. Len(words) = 2
        BY <3>2
      <4> QED
        BY <4>1, <4>3, <4>4
    <3>4. holding[234] = words[1] /\ holding[235] = words[2]
      BY <3>3
    <3> QED
      BY <3>2, <3>4
  <2>5. /\ holding[0] = Const(21365) /\ holding[1] = Const(28243) /\ holding[2] = Const(1)
        /\ holding[3] = Const(66) /\ holding[70] = Const(701) /\ holding[71] = Const(153)
    BY <2>2 DEF Prepared
  <2>6. \A v : Const(v).value = v
    BY DEF Const, Content
  <2>7. NextHeader(holding, 2) = 70
    BY <2>2, <2>5, <2>6 DEF NextHeader
  <2>8. NextHeader(holding, 70) = 225
    BY <2>2, <2>5, <2>6 DEF NextHeader
  <2>9. NextHeader(holding, 225) = 234
    BY <2>2, <2>3, <2>6 DEF NextHeader
  <2>10. holding[0].value = 21365 /\ holding[1].value = 28243
    BY <2>5, <2>6
  <2> QED
    BY <2>3, <2>4, <2>5, <2>7, <2>8, <2>9, <2>10 DEF M!Directory
<1> QED
  BY <1>1, BankInvHolds, PTL

-----------------------------------------------------------------------------
(* Scale factors.                                                          *)

\* Where the scale factors are.
LEMMA FactorPlaces ==
  ASSUME NEW f \in M!Points
  PROVE  /\ f[1] = "A_SF" => f[2] = 183
         /\ f[1] = "V_SF" => f[2] = 184
         /\ f[1] = "Hz_SF" => f[2] = 185
         /\ f[1] = "W_SF" => f[2] = 186
         /\ f[1] = "VA_SF" => f[2] = 188
         /\ f[1] = "Tmp_SF" => f[2] = 192
         /\ f[1] = "Pct_SF" => f[2] = 233
BY DEF M!Points, M!Common, M!Inverter, M!Storage

LEMMA PointsHaveSize ==
  ASSUME NEW p \in M!Points
  PROVE  p[2] \in Nat /\ p[3] \in Nat /\ p[3] >= 1
<1>1. p[2] \in Nat
  BY DEF M!Points, M!Common, M!Inverter, M!Storage
<1>2. p[3] \in {1, 2, 3, 4, 7, 8, 13, 16, 17, 32, 44}
  BY DEF M!Points, M!Common, M!Inverter, M!Storage
<1> QED
  BY <1>1, <1>2

\* The factor of the percentages is written by every update.
LEMMA PercentFactor ==
  ASSUME NEW bank, NEW s, NEW length \in Nat, Lands(bank, UpdateRuns(s, length))
  PROVE  bank[233] = Const(-1)
<1> DEFINE words == Consts(<< SCALE_FACTOR.thousandth, SCALE_FACTOR.tenth >>)
           run   == << 232, words >>
<1>1. run \in UpdateRuns(s, length)
  BY UpdateRunsAre
<1>2. run[1] = 232 /\ run[2] = words
  OBVIOUS
<1>3. Len(words) = 2
  BY DEF Consts
<1>4. words[2] = Const(-1)
  BY DEF Consts, SCALE_FACTOR
<1> HIDE DEF words, run
<1>5. \A k \in 1 .. Len(run[2]) : bank[run[1] + k - 1] = run[2][k]
  BY <1>1 DEF Lands
<1>6. \A k \in 1 .. 2 : bank[232 + k - 1] = words[k]
  BY <1>2, <1>3, <1>5
<1>7. bank[233] = words[2]
  BY <1>6
<1> QED
  BY <1>4, <1>7

\* Whatever a point's number was multiplied by, its scale factor takes back.
LEMMA FactorTakesBack ==
  ASSUME NEW bank, Prepared(bank), bank[233] = Const(-1), NEW p \in M!Points, NEW f \in M!Points,
         p[1] \in DOMAIN M!ScaleFactorOf, f[1] = M!ScaleFactorOf[p[1]]
  PROVE  bank[f[2]].value = - Multiplier(p[1]) /\ Multiplier(p[1]) \in Nat
<1>1. \A v : Const(v).value = v
  BY DEF Const, Content
<1>2. \A k \in 1 .. 10 : bank[182 + k] = Const(ScaleFactors[k])
  BY DEF Prepared
<1>3. /\ bank[183] = Const(-2) /\ bank[184] = Const(-1) /\ bank[185] = Const(-2)
      /\ bank[186] = Const(0) /\ bank[188] = Const(0) /\ bank[192] = Const(-1)
  <2>1. /\ ScaleFactors[1] = -2 /\ ScaleFactors[2] = -1 /\ ScaleFactors[3] = -2
        /\ ScaleFactors[4] = 0 /\ ScaleFactors[6] = 0 /\ ScaleFactors[10] = -1
    BY DEF ScaleFactors, SCALE_FACTOR
  <2>2. /\ bank[183] = Const(ScaleFactors[1]) /\ bank[184] = Const(ScaleFactors[2])
        /\ bank[185] = Const(ScaleFactors[3]) /\ bank[186] = Const(ScaleFactors[4])
        /\ bank[188] = Const(ScaleFactors[6]) /\ bank[192] = Const(ScaleFactors[10])
    BY <1>2
  <2> QED
    BY <2>1, <2>2
<1>4. /\ bank[183].value = -2 /\ bank[184].value = -1 /\ bank[185].value = -2
      /\ bank[186].value = 0 /\ bank[188].value = 0 /\ bank[192].value = -1
      /\ bank[233].value = -1
  BY <1>1, <1>3
<1>5. CASE p[1] \in {"A", "AL1", "AL2"}
  <2>1. f[1] = "A_SF" /\ Multiplier(p[1]) = 2
    BY <1>5 DEF M!ScaleFactorOf, Multiplier
  <2> QED
    BY <1>4, <2>1, FactorPlaces
<1>6. CASE p[1] = "Hz"
  <2>1. f[1] = "Hz_SF" /\ Multiplier(p[1]) = 2
    BY <1>6 DEF M!ScaleFactorOf, Multiplier
  <2> QED
    BY <1>4, <2>1, FactorPlaces
<1>7. CASE p[1] \in {"LLV", "LNV", "VL1L2"}
  <2>1. f[1] = "V_SF" /\ Multiplier(p[1]) = 1
    BY <1>7 DEF M!ScaleFactorOf, Multiplier
  <2> QED
    BY <1>4, <2>1, FactorPlaces
<1>8. CASE p[1] \in {"TmpCab", "TmpTrns", "TmpSw"}
  <2>1. f[1] = "Tmp_SF" /\ Multiplier(p[1]) = 1
    BY <1>8 DEF M!ScaleFactorOf, Multiplier
  <2> QED
    BY <1>4, <2>1, FactorPlaces
<1>9. CASE p[1] = "SoC"
  <2>1. f[1] = "Pct_SF" /\ Multiplier(p[1]) = 1
    BY <1>9 DEF M!ScaleFactorOf, Multiplier
  <2> QED
    BY <1>4, <2>1, FactorPlaces
<1>10. CASE p[1] \in {"W", "WL1", "WL2"}
  <2>1. f[1] = "W_SF" /\ Multiplier(p[1]) = 0
    BY <1>10 DEF M!ScaleFactorOf, Multiplier
  <2> QED
    BY <1>4, <2>1, FactorPlaces
<1>11. CASE p[1] = "VA"
  <2>1. f[1] = "VA_SF" /\ Multiplier(p[1]) = 0
    BY <1>11 DEF M!ScaleFactorOf, Multiplier
  <2> QED
    BY <1>4, <2>1, FactorPlaces
<1> QED
  BY <1>5, <1>6, <1>7, <1>8, <1>9, <1>10, <1>11 DEF M!ScaleFactorOf

\* The registers of one point, where it shows several.
LEMMA SourcesTogether ==
  ASSUME NEW name \in DOMAIN M!ScaleFactorOf, NEW c \in Shown[name], NEW d \in Shown[name]
  PROVE  /\ c \in Fields /\ d \in Fields
         /\ c = d \/ {c, d} \subseteq {164, 165} \/ {c, d} \subseteq {184, 316}
<1>1. /\ Shown[name] \subseteq {175, 164, 165, 156, 193, 182, 90, 91, 176, 177, 184, 316}
      /\ c = d \/ {c, d} \subseteq {164, 165} \/ {c, d} \subseteq {184, 316}
  BY DEF M!ScaleFactorOf, Shown
<1>2. {175, 164, 165, 156, 193, 182, 90, 91, 176, 177, 184, 316} \subseteq Fields
  BY Registers DEF Fields, SolArkRegisterMap, R
<1> QED
  BY <1>1, <1>2

\* They have one unit, and where one of them has been decoded the number has it.
LEMMA OneUnit ==
  ASSUME FieldInv, NEW name \in DOMAIN M!ScaleFactorOf,
         NEW c \in Shown[name], NEW d \in Shown[name],
         solark[d] = Decoded(d), UnitKnown(d)
  PROVE  solark[c].exp = M!UnitOf[d]
<1>1. /\ c \in Fields /\ d \in Fields
      /\ c = d \/ {c, d} \subseteq {164, 165} \/ {c, d} \subseteq {184, 316}
  BY SourcesTogether
<1>2. CASE c = d
  BY <1>2, DivisorsAreUnits DEF Decoded
<1>3. CASE {c, d} \subseteq {164, 165}
  <2>1. solark[d] # Zero
    BY <1>1, ZeroIsNotDecoded
  <2>2. solark[c] = Decoded(c)
    BY <1>1, <1>3, <2>1 DEF FieldInv
  <2>3. UnitKnown(c) /\ M!UnitOf[c] = M!UnitOf[d]
    BY <1>3 DEF UnitKnown, M!UnitOf, M!Tenths, M!Hundredths, M!Ones, M!Powers, M!ByPowerRatio
  <2> QED
    BY <2>2, <2>3, DivisorsAreUnits DEF Decoded
<1>4. CASE {c, d} \subseteq {184, 316}
  <2>1. M!UnitOf[d] = 0
    BY <1>4 DEF M!UnitOf, M!Tenths, M!Hundredths, M!Ones, M!Powers, M!ByPowerRatio
  <2>2. SolArkScalingFactors(c) = 0
    <3>1. SolArkScalingFactors(184) = 0
      BY Registers DEF SolArkScalingFactors
    <3>2. SolArkScalingFactors(316) = 0
      BY Registers DEF SolArkScalingFactors
    <3> QED
      BY <1>4, <3>1, <3>2
  <2>3. Zero.exp = 0 /\ Decoded(c).exp = 0
    <3>1. Zero.exp = 0
      BY DEF Zero
    <3>2. Decoded(c).exp = - SolArkScalingFactors(c)
      BY DEF Decoded
    <3> DEFINE divisor == SolArkScalingFactors(c)
    <3>3. divisor \in Nat /\ divisor <= 0
      BY <2>2
    <3> HIDE DEF divisor
    <3>4. - divisor = 0
      BY <3>3
    <3> QED
      BY <3>1, <3>2, <3>4 DEF divisor
  <2> QED
    BY <1>1, <2>1, <2>3 DEF FieldInv
<1> QED
  BY <1>1, <1>2, <1>3, <1>4

\* A client that applies the scale factors gets the quantities in the units of the
\* registers they come from (the divisors of processBlock, the multipliers of
\* update_sunspec_from_solark, the factors of setup_sunspec_models).
THEOREM ScalesAreRight == Spec => []ScalesAgree
<1>1. BankInv /\ FieldInv => ScalesAgree
  <2> SUFFICES ASSUME BankInv, FieldInv, Updated, NEW p \in M!Points, NEW f \in M!Points,
                      p[1] \in DOMAIN M!ScaleFactorOf, f[1] = M!ScaleFactorOf[p[1]],
                      NEW r \in holding[p[2]].of, UnitKnown(r)
               PROVE  holding[p[2]].exp + holding[f[2]].value = M!UnitOf[r]
    BY DEF ScalesAgree
  <2>1. PICK length \in AlarmLengths : Lands(holding, UpdateRuns(solark, length))
    BY DEF BankInv
  <2>2. length \in Nat
    BY BoundsAssumption
  <2>3. Prepared(holding)
    BY DEF BankInv, Updated
  <2>4. p[1] \in DOMAIN Shown
    BY DEF M!ScaleFactorOf, Shown
  <2> DEFINE rs == Shown[p[1]]
             by == Multiplier(p[1])
  <2>5. Shows(holding, solark, p[2], p[3], rs, by)
    BY <2>1, <2>2, <2>4, PointShows
  <2>6. holding[f[2]].value = - by /\ by \in Nat
    BY <2>1, <2>2, <2>3, PercentFactor, FactorTakesBack
  <2> HIDE DEF rs, by
  <2>7. 1 \in 1 .. p[3] /\ p[2] + 1 - 1 = p[2]
    BY PointsHaveSize
  <2>8. /\ holding[p[2]].of = { solark[x].from : x \in rs }
        /\ \E x \in rs : holding[p[2]].exp = by + solark[x].exp
    BY <2>5, <2>7 DEF Shows
  <2>9. PICK c \in rs : holding[p[2]].exp = by + solark[c].exp
    BY <2>8
  <2>10. PICK d \in rs : r = solark[d].from
    BY <2>8
  <2>11. d \in Fields
    BY SourcesTogether DEF rs
  <2>12. solark[d] = Decoded(d) /\ r = d
    <3>1. r # 0
      BY DEF UnitKnown, M!UnitOf, M!Tenths, M!Hundredths, M!Ones, M!Powers, M!ByPowerRatio
    <3>2. solark[d] # Zero
      BY <2>10, <3>1 DEF Zero, NoWord
    <3> QED
      BY <2>10, <2>11, <3>2 DEF FieldInv, Decoded
  <2>13. solark[c].exp = M!UnitOf[r]
    BY <2>12, OneUnit DEF rs
  <2>14. M!UnitOf[r] \in Int
    BY DEF UnitKnown, M!UnitOf, M!Tenths, M!Hundredths, M!Ones, M!Powers, M!ByPowerRatio
  <2> QED
    BY <2>6, <2>9, <2>13, <2>14
<1> QED
  BY <1>1, BankInvHolds, FieldInvHolds, PTL
=============================================================================
