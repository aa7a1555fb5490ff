------------------------ MODULE SunSpecMapping_proofs ------------------------
(***************************************************************************)
(* Proofs about SunSpecMapping, for every value that the registers of the  *)
(* inverter can hold: TLC looks at both sides of each threshold only.      *)
(***************************************************************************)
EXTENDS SunSpecMapping, TLAPS

\* What the decoder can leave in the fields.
Fields ==
  [inverter_status : Byte, inverter_output_power : Signed, battery_soc : 0 .. 100,
   battery_power : Signed, grid_relay_status : Byte, battery_capacity : Word,
   bms_real_time_soc : Word, bms_warning : Word, bms_fault : Word, grid_type : Byte]

IInv ==
  /\ solark \in Fields
  /\ TypeOK /\ StatePointsAgree /\ SocAgreesWithEnergy /\ AvailableWithinRating

-----------------------------------------------------------------------------
\* Arithmetic of words.
LEMMA WordFacts ==
  /\ \A x \in Int : x % 65536 \in Word
  /\ 0 \in Word /\ 65535 \in Word
  /\ \A x \in Word : x > 0 /\ x <= 100 => x \in 0 .. 100
  /\ \A c \in 0 .. 100 : c * 10 \in Word
  /\ \A x \in Word : (x * 512) \div 10 \in Int
  /\ \A x \in Int : x > 100 /\ x <= 32767 => x \in Word
<1>1. \A x \in Int : x % 65536 \in Word
  BY DEF Word
<1>2. 0 \in Word /\ 65535 \in Word
  BY DEF Word
<1>3. \A x \in Word : x > 0 /\ x <= 100 => x \in 0 .. 100
  BY DEF Word
<1>4. \A c \in 0 .. 100 : c * 10 \in Word
  BY DEF Word
<1>5. \A x \in Word : (x * 512) \div 10 \in Int
  BY DEF Word
<1>6. \A x \in Int : x > 100 /\ x <= 32767 => x \in Word
  BY DEF Word
<1> QED
  BY <1>1, <1>2, <1>3, <1>4, <1>5, <1>6

\* The range of a signed word.
LEMMA SignedRange ==
  /\ \A i \in Int : i >= -32768 /\ i <= 32767 <=> i \in Signed
  /\ \A i \in Signed : i \in Int
<1>1. \A i \in Int : i >= -32768 /\ i <= 32767 <=> i \in Signed
  BY DEF Signed
<1>2. \A i \in Signed : i \in Int
  BY DEF Signed
<1> QED
  BY <1>1, <1>2

\* A register read as a signed word.
LEMMA SignedWord ==
  ASSUME NEW v \in Word
  PROVE  correctSignedValue(v) \in Signed
<1>1. v \in Int /\ v >= 0 /\ v <= 65535
  BY DEF Word
<1>2. CASE v > 32767
  BY <1>1, <1>2, SignedRange DEF correctSignedValue
<1>3. CASE ~ (v > 32767)
  BY <1>1, <1>3, SignedRange DEF correctSignedValue
<1> QED
  BY <1>2, <1>3

\* A register kept in a byte.
LEMMA LowByte ==
  ASSUME NEW v \in Word
  PROVE  uint8(v) \in Byte
BY DEF Word, Byte, uint8

\* A conversion to uint16_t gives a word, and a word gives itself.
LEMMA WordOf ==
  ASSUME NEW x \in Int, NEW y \in ToWord(x)
  PROVE  y \in Word /\ (x \in Word => y = x)
<1>1. CASE x \in Word
  BY <1>1 DEF ToWord
<1>2. CASE x \notin Word
  <2>1. y = x % 65536 \/ y = 0 \/ y = 65535
    BY <1>2 DEF ToWord
  <2> QED
    BY <1>2, <2>1, WordFacts
<1> QED
  BY <1>1, <1>2

\* Whichever reading is chosen, it is a percentage.
LEMMA ChosenSoc ==
  ASSUME NEW s \in Fields
  PROVE  SocInEnergy(s) \in 0 .. 100 /\ SocShown(s) = SocInEnergy(s)
<1>1. s.bms_real_time_soc \in Word /\ s.battery_soc \in 0 .. 100
  BY DEF Fields
<1>2. CASE BmsSocUsable(s)
  <2>1. s.bms_real_time_soc \in 0 .. 100
    BY <1>1, <1>2, WordFacts DEF BmsSocUsable
  <2>2. SocInEnergy(s) = s.bms_real_time_soc /\ SocShown(s) = s.bms_real_time_soc
    BY <1>2 DEF SocInEnergy, SocShown
  <2> QED
    BY <2>1, <2>2
<1>3. CASE ~ BmsSocUsable(s)
  BY <1>1, <1>3 DEF SocInEnergy, SocShown
<1> QED
  BY <1>2, <1>3

\* The percentage c of r, in hundredths and in thousandths.
LEMMA ShareFacts ==
  ASSUME NEW r \in Nat, NEW c \in 0 .. 100
  PROVE  /\ r * c \in Nat
         /\ (r * (c * 10)) \div 1000 = (r * c) \div 100
         /\ (r * c) \div 100 \in 0 .. r
         /\ r > 0 /\ c # 0 /\ (r * c) % 100 = 0 => (r * c) \div 100 > 0
<1>1. r * c \in Nat /\ r * c <= 100 * r
  OBVIOUS
<1>2. r * (c * 10) = 10 * (r * c)
  OBVIOUS
<1>3. \A x \in Nat : (10 * x) \div 1000 = x \div 100
  OBVIOUS
<1>4. \A x \in Nat : x <= 100 * r => x \div 100 \in 0 .. r
  OBVIOUS
<1>5. \A x \in Nat : x % 100 = 0 /\ x > 0 => x \div 100 > 0
  OBVIOUS
<1>6. r > 0 /\ c # 0 => r * c > 0
  OBVIOUS
<1> QED
  BY <1>1, <1>2, <1>3, <1>4, <1>5, <1>6

\* A percentage of a rating: the share, or one less where there is some.
LEMMA ShareOfRating ==
  ASSUME NEW r \in Word, NEW c \in 0 .. 100, NEW a \in Available(r, c)
  PROVE  /\ a \in Word /\ a <= r
         /\ a \in {(r * (c * 10)) \div 1000, (r * (c * 10)) \div 1000 - 1}
<1>1. r \in Nat /\ r <= 65535
  BY DEF Word
<1>2. PICK w \in 0 .. r :
        /\ w = (r * c) \div 100 /\ w = (r * (c * 10)) \div 1000
        /\ r > 0 /\ c # 0 /\ (r * c) % 100 = 0 => w > 0
  BY <1>1, ShareFacts
<1>3. a = w \/ (a = w - 1 /\ (r * c) % 100 = 0 /\ c # 0 /\ r > 0)
  BY <1>2 DEF Available
<1>4. a = w \/ (a = w - 1 /\ w > 0)
  BY <1>2, <1>3
<1>5. a \in {(r * (c * 10)) \div 1000, (r * (c * 10)) \div 1000 - 1}
  BY <1>2, <1>4
<1>6. a \in 0 .. r
  BY <1>1, <1>4
<1> QED
  BY <1>1, <1>5, <1>6 DEF Word

-----------------------------------------------------------------------------
\* The update fills the map so that its points agree, whatever the fields are.
LEMMA UpdateAgrees ==
  ASSUME NEW s \in Fields, solark' = s, update_sunspec_from_solark(s)
  PROVE  IInv'
<1>1. PICK power \in ToWord(s.inverter_output_power), rating \in ToWord(Rating(s)) :
        \E available \in Available(rating, SocInEnergy(s)) :
          holding' = [INV_AC_TYPE |-> ACType(s), INV_OPERATING_STATE |-> OperatingState(s),
                      INV_STATUS |-> InverterState(s), INV_GRID_CONNECTION |-> Connection(s),
                      INV_DER_MODE |-> DerMode(s), INV_AC_POWER |-> power,
                      INV_ALARM_INFO |-> AlarmInfo(s),
                      STORAGE_ENERGY_RATING |-> rating, STORAGE_ENERGY_AVAILABLE |-> available,
                      STORAGE_SOC |-> SocShown(s) * 10, STORAGE_STATUS |-> StorageStatus(s)]
  BY DEF update_sunspec_from_solark
<1>2. PICK available \in Available(rating, SocInEnergy(s)) :
          holding' = [INV_AC_TYPE |-> ACType(s), INV_OPERATING_STATE |-> OperatingState(s),
                      INV_STATUS |-> InverterState(s), INV_GRID_CONNECTION |-> Connection(s),
                      INV_DER_MODE |-> DerMode(s), INV_AC_POWER |-> power,
                      INV_ALARM_INFO |-> AlarmInfo(s),
                      STORAGE_ENERGY_RATING |-> rating, STORAGE_ENERGY_AVAILABLE |-> available,
                      STORAGE_SOC |-> SocShown(s) * 10, STORAGE_STATUS |-> StorageStatus(s)]
  BY <1>1
<1>3. /\ s.inverter_status \in Byte /\ s.inverter_output_power \in Signed
      /\ s.grid_relay_status \in Byte /\ s.battery_capacity \in Word
  BY DEF Fields
<1>4. power \in Word /\ (s.inverter_output_power \in Word => power = s.inverter_output_power)
  <2>1. s.inverter_output_power \in Int
    BY <1>3, SignedRange
  <2> QED
    BY <2>1, WordOf
<1>5. rating \in Word
  <2>1. Rating(s) \in Int
    BY <1>3, WordFacts DEF Rating
  <2> QED
    BY <2>1, WordOf
<1>6. SocInEnergy(s) \in 0 .. 100 /\ SocShown(s) = SocInEnergy(s)
  BY ChosenSoc
<1>7. /\ available \in Word /\ available <= rating
      /\ available \in {(rating * (SocShown(s) * 10)) \div 1000,
                        (rating * (SocShown(s) * 10)) \div 1000 - 1}
  BY <1>5, <1>6, ShareOfRating
<1>8. TypeOK'
  <2>1. /\ ACType(s) \in Word /\ OperatingState(s) \in Word /\ InverterState(s) \in Word
        /\ Connection(s) \in Word /\ DerMode(s) \in Word /\ StorageStatus(s) \in Word
    BY DEF ACType, OperatingState, InverterState, Connection, DerMode, StorageStatus, Word,
           STARTING, RUNNING, STANDBY, THROTTLED, FAULT, OFF, FOLLOWING, FORMING
  <2>2. SocShown(s) * 10 \in Word
    BY <1>6, WordFacts
  <2>3. \A p \in DOMAIN holding' \ {"INV_ALARM_INFO"} : holding'[p] \in Word
    BY <1>2, <1>4, <1>5, <1>7, <2>1, <2>2
  <2>4. solark'.inverter_output_power \in Signed /\ solark'.grid_relay_status \in Byte
    BY <1>3
  <2> QED
    BY <2>3, <2>4 DEF TypeOK
<1>9. StatePointsAgree'
  <2>1. OperatingState(s) = 1 <=> InverterState(s) \in {RUNNING, STANDBY}
    BY DEF OperatingState, InverterState, STARTING, RUNNING, STANDBY, THROTTLED, FAULT, OFF
  <2>2. InverterState(s) = RUNNING => power > 100 /\ power <= 32767
    <3>1. InverterState(s) = RUNNING => s.inverter_output_power > 100
      BY DEF InverterState, STARTING, RUNNING, STANDBY, THROTTLED, FAULT, OFF
    <3>2. s.inverter_output_power \in Int /\ s.inverter_output_power <= 32767
      BY <1>3, SignedRange
    <3> QED
      BY <1>4, <3>1, <3>2, WordFacts
  <2>3. Connection(s) = 1 <=> DerMode(s) = FOLLOWING
    BY DEF Connection, DerMode, FOLLOWING, FORMING
  <2> QED
    BY <1>2, <2>1, <2>2, <2>3 DEF StatePointsAgree
<1>10. SocAgreesWithEnergy' /\ AvailableWithinRating'
  BY <1>2, <1>7 DEF SocAgreesWithEnergy, AvailableWithinRating
<1> QED
  BY <1>8, <1>9, <1>10 DEF IInv

\* A block that is decoded leaves fields of their types.
LEMMA DecodedFields ==
  ASSUME solark \in Fields, Next
  PROVE  solark' \in Fields /\ update_sunspec_from_solark(solark')
<1> USE RawAssumption, SocAssumption
<1>1. CASE InverterStatusBlock
  BY <1>1, LowByte DEF InverterStatusBlock, Pass, Fields
<1>2. CASE PowerBattery170
  BY <1>2, SignedWord DEF PowerBattery170, Pass, Fields
<1>3. CASE BatteryStatus190
  BY <1>3, SignedWord, LowByte DEF BatteryStatus190, Pass, Fields
<1>4. CASE BatteryCapacity204
  BY <1>4 DEF BatteryCapacity204, Pass, Fields
<1>5. CASE BmsData312
  BY <1>5 DEF BmsData312, Pass, Fields
<1>6. CASE GridType286
  BY <1>6, LowByte DEF GridType286, Pass, Fields
<1>7. CASE NothingDecoded
  BY <1>7 DEF NothingDecoded, Pass
<1> QED
  BY <1>1, <1>2, <1>3, <1>4, <1>5, <1>6, <1>7 DEF Next

\* The zeros of the constructor and the marks of setup_sunspec_models.
LEMMA InitIInv == Init => IInv
<1> SUFFICES ASSUME Init PROVE IInv
  OBVIOUS
<1>1. /\ 0 \in Byte /\ 0 \in Signed /\ 0 \in 0 .. 100 /\ 0 \in Word
      /\ NOT_IMPLEMENTED \in Word
  BY WordFacts, SignedRange DEF Byte, NOT_IMPLEMENTED
<1>2. solark \in Fields
  BY <1>1 DEF Init, Fields
<1>3. TypeOK
  <2>1. \A p \in DOMAIN holding \ {"INV_ALARM_INFO"} : holding[p] \in Word
    <3>1. DOMAIN holding =
            {"INV_AC_TYPE", "INV_OPERATING_STATE", "INV_STATUS", "INV_GRID_CONNECTION",
             "INV_DER_MODE", "INV_AC_POWER", "INV_ALARM_INFO", "STORAGE_ENERGY_RATING",
             "STORAGE_ENERGY_AVAILABLE", "STORAGE_SOC", "STORAGE_STATUS"}
      BY DEF Init
    <3>2. /\ holding.INV_AC_TYPE \in Word /\ holding.INV_OPERATING_STATE \in Word
          /\ holding.INV_STATUS \in Word /\ holding.INV_GRID_CONNECTION \in Word
          /\ holding.INV_DER_MODE \in Word /\ holding.INV_AC_POWER \in Word
          /\ holding.STORAGE_ENERGY_RATING \in Word /\ holding.STORAGE_SOC \in Word
          /\ holding.STORAGE_ENERGY_AVAILABLE \in Word /\ holding.STORAGE_STATUS \in Word
      BY <1>1 DEF Init
    <3> QED
      BY <3>1, <3>2
  <2>2. solark.inverter_output_power \in Signed /\ solark.grid_relay_status \in Byte
    BY <1>2 DEF Fields
  <2> QED
    BY <1>1, <2>1, <2>2 DEF TypeOK
<1>4. ~ Filled
  BY DEF Init, Filled
<1>5. StatePointsAgree /\ SocAgreesWithEnergy /\ AvailableWithinRating
  BY <1>4 DEF StatePointsAgree, SocAgreesWithEnergy, AvailableWithinRating
<1> QED
  BY <1>2, <1>3, <1>5 DEF IInv

\* Every pass keeps the invariant.
LEMMA StepIInv ==
  ASSUME IInv, [Next]_vars
  PROVE  IInv'
<1>1. CASE Next
  <2>1. solark' \in Fields /\ update_sunspec_from_solark(solark')
    BY <1>1, DecodedFields DEF IInv
  <2> QED
    BY <2>1, UpdateAgrees
<1>2. CASE UNCHANGED vars
  <2>1. solark' = solark /\ holding' = holding
    BY <1>2 DEF vars
  <2>2. TypeOK'
    BY <2>1 DEF IInv, TypeOK
  <2>3. StatePointsAgree'
    BY <2>1 DEF IInv, StatePointsAgree, Filled
  <2>4. SocAgreesWithEnergy' /\ AvailableWithinRating'
    BY <2>1 DEF IInv, SocAgreesWithEnergy, AvailableWithinRating, Filled
  <2> QED
    BY <2>1, <2>2, <2>3, <2>4 DEF IInv
<1> QED
  BY <1>1, <1>2

\* The invariant holds after every pass.
THEOREM Inductive == Spec => []IInv
<1> QED
  BY InitIInv, StepIInv, PTL DEF Spec

\* Every point fits a register, also where a conversion is undefined.
THEOREM TypeCorrect == Spec => []TypeOK
<1>1. IInv => TypeOK
  BY DEF IInv
<1> QED
  BY <1>1, Inductive, PTL

\* Whichever blocks have been read, the points that describe the inverter's state
\* agree (InverterState, OperatingState, Connection and DerMode of the mapper).
THEOREM StatesAgree == Spec => []StatePointsAgree
<1>1. IInv => StatePointsAgree
  BY DEF IInv
<1> QED
  BY <1>1, Inductive, PTL

\* The energy available is the state of charge's share of the rating, whichever of
\* the two readings update_sunspec_from_solark takes for each of them.
THEOREM EnergyAgrees == Spec => []SocAgreesWithEnergy
<1>1. IInv => SocAgreesWithEnergy
  BY DEF IInv
<1> QED
  BY <1>1, Inductive, PTL

\* The battery never holds more than the rating that update_sunspec_from_solark
\* computes for it, for every capacity, the ones that overflow too.
THEOREM NeverAboveRating == Spec => []AvailableWithinRating
<1>1. IInv => AvailableWithinRating
  BY DEF IInv
<1> QED
  BY <1>1, Inductive, PTL
=============================================================================
