---------------------------- MODULE SunSpecModels ----------------------------
(***************************************************************************)
(* The reference that the register map is held against: the SunSpec model  *)
(* definitions of sunspec-models/json and the units of the inverter's      *)
(* register table, solark_modbus_map_v130.csv.  A point has a name, an     *)
(* address and a size in registers; that the sizes of the definitions lead *)
(* to these addresses is Tiled, so nothing here depends on the offsets the *)
(* firmware uses.  Points that the gateway leaves unimplemented are called *)
(* "none", and neighbours among them are one entry.                        *)
(***************************************************************************)
EXTENDS Integers

CONSTANT AcPowerRatio    \* what register 54 of the inverter stands for: 1 or 10 W

Common ==
  { <<"ID", 2, 1>>, <<"L", 3, 1>>, <<"Mn", 4, 16>>, <<"Md", 20, 16>>, <<"Opt", 36, 8>>,
    <<"Vr", 44, 8>>, <<"SN", 52, 16>>, <<"DA", 68, 1>>, <<"Pad", 69, 1>> }

Inverter ==
  { <<"ID", 70, 1>>, <<"L", 71, 1>>, <<"ACType", 72, 1>>, <<"St", 73, 1>>, <<"InvSt", 74, 1>>,
    <<"ConnSt", 75, 1>>, <<"Alrm", 76, 2>>, <<"DERMode", 78, 2>>, <<"W", 80, 1>>, <<"VA", 81, 1>>,
    <<"Var", 82, 1>>, <<"PF", 83, 1>>, <<"A", 84, 1>>, <<"LLV", 85, 1>>, <<"LNV", 86, 1>>,
    <<"Hz", 87, 2>>, <<"TotWhInj", 89, 4>>, <<"none", 93, 13>>, <<"TmpCab", 106, 1>>,
    <<"none", 107, 1>>, <<"TmpTrns", 108, 1>>, <<"TmpSw", 109, 1>>, <<"none", 110, 1>>,
    <<"WL1", 111, 1>>, <<"none", 112, 3>>, <<"AL1", 115, 1>>, <<"VL1L2", 116, 1>>,
    <<"none", 117, 17>>, <<"WL2", 134, 1>>, <<"none", 135, 3>>, <<"AL2", 138, 1>>,
    <<"none", 139, 44>>, <<"A_SF", 183, 1>>, <<"V_SF", 184, 1>>, <<"Hz_SF", 185, 1>>,
    <<"W_SF", 186, 1>>, <<"PF_SF", 187, 1>>, <<"VA_SF", 188, 1>>, <<"Var_SF", 189, 1>>,
    <<"TotWh_SF", 190, 1>>, <<"TotVarh_SF", 191, 1>>, <<"Tmp_SF", 192, 1>>,
    <<"MnAlrmInfo", 193, 32>> }

Storage ==
  { <<"ID", 225, 1>>, <<"L", 226, 1>>, <<"WHRtg", 227, 1>>, <<"WHAvail", 228, 1>>, <<"SoC", 229, 1>>,
    <<"SoH", 230, 1>>, <<"Sta", 231, 1>>, <<"WH_SF", 232, 1>>, <<"Pct_SF", 233, 1>> }

\* The whole map: the marker, the models, and the end model.
Points == { <<"SunS", 0, 2>> } \cup Common \cup Inverter \cup Storage \cup { <<"End", 234, 2>> }

\* Identifier and length of each model, and where it starts.
Directory ==
  << [id |-> 1, length |-> 66, at |-> 2], [id |-> 701, length |-> 153, at |-> 70],
     [id |-> 713, length |-> 7, at |-> 225] >>

Covers(p, a) == a \in p[2] .. p[2] + p[3] - 1

\* The points lie side by side, each word of the map in one of them, and each
\* model ends where the next header is.
Tiled ==
  /\ \A a \in 0 .. 235 : \E p \in Points : \A q \in Points : Covers(q, a) <=> q = p
  /\ \A n \in 1 .. 3 :
       LET next == Directory[n].at + 2 + Directory[n].length
       IN  next = IF n = 3 THEN 234 ELSE Directory[n + 1].at

\* The scale factor that each point names, by the JSON.
ScaleFactorOf ==
  [W |-> "W_SF", VA |-> "VA_SF", A |-> "A_SF", LLV |-> "V_SF", LNV |-> "V_SF", Hz |-> "Hz_SF",
   TmpCab |-> "Tmp_SF", TmpTrns |-> "Tmp_SF", TmpSw |-> "Tmp_SF", WL1 |-> "W_SF", AL1 |-> "A_SF",
   VL1L2 |-> "V_SF", WL2 |-> "W_SF", AL2 |-> "A_SF", SoC |-> "Pct_SF"]

\* The inverter's registers that a point shows, where a document says so:
\* README.md, "Data Mapping" (both AC voltages are "inverter voltage");
MappedTo ==
  [ACType |-> {286}, DERMode |-> {194}, W |-> {175}, A |-> {164, 165}, LLV |-> {156},
   LNV |-> {156}, Hz |-> {193}, TotWhInj |-> {84}, TmpCab |-> {182}, WHRtg |-> {204},
   WHAvail |-> {204, 184, 316}, SoC |-> {184, 316}, Sta |-> {322, 323}]

\* and, for points that section leaves out, the register table's row of the name
\* that the JSON gives the point: "DC/DC Transformer temperature", "IGBT Heat Sink
\* temperature", "Inverter output current L1" and "L2", "Inverter output voltage
\* L1-L2", "Grid side relay status".
NamedLike ==
  [TmpTrns |-> {90}, TmpSw |-> {91}, AL1 |-> {164}, AL2 |-> {165}, VL1L2 |-> {156},
   ConnSt |-> {194}]

SourcesOf ==
  [p \in DOMAIN MappedTo \cup DOMAIN NamedLike |->
     IF p \in DOMAIN MappedTo THEN MappedTo[p] ELSE NamedLike[p]]

\* Unit of a register as a power of ten of kWh, V, A, W, Hz, degree, per cent or
\* Ah, where its row of the register table states one.
Tenths     == {70, 71, 76, 77, 84, 108, 152, 156, 90, 91, 182, 319}
Hundredths == {160, 161, 162, 163, 164, 165, 179, 180, 191, 79, 192, 193, 183, 205, 220, 221, 222,
               312, 313, 317}
Ones       == {166, 184, 186, 187, 190, 204, 107, 217, 218, 219, 314, 315, 316, 318}
Powers     == {169, 175, 176, 177, 178}    \* "1W or 10W Reg 54"

UnitOf ==
  [r \in Tenths \cup Hundredths \cup Ones \cup Powers |->
     CASE r \in Tenths -> -1
       [] r \in Hundredths -> -2
       [] r \in Powers /\ AcPowerRatio = 10 -> 1
       [] OTHER -> 0]

\* The row of register 54 has a list of its own of what it scales, which leaves
\* 175 out and has three more.
ByPowerRatio == Powers \cup {179, 180, 190}
=============================================================================
