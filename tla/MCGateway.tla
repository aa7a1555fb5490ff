------------------------------ MODULE MCGateway ------------------------------
(* The instances of Gateway that TLC checks. *)
EXTENDS Gateway, TLC

CONSTANTS c1

MCBlocks     == {"POWER_BATTERY_170", "BMS_DATA_312"}
MCReadBlocks == << "POWER_BATTERY_170", "BMS_DATA_312" >>
MCRegisters  == {"INV_AC_POWER", "STORAGE_SOC"}
MCSources ==
  "INV_AC_POWER" :> {"POWER_BATTERY_170"} @@
  "STORAGE_SOC" :> {"POWER_BATTERY_170", "BMS_DATA_312"}
MCWindows == {MCRegisters}

MCClients == {c1}
=============================================================================
