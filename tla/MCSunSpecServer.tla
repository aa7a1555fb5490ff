--------------------------- MODULE MCSunSpecServer ---------------------------
(* The instances of SunSpecServer that TLC checks. *)
EXTENDS SunSpecServer, TLC

CONSTANTS c1, c2

\* The points of two requests: the wiring of one block into two points, of two
\* blocks into one, and of a block that only the second request reaches.
MCBlocks    == {"POWER_BATTERY_170", "BMS_DATA_312"}
MCRegisters == {"INV_AC_POWER", "STORAGE_SOC"}
MCSources ==
  "INV_AC_POWER" :> {"POWER_BATTERY_170"} @@
  "STORAGE_SOC" :> {"POWER_BATTERY_170", "BMS_DATA_312"}
MCWindows == {MCRegisters, {"STORAGE_SOC"}}

\* The points that setup computes once.
MCBootBlocks    == {"POWER_BATTERY_170", "DIAGNOSTICS"}
MCBootRegisters == {"COMMON_VERSION"}
MCAllRegisters  == {"COMMON_VERSION", "INV_AC_POWER"}
MCBootSources ==
  "COMMON_VERSION" :> {"DIAGNOSTICS"} @@
  "INV_AC_POWER" :> {"POWER_BATTERY_170"}
MCBootWindows == {MCAllRegisters, {"INV_AC_POWER"}}

MCClients  == {c1, c2}
MCSymmetry == Permutations(MCClients)
=============================================================================
