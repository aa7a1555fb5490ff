---------------------------- MODULE MCSolArkPoll ----------------------------
(* The instances of SolArkPoll that TLC checks. *)
EXTENDS SolArkPoll

MCBlocks     == {"INVERTER_STATUS", "POWER_BATTERY_170", "DIAGNOSTICS"}
MCReadBlocks == << "INVERTER_STATUS", "POWER_BATTERY_170", "DIAGNOSTICS" >>
=============================================================================
