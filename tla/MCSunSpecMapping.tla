-------------------------- MODULE MCSunSpecMapping --------------------------
(* The inputs of SunSpecMapping that TLC enumerates: both sides of every    *)
(* threshold that the mapper tests.                                        *)
EXTENDS SunSpecMapping

MCStatus == {1, 2, 4}

\* 65436 is -100 W in two's complement.
MCPower        == {100, 101, 65436}
MCBatteryPower == {0, 65036}
MCRelay        == {1, 2}
MCGridType     == {1, 2}

\* 1279 Ah is the last capacity whose rating fits 16 bits.
MCCapacity == {100, 1279, 1280}
MCSoc      == {29, 100}
MCBmsSoc   == {0, 39, 100, 101}
MCFlags    == {0, 1}
=============================================================================
