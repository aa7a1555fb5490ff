--------------------------- MODULE MCRegisterMap ---------------------------
\* A model-checking instance of RegisterMap: the whole of the register tables.
EXTENDS RegisterMap

\* "Grid:Connected Batt:Idle" and "Grid:Connected Batt:Discharging".
MCAlarmLengths == {24, 31}
=============================================================================
