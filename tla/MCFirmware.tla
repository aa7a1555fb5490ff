---------------------------- MODULE MCFirmware ----------------------------
EXTENDS Firmware, TLC

MCBudget == ("rest" :> 2) @@ ("ethernet" :> 0) @@ ("display" :> 0) @@ ("counter" :> 1)

MCMoreLines == {"first"}

B(oled, network, static, sd) ==
  [oled |-> oled, network |-> network, static |-> static, sd |-> sd, server |-> network # "none"]

MCBuilds ==
  { B(TRUE, "wifi", FALSE, FALSE), B(TRUE, "ethernet", TRUE, FALSE), B(TRUE, "none", FALSE, TRUE),
    B(FALSE, "wifi", FALSE, TRUE), B(FALSE, "ethernet", FALSE, TRUE) }
=============================================================================
