---------------------------- MODULE MCLoggedLoop ----------------------------
(* The instances of LoggedLoop that TLC checks: the rows show the first of *)
(* two blocks, as the columns of the file show some of the fifteen.        *)
EXTENDS LoggedLoop

CONSTANTS b1, b2

MCReadBlocks == << b1, b2 >>
=============================================================================
