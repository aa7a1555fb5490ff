----------------------------- MODULE LoggedLoop -----------------------------
(***************************************************************************)
(* loop() of main.cpp as the CSV log sees it: the master polls the         *)
(* inverter (SolArkPoll), then the logger (SdLogger) may append a row of   *)
(* what the cache holds, in one thread, across power cuts.  Power takes    *)
(* the cache and every timer; the file and the inverter's registers stay.  *)
(***************************************************************************)
EXTENDS SdLogger

CONSTANTS
  Blocks, ReadBlocks, PollRate, MaxGen, MaxCount,    \* as in SolArkPoll
  RowBlocks                                          \* the blocks that a row shows

ASSUME PollAssumption ==
  /\ ReadBlocks \in Seq(Blocks) /\ Len(ReadBlocks) > 0
  /\ PollRate \in Nat /\ PollRate < MaxLag
  /\ MaxGen \in Nat \ {0} /\ MaxCount \in Nat \ {0}
  /\ RowBlocks \subseteq Blocks

VARIABLES
  inverter, cache, response, step, index, any_success, last_result,
  solark_success_count, lastSolArkMillis, sincePoll, floor, got,
  turn,      \* the sub-loop that loop() is in: "master" or "log"
  rows       \* history: the generations shown by each row of the file

Poll == INSTANCE SolArkPoll WITH pc <- step

masterSide == << inverter, cache, response, step, index, any_success, last_result,
                 solark_success_count, lastSolArkMillis, sincePoll, floor, got >>
logSide    == << file, events, pc, _sd_available, _lastLogMillis, quiet, rows >>
loopVars   == << vars, masterSide, turn, rows >>

LoopInit ==
  /\ Init
  /\ Poll!Init
  /\ turn = "master"
  /\ rows = << >>

-----------------------------------------------------------------------------
\* setup() has opened the card before loop() polls.
Setup ==
  /\ setup_sd_card \/ setup_solark_csv_log \/ PrintHeader
  /\ UNCHANGED << masterSide, turn, rows >>

\* A step of loop_solark, with the success count that the logger asks for.
Master ==
  /\ turn = "master" /\ pc = "loop"
  /\ Poll!MasterStep
  /\ polled' = (solark_success_count' > 0)
  /\ turn' = IF step' = "gate" THEN "log" ELSE "master"
  /\ UNCHANGED logSide

\* The rate test fails: loop_solark returns at once.
MasterIdle ==
  /\ turn = "master" /\ pc = "loop"
  /\ step = "gate" /\ ~Poll!PollDue
  /\ turn' = "log"
  /\ UNCHANGED << vars, masterSide, rows >>

\* A step of loop_solark_csv_log: its tests and the open, a return at once, or the row.
Log ==
  /\ turn = "log"
  /\ UNCHANGED masterSide
  /\ \/ LogDue /\ turn' = (IF pc' = "row" THEN "log" ELSE "master") /\ UNCHANGED rows
     \/ pc = "loop" /\ ~Due /\ turn' = "master" /\ UNCHANGED << vars, rows >>
     \/ PrintRow /\ turn' = "master" /\ rows' = Append(rows, [b \in RowBlocks |-> cache[b]])

\* The cache is the constructor's again.
PowerFails ==
  /\ PowerCut
  /\ cache' = [b \in Blocks |-> 0] /\ response' = 0
  /\ step' = "gate" /\ index' = 1
  /\ any_success' = FALSE /\ last_result' = "success" /\ solark_success_count' = 0
  /\ lastSolArkMillis' = 0 /\ sincePoll' = 0
  /\ floor' = [b \in Blocks |-> 0] /\ got' = {}
  /\ turn' = "master"
  /\ UNCHANGED << inverter, rows >>

Environment ==
  \/ PowerFails
  \/ CardExchanged /\ rows' = << >> /\ UNCHANGED << masterSide, turn >>
  \/ Tick /\ Poll!Tick /\ UNCHANGED << turn, rows >>
  \/ (\E b \in Blocks : Poll!InverterChanges(b)) /\ UNCHANGED << vars, turn, rows >>

LoopNext == Setup \/ Master \/ MasterIdle \/ Log \/ Environment

LoopSpec == LoopInit /\ [][LoopNext]_loopVars

-----------------------------------------------------------------------------
\* The variables of the composed loop keep the values the code gives them.
LoopTypeOK ==
  /\ TypeOK
  /\ Poll!TypeOK
  /\ turn \in {"master", "log"}
  /\ rows \in Seq([RowBlocks -> 0 .. MaxGen])

\* Inside loop() the logger is the logger of SdLogger: the success count that it
\* asks the master for goes up once and stays up until the power goes, also when
\* later cycles fail (loop_solark, get_solark_success_count).
LoggerInLoop == Spec

\* A field of a row is either zero, not read since boot, or no older than in any
\* earlier row of the file, whichever reads failed and however often the power
\* went in between: the log of a block never runs backwards.
RowsNeverGoBack ==
  \A j \in DOMAIN rows : \A i \in 1 .. j - 1 : \A b \in RowBlocks :
    rows[j][b] = 0 \/ rows[j][b] >= rows[i][b]

\* No row before data: when the logger opens the file, some block has been read
\* since boot.
RowsFollowData == pc = "row" => \E b \in Blocks : cache[b] # 0

\* A new row shows every block that the last cycle read at least as new as it was
\* at the inverter when that cycle began, and is never made within a cycle.
RowsAreFresh ==
  [][Len(rows') > Len(rows) =>
       /\ step = "gate"
       /\ \A b \in RowBlocks \cap got : rows'[Len(rows')][b] >= floor[b]]_loopVars
=============================================================================
