------------------------------- MODULE SdLogger -------------------------------
(***************************************************************************)
(* The CSV log on the SD card: setup_sd_card (sd_card.cpp) and the logger  *)
(* (sd_logger.cpp), across power cuts and exchanges of the card.           *)
(*                                                                         *)
(* A line of the file is "header" or "row".  SD.open may fail whenever it  *)
(* is called, which stands for a missing, full or damaged card.            *)
(* Everything but the file is lost with the power.                         *)
(***************************************************************************)
EXTENDS Integers, Sequences

CONSTANTS
  NoFile,       \* LOG_FILE does not exist
  MillisMod,    \* millis() counts modulo this (2^32 on the board)
  Interval,     \* SD_SOLARK_LOG_INTERVAL_MS, in ticks of millis()
  MaxLag,       \* bound: quiet counts no further
  MaxLines,     \* bound: a file of so many lines cannot be opened any more
  MaxBoots      \* bound: power cuts and card exchanges

ASSUME LoggerAssumption ==
  /\ MillisMod \in Nat /\ Interval \in Nat \ {0} /\ MaxLag \in Nat
  /\ Interval < MaxLag /\ MaxLag < MillisMod
  /\ MaxLines \in Nat \ {0} /\ MaxBoots \in Nat

VARIABLES
  file,             \* the lines of LOG_FILE, or NoFile
  events,           \* power cuts and card exchanges so far
  pc,               \* where the firmware is: see Steps
  _sd_available,
  polled,           \* get_solark_success_count() # 0
  millis,
  _lastLogMillis,
  quiet             \* history: ticks since the last attempt to log, or since boot, up to MaxLag

volatile == << pc, _sd_available, polled, millis, _lastLogMillis, quiet >>
vars     == << file, events, volatile >>

Steps == {"card", "create", "header", "loop", "row"}
Lines == {"header", "row"}

\* A file that does not exist is told apart from one without lines.
ASSUME NoFileAssumption == NoFile \notin Seq(Lines)

Init ==
  /\ file = NoFile /\ events = 0
  /\ pc = "card"
  /\ _sd_available = FALSE
  /\ polled = FALSE
  /\ millis = 0 /\ _lastLogMillis = 0 /\ quiet = 0

-----------------------------------------------------------------------------
(* The environment.                                                        *)

PowerCut ==
  /\ events < MaxBoots
  /\ events' = events + 1
  /\ pc' = "card"
  /\ _sd_available' = FALSE
  /\ polled' = FALSE
  /\ millis' = 0 /\ _lastLogMillis' = 0 /\ quiet' = 0
  /\ UNCHANGED file

\* A blank card takes the place of the one in the slot.
CardExchanged ==
  /\ events < MaxBoots
  /\ pc = "loop" /\ file # NoFile
  /\ events' = events + 1
  /\ file' = NoFile
  /\ UNCHANGED volatile

Tick ==
  /\ pc = "loop"
  /\ millis' = (IF millis + 1 = MillisMod THEN 0 ELSE millis + 1)
  /\ quiet' = (IF quiet < MaxLag THEN quiet + 1 ELSE quiet)
  /\ UNCHANGED << file, events, pc, _sd_available, polled, _lastLogMillis >>

\* poll() has returned true for the first time since boot.
PollSucceeds ==
  /\ pc = "loop"
  /\ polled' = TRUE
  /\ UNCHANGED << file, events, pc, _sd_available, millis, _lastLogMillis, quiet >>

-----------------------------------------------------------------------------
(* setup().                                                                *)

setup_sd_card ==
  /\ pc = "card"
  /\ _sd_available' \in BOOLEAN
  /\ pc' = "create"
  /\ UNCHANGED << file, events, polled, millis, _lastLogMillis, quiet >>

\* Mutant of Creates: the file is opened for writing at every boot.
CreatesAlways == _sd_available

\* setup_solark_csv_log creates the file only if it is not there.
\* SD.exists() is assumed to be right: open() may fail on any card, but a file that
\* is there is never reported missing.  If it were, FILE_WRITE would truncate it.
Creates == _sd_available /\ file = NoFile

\* Mutant of setup_solark_csv_log: every boot appends a header.
setup_solark_csv_logAppends ==
  /\ pc = "create"
  /\ \E opened \in BOOLEAN :
       /\ file' = IF Creates /\ opened THEN << >> ELSE file
       /\ pc' = IF _sd_available /\ opened /\ (file = NoFile \/ Len(file) < MaxLines)
                THEN "header" ELSE "loop"
  /\ UNCHANGED << events, _sd_available, polled, millis, _lastLogMillis, quiet >>

setup_solark_csv_log ==
  /\ pc = "create"
  /\ \E opened \in BOOLEAN :
       /\ file' = IF Creates /\ opened THEN << >> ELSE file
       /\ pc' = IF Creates /\ opened THEN "header" ELSE "loop"
  /\ UNCHANGED << events, _sd_available, polled, millis, _lastLogMillis, quiet >>

PrintHeader ==
  /\ pc = "header"
  /\ file' = Append(file, "header")
  /\ pc' = "loop"
  /\ UNCHANGED << events, _sd_available, polled, millis, _lastLogMillis, quiet >>

-----------------------------------------------------------------------------
(* loop_solark_csv_log.                                                    *)

\* millis() - _lastLogMillis on unsigned long.
SinceAttempt ==
  IF millis >= _lastLogMillis THEN millis - _lastLogMillis ELSE (millis + MillisMod) - _lastLogMillis

Elapsed == SinceAttempt >= Interval

\* The tests at the head of loop_solark_csv_log.
Due == _sd_available /\ polled /\ Elapsed

Full == file # NoFile /\ Len(file) = MaxLines

\* Mutant of LogDue: the interval is counted from the last row written.
LogDueUnstamped ==
  /\ pc = "loop" /\ Due
  /\ \E opened \in BOOLEAN :
       /\ opened => ~Full
       /\ pc' = IF opened THEN "row" ELSE "loop"
       /\ file' = IF opened /\ file = NoFile THEN << >> ELSE file
       /\ _lastLogMillis' = IF opened THEN millis ELSE _lastLogMillis
  /\ quiet' = 0
  /\ UNCHANGED << events, _sd_available, polled, millis >>

\* The slot is stamped before the file is opened; FILE_APPEND creates the file.
LogDue ==
  /\ pc = "loop" /\ Due
  /\ _lastLogMillis' = millis
  /\ \E opened \in BOOLEAN :
       /\ opened => ~Full
       /\ pc' = IF opened THEN "row" ELSE "loop"
       /\ file' = IF opened /\ file = NoFile THEN << >> ELSE file
  /\ quiet' = 0
  /\ UNCHANGED << events, _sd_available, polled, millis >>

PrintRow ==
  /\ pc = "row"
  /\ file' = Append(file, "row")
  /\ pc' = "loop"
  /\ UNCHANGED << events, _sd_available, polled, millis, _lastLogMillis, quiet >>

Next ==
  \/ PowerCut \/ CardExchanged \/ Tick \/ PollSucceeds
  \/ setup_sd_card \/ setup_solark_csv_log \/ PrintHeader \/ LogDue \/ PrintRow

Spec == Init /\ [][Next]_vars

-----------------------------------------------------------------------------
(* Properties.                                                             *)

\* The lines of the file, none when there is no file.
Content == IF file = NoFile THEN << >> ELSE file

\* The variables keep the values the code gives them.
TypeOK ==
  /\ file = NoFile \/ (file \in Seq(Lines) /\ Len(file) <= MaxLines)
  /\ events \in 0..MaxBoots
  /\ pc \in Steps
  /\ _sd_available \in BOOLEAN /\ polled \in BOOLEAN
  /\ millis \in 0..(MillisMod - 1) /\ _lastLogMillis \in 0..(MillisMod - 1)
  /\ quiet \in 0..MaxLag

\* No boot, power cut or failed open costs a line that is already on the card:
\* the file only ever grows at its end (setup_solark_csv_log, loop_solark_csv_log).
LinesSurvive ==
  [][file # NoFile /\ file' # NoFile
       => Len(file') >= Len(file) /\ SubSeq(file', 1, Len(file)) = file]_vars

\* Attempts to log, the failing ones too, are at least an interval apart in one
\* boot, also across the wrap of millis(): a card that cannot be opened does not
\* slow every pass of loop() down (loop_solark_csv_log).
AttemptsSpaced == [][LogDue => quiet >= Interval]_vars

\* A header is never written after a row: however boots, power cuts and failed
\* opens fall, a header that is there at all is the first line.
HeaderOnlyFirst == \A i \in DOMAIN Content : Content[i] = "header" => i = 1

\* Claim of sd_logger.cpp's comments, "Create the log file with its CSV header if
\* this is the first boot with this card": a log with rows begins with its header.
RowsUnderHeader == Content # << >> => Head(Content) = "header"
=============================================================================
